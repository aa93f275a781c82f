----------------------------- MODULE TownSquare -----------------------------
(***************************************************************************)
(* The grid engine of src/services/predator-prey.mjs under its two casts.  *)
(* The square (spins = FALSE: foxes, goblins, crumbs, the player's morsels)*)
(* is played from a page that runs one call at a time and can recast the   *)
(* store it plays on; the web board (spins = TRUE: spiders, flies, eggs)   *)
(* carries prey to webs, spins them and lays eggs.  The store only ever    *)
(* gains rows, each stamped with the run (epoch) and the turn that wrote   *)
(* it; what is kept here is their fold, which every operation reads.       *)
(*                                                                         *)
(* Beliefs, moods, facings and seeded picks are left out: an animal takes  *)
(* any step its rung could choose.  Every eater has the appetite for what  *)
(* it meets, as in both shipped worlds.                                    *)
(***************************************************************************)
EXTENDS Integers, FiniteSets, FiniteSetsExt

CONSTANTS
  Cell,            \* the open cells (no prop stands on one)
  Perimeter,       \* those at the edge, where arrivals come in
  Exit,            \* Exit[c] : the cells one step from c
  StaticWeb,       \* the cells of the web board's own web block
  Home,            \* the one its first spider starts in
  CastSizes,       \* the rosters a square may be opened with: <<foxes, goblins>>
  FlyCounts,       \* the number of flies the web board may be opened with
  InitialMass,     \* InitialMass[role]
  Drain,           \* Drain[role] : what a turn costs
  FoodMass,        \* what a crumb or a morsel weighs
  EggLayMass,      \* eggLayMassThreshold
  EggHatchDelay,   \* eggHatchDelayTurns
  EggHatchCount,
  MinHatchlingMass,
  WebDuration,     \* webDurationTurns
  PreyInterval,    \* preySpawnIntervalTurns
  FoodInterval,    \* foodSpawnIntervalTurns
  MaxPrey,         \* maxPreyPopulation, of the square
  MaxFood,         \* maxFoodItems
  MaxTurn,         \* bound: MaxTurn[cast][epoch], the ticks of one run
  MaxEpoch,        \* bound: recasts
  MaxPlaced        \* bound: morsels

ASSUME TownSquareAssumption ==
  /\ Home \in StaticWeb /\ StaticWeb \subseteq Cell /\ Perimeter \subseteq Cell
  /\ Exit \in [Cell -> SUBSET Cell]
  /\ InitialMass["predator"] < EggLayMass
  /\ {EggHatchDelay, EggHatchCount, MinHatchlingMass, PreyInterval, FoodInterval} \subseteq Nat \ {0}
  /\ WebDuration \in Nat
  /\ CastSizes \subseteq (Nat \ {0}) \X Nat /\ FlyCounts \subseteq Nat

VARIABLES
  spins,   \* which of the two casts plays
  epoch,   \* the current run
  played,  \* the newest turn marker
  place,   \* place[i] : the newest placement row of i
  mass,    \* mass[i] : the newest mass row of i
  gone,    \* gone[i] : the run in which i was eaten, starved or hatched last
  holds    \* holds[p] : the prey predator p said it carries, or None

vars == <<spins, epoch, played, place, mass, gone, holds>>

None == <<"none", 0>>
Food == {"crumb", "morsel"}

-----------------------------------------------------------------------------
(* The fold *)

OutranksByTurn(row, prior) == row.turn >= prior.turn

Outranks(row, prior) ==
  \/ row.epoch > prior.epoch
  \/ row.epoch = prior.epoch /\ row.turn >= prior.turn

\* `rows' appended to what `fold' has already folded.
Appended(fold, rows) ==
  [i \in DOMAIN fold \union DOMAIN rows |->
     IF i \in DOMAIN fold /\ (i \in DOMAIN rows => ~Outranks(rows[i], fold[i]))
     THEN fold[i] ELSE rows[i]]

\* The rows of `f', and of `g' those `f' has none for.
f ++ g == [i \in DOMAIN f \union DOMAIN g |-> IF i \in DOMAIN f THEN f[i] ELSE g[i]]

Stamped(f, e, k) == [i \in DOMAIN f |-> [val |-> f[i], epoch |-> e, turn |-> k]]

TickCount == IF played.epoch = epoch THEN played.turn ELSE 0
Turn == TickCount + 1

Removed(i) == i \in DOMAIN gone /\ gone[i] = epoch
LiveOf(kind) == {i \in DOMAIN place : i[1] = kind /\ ~Removed(i)}
Predators == LiveOf("predator")
Prey == LiveOf("prey")
Animals == Predators \union Prey
Items == LiveOf("crumb") \union LiveOf("morsel")
Eggs == LiveOf("egg")
At(i) == place[i].val
Mass(i) == mass[i].val

MaxLiveSuffix(kind) == Max({0} \union {i[2] : i \in LiveOf(kind)})

MaxSuffix(kind) == Max({0} \union {i[2] : i \in {j \in DOMAIN place : j[1] = kind}})
NewId(kind, n) == <<kind, MaxSuffix(kind) + n>>

\* The block of the layout, or a web spun in this run less than WebDuration ago.
Webbed(c) ==
  /\ spins
  /\ \/ c \in StaticWeb
     \/ \E w \in LiveOf("web") :
          At(w) = c /\ place[w].epoch = epoch /\ place[w].turn + WebDuration > Turn

\* The one the code meets first: ids sort by their number.
First(S) == CHOOSE i \in S : \A j \in S : i[2] <= j[2]

-----------------------------------------------------------------------------
(* The move half of a tick *)

Held == {pq \in (Predators \intersect DOMAIN holds) \X Prey : holds[pq[1]] = pq[2]}
Carrying(p) == \E q \in Prey : <<p, q>> \in Held
Captors(q) == {p \in Predators : <<p, q>> \in Held}

\* Where each animal may go: a catch is delivered where it is in a web and rides
\* along otherwise, webbed prey is trapped, and any other rung is one step.
Moves ==
  LET stuck == {i \in Animals : Webbed(At(i)) /\ (i \in Prey \/ Carrying(i))}
      reach == [i \in Animals |-> {At(i)} \union (IF i \in stuck THEN {} ELSE Exit[At(i)])]
      held == Held
      riders == {pq[2] : pq \in held} IN
  {to \in [Animals -> Cell] :
     /\ \A i \in Animals \ riders : to[i] \in reach[i]
     /\ \A pq \in held : to[pq[2]] = to[pq[1]]}

\* A spider with nothing in sight spins a web where no web is.
MaySpin(to) ==
  {p \in Predators : spins /\ ~Carrying(p) /\ to[p] = At(p) /\ ~Webbed(At(p))}
NewWebs(to, spinners) ==
  [w \in {NewId("web", n) : n \in 1..Cardinality(spinners)} |->
     to[CHOOSE p \in spinners :
          Cardinality({r \in spinners : r[2] <= p[2]}) = w[2] - MaxSuffix("web")]]

-----------------------------------------------------------------------------
(* The ecology pass, over the cells the animals moved to *)

Drained(i) == Max({0, Mass(i) - Drain[i[1]]})
Here(S, c, to) == {i \in S : to[i] = c}
Nth(i, S) == Cardinality({j \in S : j[2] < i[2]})

\* Contact: a free predator and an unclaimed prey of one cell, in the order of
\* their ids.
Caught(to) ==
  LET free == {p \in Predators : ~Carrying(p)}
      unclaimed == {q \in Prey : Captors(q) = {}} IN
  Held \union
  {pq \in free \X unclaimed :
     /\ to[pq[1]] = to[pq[2]]
     /\ Nth(pq[1], Here(free, to[pq[1]], to)) = Nth(pq[2], Here(unclaimed, to[pq[2]], to))}

KillsWhereItStood(to) ==
  IF spins THEN {pq \in Caught(to) : Webbed(At(pq[1]))}
  ELSE {pq \in Predators \X Prey :
          to[pq[1]] = to[pq[2]] /\ pq[1] = First(Here(Predators, to[pq[2]], to))}

\* <<predator, prey>> : what is eaten, at once or in a web.
Kills(to) ==
  IF spins THEN {pq \in Caught(to) : Webbed(to[pq[1]])}
  ELSE {pq \in Predators \X Prey :
          to[pq[1]] = to[pq[2]] /\ pq[1] = First(Here(Predators, to[pq[2]], to))}

SharedBites(to, left) == {qf \in left \X Items : to[qf[1]] = At(qf[2])}

\* <<prey, food>> : the first prey left on a cell takes all that lies there.
Bites(to, left) ==
  {qf \in left \X Items : to[qf[1]] = At(qf[2]) /\ qf[1] = First(Here(left, At(qf[2]), to))}

\* What an animal weighs once it has eaten.
Fed(kills, bites) ==
  [i \in Animals |->
     Drained(i)
     + MapThenSumSet(LAMBDA pq : Drained(pq[2]), {pq \in kills : pq[1] = i})
     + MapThenSumSet(LAMBDA qf : Mass(qf[2]), {qf \in bites : qf[1] = i})]

HoldsAfter(kept) ==
  [p \in DOMAIN holds \union Predators |->
     IF p \notin Predators THEN holds[p]
     ELSE IF \E q \in Prey : <<p, q>> \in kept THEN CHOOSE q \in Prey : <<p, q>> \in kept
     ELSE None]

\* One egg at a time, by the first that may; its mass is what the layer weighs
\* over a fresh spider.
Layers(to, survivors, fed) ==
  LET able == {p \in Predators \intersect survivors : Webbed(to[p]) /\ fed[p] >= EggLayMass} IN
  IF Eggs # {} \/ able = {} THEN {} ELSE {First(able)}

\* Eggs due this turn. A small one hatches fewer rather than emaciated spiders.
Due == {e \in Eggs : place[e].turn + EggHatchDelay = Turn}
Brood(e) ==
  LET n == Max({k \in 1..EggHatchCount : k = 1 \/ k * MinHatchlingMass <= Mass(e)})
      share == Mass(e) \div n IN
  [h \in {NewId("predator", j) : j \in 1..n} |->
     IF h = NewId("predator", 1) THEN share + Mass(e) - share * n ELSE share]
Hatchlings == UNION {DOMAIN Brood(e) : e \in Due}

\* The cells an arrival may come in at: none when none is due or all are taken.
Occupied(to, survivors) == {to[i] : i \in survivors} \union {At(e) : e \in Eggs}
PreyCells(to, survivors) ==
  {c \in Perimeter \ Occupied(to, survivors) :
     /\ Turn % PreyInterval = 0
     /\ ~spins => Cardinality(Prey \intersect survivors) < MaxPrey}
FoodCells(occupied, items) ==
  {c \in Cell \ (occupied \union {At(f) : f \in items}) :
     ~spins /\ Turn % FoodInterval = 0 /\ Cardinality(items) < MaxFood}
OneOf(S) == IF S = {} THEN {{}} ELSE {{c} : c \in S}

-----------------------------------------------------------------------------
(* The operations *)

\* What a turn writes once the animals have moved and eaten: one batch of rows
\* stamped with the turn.
Passed(to, kills, bites, fed, survivors) ==
  LET lost == Animals \ survivors
      eaten == {qf[2] : qf \in bites}
      layers == Layers(to, survivors, fed)
      eggs == [e \in {NewId("egg", 1) : p \in layers} |-> First(layers)]
  IN
  \E spinners \in SUBSET MaySpin(to) :
  \E preyCell \in OneOf(PreyCells(to, survivors)) :
  \E foodCell \in OneOf(FoodCells(Occupied(to, survivors) \union preyCell, Items \ eaten)) :
    LET prey == [q \in {NewId("prey", 1) : c \in preyCell} |-> CHOOSE c \in preyCell : TRUE]
        food == [f \in {NewId("crumb", 1) : c \in foodCell} |-> CHOOSE c \in foodCell : TRUE]
    IN
    /\ place' = Appended(place, Stamped(
         to ++ NewWebs(to, spinners) ++ [e \in DOMAIN eggs |-> to[eggs[e]]]
            ++ [h \in Hatchlings |-> At(First(Due))] ++ prey ++ food, epoch, Turn))
    /\ mass' = Appended(mass, Stamped(
         [i \in survivors |-> IF i \in layers THEN InitialMass["predator"] ELSE fed[i]]
            ++ [e \in DOMAIN eggs |-> fed[eggs[e]] - InitialMass["predator"]]
            ++ [h \in Hatchlings |-> Brood(First(Due))[h]]
            ++ [q \in DOMAIN prey |-> InitialMass["prey"]]
            ++ [f \in DOMAIN food |-> FoodMass], epoch, Turn))
    /\ gone' = [i \in lost \union eaten \union Due |-> epoch] ++ gone
    /\ holds' = IF spins
                THEN HoldsAfter({pq \in Caught(to) \ kills : pq[2] \notin lost})
                ELSE holds

\* runTownSquareTick: every animal moves, and the ecology pass runs where it stands.
Tick ==
  /\ TickCount < MaxTurn[spins][epoch]
  /\ \E to \in Moves :
     \E kills \in {Kills(to)} :
     \E bites \in {Bites(to, Prey \ {pq[2] : pq \in kills})} :
     \E fed \in {Fed(kills, bites)} :
     \E survivors \in {{i \in DOMAIN fed : fed[i] > 0 /\ \A pq \in kills : i # pq[2]}} :
       Passed(to, kills, bites, fed, survivors)
  /\ played' = [epoch |-> epoch, turn |-> Turn]
  /\ UNCHANGED <<spins, epoch>>

\* placeFood: stamped with the turn the next tick will run, next to which it lies.
PlaceFood(c) ==
  /\ ~spins
  /\ Cardinality({i \in DOMAIN place : i[1] = "morsel"}) < MaxPlaced
  /\ \A f \in Items : At(f) # c
  /\ LET morsel == {NewId("morsel", 1)} IN
     /\ place' = Appended(place, Stamped([f \in morsel |-> c], epoch, Turn))
     /\ mass' = Appended(mass, Stamped([f \in morsel |-> FoodMass], epoch, Turn))
  /\ UNCHANGED <<spins, epoch, played, gone, holds>>

\* seededRoster: no cell twice, prey at the edge while the edge has room.
Rosters(foxes, goblins) ==
  LET ids == {<<"predator", n>> : n \in 1..foxes} \union {<<"prey", n>> : n \in 1..goblins} IN
  {r \in [ids -> Cell] :
     /\ \A i, j \in ids : r[i] = r[j] => i = j
     /\ \A q \in ids : q[1] = "prey" /\ r[q] \notin Perimeter => Perimeter \subseteq {r[i] : i \in ids}}

\* startTownSquareGame's rows for a run: turn 0 of it.
RosterMass(r) == [i \in DOMAIN r |-> InitialMass[i[1]]]

HasRoster(e) == place[<<"predator", 1>>].epoch = e
Reopened(r) ==
  IF HasRoster(epoch + 1) THEN UNCHANGED <<place, mass>>
  ELSE /\ place' = Appended(place, Stamped(r, epoch + 1, 0))
       /\ mass' = Appended(mass, Stamped(RosterMass(r), epoch + 1, 0))

\* recastTownSquare: the marker that opens a run, then startTownSquareGame for it.
Recast ==
  /\ ~spins
  /\ epoch < MaxEpoch
  /\ epoch' = epoch + 1
  /\ \E size \in CastSizes : \E r \in Rosters(size[1], size[2]) : Reopened(r)
  /\ UNCHANGED <<spins, played, gone, holds>>

Opened(r) ==
  /\ place = Stamped(r, 0, 0)
  /\ mass = Stamped(RosterMass(r), 0, 0)

Init ==
  /\ spins \in BOOLEAN
  /\ IF spins
     THEN \E n \in FlyCounts : \E r \in Rosters(1, n) : r[<<"predator", 1>>] = Home /\ Opened(r)
     ELSE \E size \in CastSizes : \E r \in Rosters(size[1], size[2]) : Opened(r)
  /\ epoch = 0
  /\ played = [epoch |-> 0, turn |-> 0]
  /\ gone = << >>
  /\ holds = IF spins THEN [p \in {<<"predator", 1>>} |-> None] ELSE << >>

Next ==
  \/ Tick
  \/ \E c \in Cell : PlaceFood(c)
  \/ Recast

Spec == Init /\ [][Next]_vars

-----------------------------------------------------------------------------
(* Properties *)

\* A tick neither makes nor loses mass but for what it drains and the arrivals it
\* brings in: nothing is eaten by two, and an egg gives its hatchlings what its
\* layer gave it.
Weighed == Animals \union Items \union Eggs
OnBoard == MapThenSumSet(Mass, Weighed)
AfterDrain == MapThenSumSet(LAMBDA i : IF i \in Animals THEN Drained(i) ELSE Mass(i), Weighed)
ArrivedMass ==
  MapThenSumSet(LAMBDA i : IF i[1] = "prey" THEN InitialMass["prey"] ELSE FoodMass,
                {i \in DOMAIN place' \ DOMAIN place : i[1] \in {"prey", "crumb"}})
MassIsConserved == [][played' # played => OnBoard' = AfterDrain + ArrivedMass]_vars

\* Within a run nothing that was eaten, starved or hatched is heard of again: no
\* arrival takes its id and no later row moves or feeds it.
TheGoneStayGone ==
  [][epoch' = epoch =>
       \A i \in DOMAIN place : Removed(i) => Removed(i)' /\ place'[i] = place[i] /\ mass'[i] = mass[i]]_vars

\* A catch is where its one captor is, and does not outlast the first tick that
\* finds the two in a web spun before it.
HeldPreyRidesAlong ==
  \A pq \in Held :
     /\ Captors(pq[2]) = {pq[1]}
     /\ At(pq[1]) = At(pq[2])
     /\ At(pq[1]) \notin StaticWeb
     /\ \A w \in LiveOf("web") :
          At(w) = At(pq[1]) => place[w].turn = TickCount \/ place[w].turn + WebDuration <= TickCount

\* A recast opens on a fresh roster whatever the last run left: its animals stand
\* on cells of their own with the mass they start with, and the turns count from 0.
RecastReopens ==
  [][epoch' # epoch =>
       /\ TickCount' = 0
       /\ \E size \in CastSizes : \E r \in Rosters(size[1], size[2]) : \A i \in DOMAIN r :
            i \in DOMAIN place' /\ ~Removed(i)' /\ place'[i].val = r[i] /\ mass'[i].val = InitialMass[i[1]]]_vars
=============================================================================
