---------------------------- MODULE MCTownSquare ----------------------------
\* A row of three cells, both ends of it the edge, and the web at the first.
EXTENDS TownSquare, TLC

MCCell == {1, 2, 3}
MCPerimeter == {1, 3}
MCExit == <<{2}, {1, 3}, {2}>>
MCStaticWeb == {1}
MCCastSizes == {<<2, 1>>, <<1, 2>>}
MCFlyCounts == {1, 2}
MCInitialMass == [predator |-> 4, prey |-> 5]
MCMaxTurn == [s \in BOOLEAN |-> IF s THEN 0 :> 6 ELSE 0 :> 2 @@ 1 :> 1]
MCDrain == [predator |-> 1, prey |-> 1]
=============================================================================
