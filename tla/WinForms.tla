------------------------------- MODULE WinForms -------------------------------
(***************************************************************************)
(* Winning shapes and waits (internal/mahjong/hu): the decomposer all      *)
(* rules share.  Counts gives the number of tiles of each playable index;  *)
(* flowers take no part.                                                   *)
(***************************************************************************)
EXTENDS Tiles, FiniteSetsExt

Playable == 0..PlayableTileCount - 1

NoCounts == [i \in Playable |-> 0]

(* What is counted, one by one, and how much that is: the sum of c[i] over *)
(* the domain of c.                                                        *)
Units(c) == UNION {{i} \X (1..c[i]) : i \in DOMAIN c}

Total(c) == Cardinality(Units(c))

Less(c, i, n) == [c EXCEPT ![i] = @ - n]

LessRun(c, i) == [c EXCEPT ![i] = @ - 1, ![i + 1] = @ - 1, ![i + 2] = @ - 1]

(* Hand.Counts: the playable tiles of a sequence of tiles.                 *)
HandCounts(tiles) ==
    [i \in Playable |-> Cardinality({k \in 1..Len(tiles) : Index(tiles[k]) = i})]

nextNonZero(c) == LET held == {i \in Playable : c[i] > 0} IN IF held = {} THEN -1 ELSE Min(held)

(* The bound of a run start off by one: 8-9-1 across two suits.            *)
RunStartPastSeven(i) == i < SuitedTileCount /\ i % 9 <= 7

(* A run that may start at i stays inside one suit.                        *)
RunStart(i) == i < SuitedTileCount /\ i % 9 <= 6

(* c is a meld with its lowest tile, a triplet or any run that covers it,  *)
(* and a rest that is what is asked of it.                                 *)
TakesLowest(c, rest) ==
    LET i == nextNonZero(c)
    IN  \/ c[i] >= 3 /\ rest[Less(c, i, 3)]
        \/ /\ i < SuitedTileCount
           /\ \E a \in i - 2..i :
                 /\ a >= 0 /\ a \div 9 = i \div 9 /\ RunStart(a)
                 /\ \A k \in 0..2 : c[a + k] >= 1
                 /\ rest[LessRun(c, a)]

(* Whether c is exactly `need` melds, each taken with the lowest tile left.*)
meldN[need \in 0..4] ==
    [c \in [Playable -> Nat] |-> Total(c) = need * 3 /\ (need > 0 => TakesLowest(c, meldN[need - 1]))]

standardFormMelds(c, need) ==
    need \in 0..4 /\ \E i \in Playable : c[i] >= 2 /\ meldN[need][Less(c, i, 2)]

StandardForm(c) == Total(c) = 14 /\ standardFormMelds(c, 4)

(* Four of a kind count as two pairs.                                      *)
SevenPairs(c) == Total(c) = 14 /\ \A i \in Playable : c[i] \in {0, 2, 4}

IsWinning(c) ==
    /\ Total(c) = 14
    /\ \A i \in Playable : c[i] <= 4
    /\ SevenPairs(c) \/ StandardForm(c)

StandardFormWithOpenMelds(c, open) ==
    open \in 0..4 /\ Total(c) = 14 - open * 3 /\ standardFormMelds(c, 4 - open)

IsWinningWithOpenMelds(c, open) ==
    IF open = 0 THEN IsWinning(c)
    ELSE (\A i \in Playable : c[i] <= 4) /\ StandardFormWithOpenMelds(c, open)

(* The waits of a hand of thirteen tiles; a hand with melds has none.      *)
TingTiles(c) ==
    IF Total(c) # 13 THEN {}
    ELSE {FromIndex(i) : i \in {j \in Playable : c[j] < 4 /\ IsWinning([c EXCEPT ![j] = @ + 1])}}

IsTing(c) == TingTiles(c) # {}
=============================================================================
