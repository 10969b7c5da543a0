------------------------------ MODULE MCPoints ------------------------------
(***************************************************************************)
(* The points of small blood battles: BloodBattle with three deals.        *)
(***************************************************************************)
EXTENDS BloodBattle

HandOf(indexes) == HandCounts([k \in 1..Len(indexes) |-> FromIndex(indexes[k])])

Deal(a, b, c, d, missing, declared) ==
    [hands    |-> [s \in Seats |-> HandOf(<< a, b, c, d >>[s + 1])],
     missing  |-> [s \in Seats |-> missing[s + 1]],
     declared |-> declared]

(* Seat 0 and seat 3 wait, both for one tile; seat 1 is a pig; seats 0, 1  *)
(* and 2 can gang.                                                         *)
FirstHands ==
    << <<0, 0, 0, 3, 4, 5, 12, 13, 14, 6, 7, 8, 2>>, <<9, 9, 9, 8, 10, 15, 18, 20, 22, 24, 26, 17, 13>>,
       <<11, 11, 11, 19, 21, 23, 25, 15, 17, 12, 16, 24, 14>>, <<18, 19, 20, 21, 22, 23, 24, 25, 26, 5, 6, 7, 2>> >>

(* Seat 0 can pong and add the tile seat 3 waits for; seat 2 is a pig that *)
(* waits.                                                                  *)
SecondHands ==
    << <<0, 0, 3, 4, 5, 12, 13, 14, 6, 7, 8, 15, 9>>, <<18, 18, 8, 9, 11, 13, 15, 17, 20, 22, 26, 10, 12>>,
       <<19, 20, 21, 22, 23, 24, 5, 6, 7, 1, 2, 3, 11>>, <<1, 2, 18, 18, 19, 20, 21, 22, 23, 24, 24, 25, 26>> >>

(* The last round ends before the missing suits are declared.              *)
MCDeals ==
    {Deal(FirstHands[1], FirstHands[2], FirstHands[3], FirstHands[4], <<2, 0, 0, 1>>, TRUE),
     Deal(SecondHands[1], SecondHands[2], SecondHands[3], SecondHands[4], <<2, 0, 1, 1>>, TRUE),
     Deal(FirstHands[1], FirstHands[2], FirstHands[3], FirstHands[4], <<0, 0, 0, 0>>, FALSE)}
=============================================================================
