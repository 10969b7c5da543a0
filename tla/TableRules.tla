------------------------------ MODULE TableRules ------------------------------
(***************************************************************************)
(* The claims and gangs every variant builds on (internal/mahjong/rules)   *)
(* and how the room engine carries a chi out.  c is the count of each      *)
(* playable index in the concealed hand.                                   *)
(***************************************************************************)
EXTENDS WinForms

CanAnGang(c, t) == t # 0 /\ c[Index(t)] >= 4

CanBuGang(c, melds, t) ==
    /\ t # 0 /\ c[Index(t)] >= 1
    /\ \E k \in 1..Len(melds) :
          /\ melds[k].kind = "pong" /\ Len(melds[k].tiles) >= 3
          /\ \A j \in 1..3 : melds[k].tiles[j] = t

(* The tiles of the run of t's suit that starts at rank a.                 *)
Run(t, a) == [k \in 1..3 |-> New(Suit(t), a + k - 1)]

(* canStandardChi with the last start off by one.                          *)
ChiPastNine(c, t, seat, source) ==
    /\ IsSuited(t) /\ source \in 0..3 /\ seat = (source + 1) % 4
    /\ \E a \in (Rank(t) - 2..Rank(t)) \cap 1..8 :
          \A k \in 1..3 : Run(t, a)[k] \in {t, 0} \/ c[Index(Run(t, a)[k])] >= 1

(* Only the next seat may take a tile for a run, and the run stays inside  *)
(* the ranks of the suit.                                                  *)
canStandardChi(c, t, seat, source) ==
    /\ IsSuited(t) /\ source \in 0..3 /\ seat = (source + 1) % 4
    /\ \E a \in (Rank(t) - 2..Rank(t)) \cap 1..7 :
          \A k \in 1..3 : Run(t, a)[k] = t \/ c[Index(Run(t, a)[k])] >= 1

(* StandardClaimPolicy: what a seat may do with a tile.  wins says whether *)
(* the variant's CheckHu accepts the hand with the tile; the tile of an    *)
(* added gang can only be won on.                                          *)
Candidates(c, t, seat, source, hued, qiangGang, wins) ==
    IF hued \/ t = 0 \/ seat = source THEN {}
    ELSE {a \in {"hu", "gang", "pong", "chi"} :
             \/ a = "hu" /\ wins
             \/ /\ ~qiangGang
                /\ \/ a = "gang" /\ c[Index(t)] >= 3
                   \/ a = "pong" /\ c[Index(t)] >= 2
                   \/ a = "chi" /\ canStandardChi(c, t, seat, source)}

----------------------------------------------------------------------------
(* ApplyChi: a run is three neighbours of one suit, in any order.          *)
isChiSequence(tiles) ==
    /\ Len(tiles) = 3
    /\ \A k \in 1..3 : Suit(tiles[k]) = Suit(tiles[1])
    /\ \E a \in 0..14 : {Rank(tiles[k]) : k \in 1..3} = a..a + 2

(* The tiles of a run other than the claimed one are in the hand.          *)
handContainsChiRemainder(c, t, run) ==
    LET need == {run[k] : k \in 1..3} \ {t}
    IN  (\E k \in 1..3 : run[k] = t) /\ \A u \in need : c[Index(u)] >= 1

NoRun == << >>

(* The run for a player who names none: the lowest that the hand fills.    *)
lowestChiRun(c, t) ==
    LET starts == {a \in Rank(t) - 2..Rank(t) :
                      a >= 1 /\ a + 2 <= 9 /\ handContainsChiRemainder(c, t, Run(t, a))}
    IN  IF starts = {} THEN NoRun ELSE Run(t, Min(starts))

(* What a request can name: what Parse makes of texts, 0 for no tile.      *)
ParsedTiles == {0} \cup {FromIndex(i) : i \in 0..FullTileCount - 1}

resolveChiTiles(c, t, named) ==
    IF named = << >> THEN lowestChiRun(c, t)
    ELSE IF /\ Len(named) = 3 /\ \A k \in 1..3 : named[k] # 0
            /\ \E k \in 1..3 : named[k] = t
            /\ isChiSequence(named) /\ handContainsChiRemainder(c, t, named)
         THEN named ELSE NoRun
=============================================================================
