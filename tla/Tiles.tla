-------------------------------- MODULE Tiles --------------------------------
(***************************************************************************)
(* Tiles, walls and meld facts: the encodings every other part of the      *)
(* rules is written in (internal/mahjong/tile, internal/mahjong/wall and   *)
(* the meld facts of the room engine).                                     *)
(*                                                                         *)
(* A tile is one byte, the suit in the high half and the rank in the low   *)
(* half; 0 is no tile and stands for the errors of New and Parse as well.  *)
(***************************************************************************)
EXTENDS Integers, Sequences, FiniteSets

SuitedSuits == 0..2
Honor == 3
Flower == 4
SuitedTileCount == 27
PlayableTileCount == 34
FullTileCount == 42

maxRank(s) ==
    CASE s \in SuitedSuits -> 9
      [] s = Honor -> 7
      [] s = Flower -> 8
      [] OTHER -> 0

New(s, rank) == IF rank \in 1..maxRank(s) THEN 16 * s + rank ELSE 0

Suit(t) == t \div 16

Rank(t) == t % 16

IsSuited(t) == Suit(t) \in SuitedSuits

IsFlower(t) == Suit(t) = Flower

(* Suited tiles take 0..26, honors 27..33, flowers 34..41.                 *)
Index(t) ==
    CASE IsSuited(t) -> Suit(t) * 9 + Rank(t) - 1
      [] Suit(t) = Honor -> SuitedTileCount + Rank(t) - 1
      [] IsFlower(t) -> PlayableTileCount + Rank(t) - 1
      [] OTHER -> -1

FromIndex(i) ==
    CASE i \in 0..SuitedTileCount - 1 -> New(i \div 9, (i % 9) + 1)
      [] i \in SuitedTileCount..PlayableTileCount - 1 -> New(Honor, i - SuitedTileCount + 1)
      [] i \in PlayableTileCount..FullTileCount - 1 -> New(Flower, i - PlayableTileCount + 1)
      [] OTHER -> 0

(* The text of a tile is a letter and a digit.                             *)
Letters == <<"m", "p", "s", "z", "f">>

String(t) == << IF Suit(t) \in 0..4 THEN Letters[Suit(t) + 1] ELSE "?", Rank(t) >>

Parse(text) ==
    IF \E s \in 0..4 : Letters[s + 1] = text[1] /\ text[2] \in 1..maxRank(s)
    THEN New(CHOOSE s \in 0..4 : Letters[s + 1] = text[1], text[2])
    ELSE 0

(* How many tiles of each index the walls hold; the order is the shuffle's *)
NewFull108 == [i \in 0..FullTileCount - 1 |-> IF i < SuitedTileCount THEN 4 ELSE 0]

NewFull136 == [i \in 0..FullTileCount - 1 |->
                  IF i \in SuitedTileCount..PlayableTileCount - 1 THEN 4 ELSE NewFull108[i]]

NewFull144 == [i \in 0..FullTileCount - 1 |-> IF i >= PlayableTileCount THEN 1 ELSE NewFull136[i]]

----------------------------------------------------------------------------
(* A meld fact is kept as text: the kind, the texts of the tiles and, when *)
(* the meld was claimed, the seat it was claimed from.  The fields of that *)
(* text are the elements of a sequence here.                               *)
SeatInvalid == -1

(* The tiles that are any, appended one by one.  A list that loses none is *)
(* set apart from what SelectSeq does, which the provers do not know.      *)
RealTiles(tiles) ==
    IF \E k \in 1..Len(tiles) : tiles[k] = 0
    THEN SelectSeq(tiles, LAMBDA t : t # 0)
    ELSE << >> \o tiles

encodeMeldFact(kind, tiles, from) ==
    LET real == RealTiles(tiles)
        texts == [k \in 1..Len(real) |-> String(real[k])]
    IN  IF from \in 0..3 THEN << kind, texts, from >> ELSE << kind, texts >>

parseMeldFact(fact) ==
    [kind      |-> fact[1],
     tiles     |-> RealTiles([k \in 1..Len(fact[2]) |-> Parse(fact[2][k])]),
     from      |-> IF Len(fact) = 3 THEN fact[3] ELSE SeatInvalid,
     concealed |-> fact[1] = "an_gang"]

expandMeldTiles(m) ==
    LET Copies(n) == [k \in 1..n |-> m.tiles[1]]
    IN  CASE Len(m.tiles) = 1 /\ m.kind = "pong" -> Copies(3)
          [] Len(m.tiles) = 1 /\ m.kind \in {"gang", "zhi_gang", "an_gang", "bu_gang"} -> Copies(4)
          [] OTHER -> m.tiles

(* What the rules see of a seat's facts: melds of at least three tiles.    *)
meldContexts(facts) ==
    LET context(f) == LET m == parseMeldFact(f)
                      IN  [kind |-> m.kind, tiles |-> expandMeldTiles(m), concealed |-> m.concealed]
        all == [k \in 1..Len(facts) |-> context(facts[k])]
    IN  IF \E k \in 1..Len(all) : Len(all[k].tiles) < 3
        THEN SelectSeq(all, LAMBDA m : Len(m.tiles) >= 3)
        ELSE << >> \o all

hasPongMeld(facts, t) ==
    \E k \in 1..Len(facts) :
        LET m == parseMeldFact(facts[k])
        IN  m.kind = "pong" /\ m.tiles # <<>> /\ m.tiles[1] = t

(* The first pong of the tile becomes an added gang from the same seat.    *)
upgradePongToBuGang(facts, t) ==
    LET pongs == {k \in 1..Len(facts) : hasPongMeld(<<facts[k]>>, t)}
        first == CHOOSE k \in pongs : \A j \in pongs : k <= j
    IN  IF pongs = {} THEN facts
        ELSE [facts EXCEPT ![first] =
                 encodeMeldFact("bu_gang", <<t, t, t, t>>, parseMeldFact(facts[first]).from)]
=============================================================================
