----------------------------- MODULE HandAnalysis -----------------------------
(***************************************************************************)
(* Advice about a hand (internal/mahjong/analysis): the distance to a win, *)
(* the tiles that are still out, and the choices of missing suit, tiles to *)
(* exchange and discard.                                                   *)
(*                                                                         *)
(* PublicInfo is a record: discards, melds and drawn give for each seat    *)
(* the sequences of tiles (of melds) the table shows, que the missing      *)
(* suits and self the seat that asks.                                      *)
(***************************************************************************)
EXTENDS WinForms, SequencesExt

Least(a, b) == IF a < b THEN a ELSE b

(* The walk of standardShanten, all its branches at once: a state is what  *)
(* is left of the hand and the melds, incomplete runs and pair taken out   *)
(* of it, and each branch takes something with the lowest tile left.       *)
Branches(w) ==
    LET c == w.left
        i == nextNonZero(c)
        Suited(last) == i < SuitedTileCount /\ i % 9 <= last
        Without(k) == [c EXCEPT ![i] = @ - 1, ![i + k] = @ - 1]
        branch(ok, left, m, t, p) ==
            IF ok THEN {[left |-> left, melds |-> w.melds + m, taatsu |-> w.taatsu + t, pair |-> p]} ELSE {}
    IN  branch(c[i] >= 3, Less(c, i, 3), 1, 0, w.pair)
        \cup branch(Suited(6) /\ c[i + 1] > 0 /\ c[i + 2] > 0, LessRun(c, i), 1, 0, w.pair)
        \cup branch(c[i] >= 2 /\ ~w.pair, Less(c, i, 2), 0, 0, TRUE)
        \cup branch(c[i] >= 2, Less(c, i, 2), 0, 1, w.pair)
        \cup branch(Suited(7) /\ c[i + 1] > 0, Without(1), 0, 1, w.pair)
        \cup branch(Suited(6) /\ c[i + 2] > 0, Without(2), 0, 1, w.pair)
        \cup branch(TRUE, Less(c, i, 1), 0, 0, w.pair)

(* A hand partly split into blocks: what is left of it and what was found. *)
PartSplits == [left : [Playable -> Nat], melds : Nat, taatsu : Nat, pair : BOOLEAN]

Walk[states \in SUBSET PartSplits] ==
    LET done == {w \in states : w.left = NoCounts}
    IN  IF states = done THEN states
        ELSE Walk[done \cup UNION {Branches(w) : w \in states \ done}]

(* The distance without the limit of four blocks.                          *)
ShantenUncapped(c) ==
    LET ends == Walk[{[left |-> c, melds |-> 0, taatsu |-> 0, pair |-> FALSE]}]
        best == Min({8 - w.melds * 2 - w.taatsu - (IF w.pair THEN 1 ELSE 0) : w \in ends})
    IN  IF best < -1 THEN -1 ELSE best

standardShanten(c) ==
    LET ends == Walk[{[left |-> c, melds |-> 0, taatsu |-> 0, pair |-> FALSE]}]
        value(w) == 8 - w.melds * 2 - Least(w.taatsu, 4 - w.melds) - (IF w.pair THEN 1 ELSE 0)
        best == Least(8, Min({value(w) : w \in ends}))
    IN  IF best < -1 THEN -1 ELSE best

sevenPairsShanten(c) ==
    LET kinds == Cardinality({i \in Playable : c[i] > 0})
        pairs == Cardinality({i \in Playable : c[i] >= 2})
    IN  7 - pairs + (IF kinds < 7 THEN 7 - kinds ELSE 0) - 1

Shanten(c) ==
    CASE Total(c) = 0 -> 8
      [] Total(c) > 0 /\ Total(c) % 3 = 2 /\ IsWinning(c) -> -1
      [] OTHER -> Least(sevenPairsShanten(c), standardShanten(c))

(* How often a tile occurs in a sequence of tiles, and in a seat's melds.  *)
countTile(tiles, t) == Cardinality({k \in 1..Len(tiles) : tiles[k] = t})

countTileInMelds(melds, t) == Total([k \in 1..Len(melds) |-> countTile(melds[k], t)])

RemainingByPublic(t, self, pub) ==
    LET seen == MapThenSumSet(LAMBDA s : countTile(pub.discards[s], t)
                                         + countTileInMelds(pub.melds[s], t)
                                         + countTile(pub.drawn[s], t), 0..3)
        left == 4 - self[Index(t)] - seen
    IN  IF left < 0 THEN 0 ELSE left

(* The waits of a hand that are still out, with the number of each.        *)
AdvanceTiles(c, pub) ==
    [t \in {u \in TingTiles(c) : RemainingByPublic(u, c, pub) > 0} |-> RemainingByPublic(t, c, pub)]

SafetyScore(t, pub) ==
    LET seatScore(s) ==
            (IF t \in ToSet(pub.discards[s]) THEN 6 ELSE 0)
            + (IF pub.que[s] = Suit(t) THEN 4 ELSE 0)
            - 2 * Len(SelectSeq(pub.melds[s], LAMBDA m : t \in ToSet(m)))
    IN  MapThenSumSet(seatScore, 0..3 \ {pub.self})

suitCount(tiles, s) == Len(SelectSeq(tiles, LAMBDA t : Suit(t) = s))

(* The suit with the fewest tiles; among those the one whose loss leaves   *)
(* the hand nearest to a win, and the first of equals.                     *)
BestQueSuit(tiles) ==
    LET shantenWithout(s) == Shanten(HandCounts(SelectSeq(tiles, LAMBDA t : Suit(t) # s)))
        Before(a, b) == \/ suitCount(tiles, a) < suitCount(tiles, b)
                        \/ /\ suitCount(tiles, a) = suitCount(tiles, b)
                           /\ \/ shantenWithout(a) < shantenWithout(b)
                              \/ shantenWithout(a) = shantenWithout(b) /\ a < b
    IN  CHOOSE s \in SuitedSuits : \A o \in SuitedSuits \ {s} : Before(s, o)

tileWeakness(t) ==
    CASE Rank(t) \in {1, 9} -> 4 [] Rank(t) \in {2, 8} -> 3 [] Rank(t) \in {3, 7} -> 2 [] OTHER -> 1

(* Three tiles of the missing suit, or of the longest suit when there are  *)
(* not three, the outer ranks first.                                       *)
BestExchangeThree(tiles, que) ==
    LET longest == CHOOSE s \in SuitedSuits :
                      \A o \in SuitedSuits \ {s} :
                          \/ suitCount(tiles, s) > suitCount(tiles, o)
                          \/ suitCount(tiles, s) = suitCount(tiles, o) /\ s < o
        target == IF suitCount(tiles, que) < 3 THEN longest ELSE que
        weakest == SortSeq(SelectSeq(tiles, LAMBDA t : Suit(t) = target),
                           LAMBDA a, b : tileWeakness(a) > tileWeakness(b))
    IN  IF Len(tiles) <= 3 THEN tiles ELSE SubSeq(weakest, 1, Least(3, Len(weakest)))

DiscardOption(tiles, t, que, pub) ==
    LET k == CHOOSE j \in 1..Len(tiles) : tiles[j] = t
        rest == HandCounts(RemoveAt(tiles, k))
        advance == AdvanceTiles(rest, pub)
    IN  [tile |-> t, shanten |-> Shanten(rest), kinds |-> Cardinality(DOMAIN advance),
         left |-> MapThenSumSet(LAMBDA u : advance[u], DOMAIN advance),
         safety |-> SafetyScore(t, pub), que |-> Suit(t) = que]

(* The first of these criteria on which two options differ decides.        *)
betterDiscard(a, b) ==
    CASE a.que # b.que -> a.que
      [] a.que = b.que /\ a.shanten # b.shanten -> a.shanten < b.shanten
      [] OTHER ->
           LET key(o) == << -o.kinds, -o.left, -o.safety, Suit(o.tile), Rank(o.tile) >>
               differ == {k \in 1..5 : key(a)[k] # key(b)[k]}
           IN  differ # {} /\ key(a)[Min(differ)] < key(b)[Min(differ)]

DiscardOptions(tiles, que, pub) == {DiscardOption(tiles, t, que, pub) : t \in ToSet(tiles)}

BestDiscard(tiles, que, pub) ==
    LET options == DiscardOptions(tiles, que, pub)
    IN  CHOOSE o \in options : \A other \in options \ {o} : betterDiscard(o, other)
=============================================================================
