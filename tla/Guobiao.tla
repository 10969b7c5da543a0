------------------------------- MODULE Guobiao -------------------------------
(***************************************************************************)
(* The competition rules of Chinese mahjong (internal/mahjong/guobiao/     *)
(* jingji): legal wins, the readings of a hand, the fans it shows, which   *)
(* of them exclude which, and the score.                                   *)
(*                                                                         *)
(* A scored win is a record: win and closed are counts, melds the exposed  *)
(* melds, readings the decompositions, sc the ScoreContext.  A meld is     *)
(* [kind, suit, rank, concealed] with kind chow, pung or kong.             *)
(***************************************************************************)
EXTENDS TableRules, SequencesExt

Num(b) == IF b THEN 1 ELSE 0

CountIf(S, P(_)) == Cardinality({x \in S : P(x)})

rankOfIndex(i) == (i % 9) + 1

Suited(i) == i < SuitedTileCount

isSuitedTerminal(i) == Suited(i) /\ rankOfIndex(i) \in {1, 9}

Winds == 27..30

Dragons == 31..33

Honors == Winds \cup Dragons

Held(c) == {i \in Playable : c[i] > 0}

presentSuits(c) == {s \in SuitedSuits : \E r \in 0..8 : c[s * 9 + r] > 0}

hasHonors(c) == Held(c) \cap Honors # {}

(* allTilesIn, allTilesMatch: some tile is held and all held ones are ok.  *)
AllIn(c, allowed) == Held(c) # {} /\ Held(c) \subseteq allowed

----------------------------------------------------------------------------
(* Shapes that are wins of their own.                                      *)
Orphans == {0, 8, 9, 17, 18, 26} \cup Honors

thirteenOrphans(c) ==
    /\ Orphans \subseteq Held(c) /\ Held(c) \subseteq Orphans
    /\ \E i \in Orphans : c[i] >= 2

knittedPatterns ==
    {{0, 3, 6, 10, 13, 16, 20, 23, 26}, {0, 3, 6, 11, 14, 17, 19, 22, 25},
     {1, 4, 7, 9, 12, 15, 20, 23, 26}, {1, 4, 7, 11, 14, 17, 18, 21, 24},
     {2, 5, 8, 9, 12, 15, 19, 22, 25}, {2, 5, 8, 10, 13, 16, 18, 21, 24}}

knittedPatternCount(c) == Max({Cardinality(p \cap Held(c)) : p \in knittedPatterns})

noPairsOrTriples(c) == \A i \in Playable : c[i] <= 1

greaterHonorsAndKnitted(c) ==
    Total(c) = 14 /\ noPairsOrTriples(c) /\ Honors \subseteq Held(c) /\ knittedPatternCount(c) >= 7

lesserHonorsAndKnitted(c) ==
    /\ Total(c) = 14 /\ noPairsOrTriples(c)
    /\ knittedPatternCount(c) + Cardinality(Held(c) \cap Honors) = 14
    /\ ~greaterHonorsAndKnitted(c)

knittedStraight(c) == \E p \in knittedPatterns : p \subseteq Held(c)

isMCRLegalWin(c, open) ==
    \/ IsWinningWithOpenMelds(c, open)
    \/ open = 0 /\ (thirteenOrphans(c) \/ greaterHonorsAndKnitted(c) \/ lesserHonorsAndKnitted(c))

(* CheckHu for a hand that already counts the winning tile.                *)
CheckHu(c, melds) ==
    [ok  |-> isMCRLegalWin(c, Len(melds)),
     win |-> [i \in Playable |-> c[i] + Total([k \in 1..Len(melds) |-> HandCounts(melds[k].tiles)[i]])]]

----------------------------------------------------------------------------
(* Readings.                                                               *)
Meld(kind, i, concealed) ==
    [kind |-> kind, suit |-> Suit(FromIndex(i)), rank |-> Rank(FromIndex(i)), concealed |-> concealed]

mcrMeldFromContext(m) ==
    LET kind == IF m.tiles[1] # m.tiles[2] THEN "chow"
                ELSE IF Len(m.tiles) >= 4 \/ m.kind \in {"an_gang", "bu_gang", "ming_gang", "gang"}
                     THEN "kong" ELSE "pung"
        ranks == {Rank(m.tiles[k]) : k \in 1..Len(m.tiles)}
    IN  [kind |-> kind, suit |-> Suit(m.tiles[1]), rank |-> Min(ranks), concealed |-> m.concealed]

(* The melds with the lowest tile of c, each before every way to read the  *)
(* rest.                                                                   *)
LowestFirst(c, readings) ==
    LET i == nextNonZero(c)
        starts == {a \in i - 2..i : a >= 0 /\ a \div 9 = i \div 9 /\ RunStart(a)
                                    /\ \A k \in 0..2 : c[a + k] > 0}
    IN  IF i < 0 THEN {}
        ELSE (IF c[i] < 3 THEN {} ELSE {<<Meld("pung", i, TRUE)>> \o tail : tail \in readings[Less(c, i, 3)]})
             \cup UNION {{<<Meld("chow", a, TRUE)>> \o tail : tail \in readings[LessRun(c, a)]} : a \in starts}

enumerateMelds[need \in 0..4] ==
    [c \in [Playable -> Nat] |->
        IF need > 0 THEN LowestFirst(c, enumerateMelds[need - 1]) ELSE IF Total(c) = 0 THEN {<<>>} ELSE {}]

enumerateMCRDecomps(c, open) ==
    LET need == 4 - Len(open)
    IN  IF need < 0 \/ Total(c) # 2 + need * 3 THEN {}
        ELSE UNION {{[pair |-> p, melds |-> open \o rest] : rest \in enumerateMelds[need][Less(c, p, 2)]}
                       : p \in {i \in Playable : c[i] >= 2}}

newMCRContext(result, c, melds, sc) ==
    LET open == [k \in 1..Len(melds) |-> mcrMeldFromContext(melds[k])]
    IN  [win |-> result.win, closed |-> c, melds |-> open,
         readings |-> enumerateMCRDecomps(c, open), sc |-> sc]

----------------------------------------------------------------------------
(* Fans of the tiles alone.                                                *)
allGreen(c) == AllIn(c, {19, 20, 21, 23, 25, 32})

reversibleTiles(c) == AllIn(c, {10, 11, 12, 14, 16, 17, 18, 20, 22, 23, 24, 26, 33})

nineGates(c) ==
    /\ Cardinality(presentSuits(c)) = 1 /\ ~hasHonors(c)
    /\ LET base == 9 * CHOOSE s \in presentSuits(c) : TRUE
           need(r) == IF r \in {0, 8} THEN 3 ELSE 1
       IN  /\ \A r \in 0..8 : c[base + r] >= need(r)
           /\ \E r \in 0..8 : c[base + r] > need(r)

sevenShiftedPairs(c) ==
    /\ SevenPairs(c) /\ ~hasHonors(c)
    /\ \E s \in SuitedSuits, a \in 0..2 : \A r \in 0..6 : c[s * 9 + a + r] = 2

allRanksInRange(c, lo, hi) == AllIn(c, {i \in 0..26 : rankOfIndex(i) \in lo..hi})

fullFlushCounts(c) == Cardinality(presentSuits(c)) = 1 /\ ~hasHonors(c)

halfFlushCounts(c) == Cardinality(presentSuits(c)) = 1 /\ hasHonors(c)

allTypes(c) ==
    presentSuits(c) = SuitedSuits /\ Held(c) \cap Winds # {} /\ Held(c) \cap Dragons # {}

tileHog(c) == CountIf(Playable, LAMBDA i : c[i] = 4)

----------------------------------------------------------------------------
(* Fans of some reading: melds of a reading d are d.melds.                 *)
Parts(d) == ToSet(d.melds)

IsPung(m) == m.kind \in {"pung", "kong"}

IsChow(m) == m.kind = "chow"

SuitedMeld(m) == m.suit \in SuitedSuits

hasChow(d, s, r) == \E m \in Parts(d) : IsChow(m) /\ m.suit = s /\ m.rank = r

hasPung(d, s, r) == \E m \in Parts(d) : IsPung(m) /\ m.suit = s /\ m.rank = r

(* The most of something any reading shows.                                *)
MostOf(x, N(_)) == Max({0} \cup {N(d) : d \in x.readings})

MeldCount(d, P(_)) == CountIf(1..Len(d.melds), LAMBDA k : P(d.melds[k]))

pureTerminalChows(x) ==
    \E d \in x.readings :
        /\ Suited(d.pair) /\ d.pair % 9 = 4
        /\ \A m \in Parts(d) : IsChow(m) /\ m.suit = d.melds[1].suit
        /\ \A r \in {1, 7} : MeldCount(d, LAMBDA m : m.rank = r) = 2

allEvenPungs(x) ==
    \E d \in x.readings :
        /\ Suited(d.pair) /\ rankOfIndex(d.pair) % 2 = 0
        /\ \A m \in Parts(d) : IsPung(m) /\ SuitedMeld(m) /\ m.rank % 2 = 0

allFives(x) ==
    \E d \in x.readings :
        /\ Suited(d.pair) /\ rankOfIndex(d.pair) = 5
        /\ \A m \in Parts(d) : SuitedMeld(m) /\ m.rank \in (IF IsChow(m) THEN 3..5 ELSE {5})

allPungsMCR(x) == \E d \in x.readings : \A m \in Parts(d) : IsPung(m)

allChows(x) == \E d \in x.readings : Suited(d.pair) /\ \A m \in Parts(d) : IsChow(m)

outsideHand(x) ==
    \E d \in x.readings :
        /\ ~Suited(d.pair) \/ isSuitedTerminal(d.pair)
        /\ \A m \in Parts(d) : ~SuitedMeld(m) \/ m.rank \in (IF IsChow(m) THEN {1, 7} ELSE {1, 9})

edgeWait(x) ==
    LET t == x.sc.tile
    IN  IsSuited(t) /\ \E d \in x.readings, a \in {1, 7} :
            hasChow(d, Suit(t), a) /\ Rank(t) = (IF a = 1 THEN 3 ELSE 7)

closedWait(x) ==
    IsSuited(x.sc.tile) /\ \E d \in x.readings : hasChow(d, Suit(x.sc.tile), Rank(x.sc.tile) - 1)

singleWait(x) == \E d \in x.readings : d.pair = Index(x.sc.tile)

countAsPung(x, i) ==
    \/ x.win[i] >= 3
    \/ \E k \in 1..Len(x.melds) :
          IsPung(x.melds[k]) /\ New(x.melds[k].suit, x.melds[k].rank) = FromIndex(i)

countHonorPungsInRange(x, honors) == CountIf(honors, LAMBDA i : countAsPung(x, i))

(* A pair of the range; the pungs themselves hold one.                     *)
hasPairInRange(x, honors) == \E i \in honors : x.win[i] >= 2

(* Kongs among the melds and, once more, among the winner's gang records.  *)
Records(x, kinds) == Cardinality({k \in 1..Len(x.sc.gangs) :
                                     x.sc.gangs[k].seat = x.sc.seat /\ x.sc.gangs[k].kind \in kinds})

countKongs(x) ==
    CountIf(1..Len(x.melds), LAMBDA k : x.melds[k].kind = "kong") + Records(x, {"ming", "bu", "an"})

countConcealedKongs(x) ==
    CountIf(1..Len(x.melds), LAMBDA k : x.melds[k].kind = "kong" /\ x.melds[k].concealed)
    + Records(x, {"an"})

countMeldedKongs(x) == Max({0, countKongs(x) - countConcealedKongs(x)})

countConcealedPungs(x) == MostOf(x, LAMBDA d : MeldCount(d, LAMBDA m : IsPung(m) /\ m.concealed))

hasShiftedRanks(ranks, need) == \E a \in 1..9 : a..a + need - 1 \subseteq ranks

pureShiftedPungs(x, need) ==
    \E d \in x.readings, s \in SuitedSuits :
        hasShiftedRanks({m.rank : m \in {n \in Parts(d) : IsPung(n) /\ n.suit = s}}, need)

pureShiftedChows(x, need) ==
    \E d \in x.readings, s \in SuitedSuits :
        hasShiftedRanks({m.rank : m \in {n \in Parts(d) : IsChow(n) /\ n.suit = s}}, need)

(* How many chows of a reading fall on each key: suit and rank, or rank.   *)
ChowsOn(d, key(_), v) == MeldCount(d, LAMBDA m : IsChow(m) /\ key(m) = v)

maxIdenticalChows(x) ==
    MostOf(x, LAMBDA d : Max({0} \cup {ChowsOn(d, LAMBDA m : <<m.suit, m.rank>>, <<s, r>>)
                                          : s \in SuitedSuits, r \in 1..7}))

pureStraight(x) == \E d \in x.readings, s \in SuitedSuits : \A r \in {1, 4, 7} : hasChow(d, s, r)

mixedStraight(x) ==
    \E d \in x.readings, a, b, e \in SuitedSuits :
        Cardinality({a, b, e}) = 3 /\ hasChow(d, a, 1) /\ hasChow(d, b, 4) /\ hasChow(d, e, 7)

threeSuitedTerminalChows(x) ==
    \E d \in x.readings, a, b, e \in SuitedSuits :
        /\ Cardinality({a, b, e}) = 3
        /\ hasChow(d, a, 1) /\ hasChow(d, b, 7) /\ hasChow(d, e, 1) /\ hasChow(d, e, 7)

(* The pungs of the three suits may come from different readings.          *)
nSuitSameRankPung(x) ==
    \E r \in 1..9 : \A s \in SuitedSuits : \E d \in x.readings : hasPung(d, s, r)

nSuitSameRankChow(x) == \E d \in x.readings, r \in 1..7 : \A s \in SuitedSuits : hasChow(d, s, r)

(* Ranks rise with the suits in the one order characters, dots, bamboo.    *)
mixedShifted(x, chow) ==
    \E d \in x.readings, a \in 1..7 : \A s \in SuitedSuits :
        IF chow THEN hasChow(d, s, a + s) ELSE hasPung(d, s, a + s)

pureDoubleChow(x) ==
    MostOf(x, LAMBDA d : MapThenSumSet(LAMBDA v : ChowsOn(d, LAMBDA m : <<m.suit, m.rank>>, v) \div 2,
                                       SuitedSuits \X (1..7)))

mixedDoubleChow(x) ==
    MostOf(x, LAMBDA d : MapThenSumSet(LAMBDA r : ChowsOn(d, LAMBDA m : m.rank, r) \div 2, 1..7))

countChowCombos(x, combos) ==
    MostOf(x, LAMBDA d : CountIf(SuitedSuits \X combos,
                                 LAMBDA v : hasChow(d, v[1], v[2][1]) /\ hasChow(d, v[1], v[2][2])))

terminalOrHonorPungs(x) ==
    CountIf({i \in Playable : ~Suited(i) \/ isSuitedTerminal(i)},
            LAMBDA i : \E d \in x.readings : hasPung(d, Suit(FromIndex(i)), Rank(FromIndex(i))))

doublePung(x) ==
    MapThenSumSet(LAMBDA r : CountIf(SuitedSuits, LAMBDA s : \E d \in x.readings : hasPung(d, s, r)) \div 2,
                  1..9)

----------------------------------------------------------------------------
(* mcrFanRegistry, and detectMCRFans: how often each fan is awarded.       *)
Points ==
    [big_four_winds |-> 88, big_three_dragons |-> 88, all_green |-> 88, nine_gates |-> 88,
     four_kongs |-> 88, seven_shifted_pairs |-> 88, thirteen_orphans |-> 88, all_terminals |-> 64,
     little_four_winds |-> 64, little_three_dragons |-> 64, all_honors |-> 64, four_concealed_pungs |-> 64,
     pure_terminal_chows |-> 64, quadruple_chow |-> 48, four_pure_shifted_pungs |-> 48,
     four_pure_shifted_chows |-> 32, three_kongs |-> 32, all_terminals_and_honors |-> 32, seven_pairs |-> 24,
     greater_honors_and_knitted_tiles |-> 24, all_even_pungs |-> 24, full_flush |-> 24,
     pure_triple_chow |-> 24, pure_shifted_pungs |-> 24, upper_tiles |-> 24, middle_tiles |-> 24,
     lower_tiles |-> 24, pure_straight |-> 16, three_suited_terminal_chows |-> 16,
     pure_shifted_chows |-> 16, all_fives |-> 16, triple_pung |-> 16, three_concealed_pungs |-> 16,
     lesser_honors_and_knitted_tiles |-> 12, knitted_straight |-> 12, upper_four |-> 12, lower_four |-> 12,
     big_three_winds |-> 12, mixed_straight |-> 8, reversible_tiles |-> 8, mixed_triple_chow |-> 8,
     mixed_shifted_pungs |-> 8, chicken_hand |-> 8, last_tile_draw |-> 8, last_tile_claim |-> 8,
     out_with_replacement_tile |-> 8, robbing_the_kong |-> 8, all_pungs |-> 6, half_flush |-> 6,
     mixed_shifted_chows |-> 6, all_types |-> 6, melded_hand |-> 6, two_concealed_kongs |-> 6,
     two_dragon_pungs |-> 6, outside_hand |-> 4, fully_concealed_hand |-> 4, two_melded_kongs |-> 4,
     last_tile |-> 4, dragon_pung |-> 2, prevalent_wind |-> 2, seat_wind |-> 2, concealed_hand |-> 2,
     all_chows |-> 2, tile_hog |-> 2, double_pung |-> 2, two_concealed_pungs |-> 2, concealed_kong |-> 2,
     all_simples |-> 2, pure_double_chow |-> 1, mixed_double_chow |-> 1, short_straight |-> 1,
     two_terminal_chows |-> 1, pung_of_terminals_or_honors |-> 1, melded_kong |-> 1,
     one_voided_suit |-> 1, no_honors |-> 1, edge_wait |-> 1, closed_wait |-> 1, single_wait |-> 1,
     self_drawn |-> 1, flower_tile |-> 1]

FanIds == DOMAIN Points

(* The fans a hand shows or not, and the ones it may show more than once.  *)
shownFans(x) ==
    LET c == x.win
        winds == countHonorPungsInRange(x, Winds)
        dragons == countHonorPungsInRange(x, Dragons)
    IN  [big_four_winds |-> winds = 4,
         big_three_dragons |-> dragons = 3,
         all_green |-> allGreen(c),
         nine_gates |-> nineGates(c),
         four_kongs |-> countKongs(x) >= 4,
         seven_shifted_pairs |-> sevenShiftedPairs(c),
         thirteen_orphans |-> thirteenOrphans(c),
         all_terminals |-> AllIn(c, {i \in Playable : isSuitedTerminal(i)}),
         little_four_winds |-> winds = 3 /\ hasPairInRange(x, Winds),
         little_three_dragons |-> dragons = 2 /\ hasPairInRange(x, Dragons),
         all_honors |-> AllIn(c, Honors),
         four_concealed_pungs |-> countConcealedPungs(x) >= 4,
         pure_terminal_chows |-> pureTerminalChows(x),
         quadruple_chow |-> maxIdenticalChows(x) >= 4,
         four_pure_shifted_pungs |-> pureShiftedPungs(x, 4),
         four_pure_shifted_chows |-> pureShiftedChows(x, 4),
         three_kongs |-> countKongs(x) >= 3,
         all_terminals_and_honors |-> AllIn(c, Honors \cup {i \in Playable : isSuitedTerminal(i)}),
         seven_pairs |-> SevenPairs(c),
         greater_honors_and_knitted_tiles |-> greaterHonorsAndKnitted(c),
         all_even_pungs |-> allEvenPungs(x),
         full_flush |-> fullFlushCounts(c),
         pure_triple_chow |-> maxIdenticalChows(x) >= 3,
         pure_shifted_pungs |-> pureShiftedPungs(x, 3),
         upper_tiles |-> allRanksInRange(c, 7, 9),
         middle_tiles |-> allRanksInRange(c, 4, 6),
         lower_tiles |-> allRanksInRange(c, 1, 3),
         pure_straight |-> pureStraight(x),
         three_suited_terminal_chows |-> threeSuitedTerminalChows(x),
         pure_shifted_chows |-> pureShiftedChows(x, 3),
         all_fives |-> allFives(x),
         triple_pung |-> nSuitSameRankPung(x),
         three_concealed_pungs |-> countConcealedPungs(x) >= 3,
         lesser_honors_and_knitted_tiles |-> lesserHonorsAndKnitted(c),
         knitted_straight |-> knittedStraight(c),
         upper_four |-> allRanksInRange(c, 6, 9),
         lower_four |-> allRanksInRange(c, 1, 4),
         big_three_winds |-> winds >= 3,
         mixed_straight |-> mixedStraight(x),
         reversible_tiles |-> reversibleTiles(c),
         mixed_triple_chow |-> nSuitSameRankChow(x),
         mixed_shifted_pungs |-> mixedShifted(x, FALSE),
         chicken_hand |-> FALSE,
         last_tile_draw |-> x.sc.haiDi /\ x.sc.tsumo,
         last_tile_claim |-> x.sc.haiDi /\ ~x.sc.tsumo,
         out_with_replacement_tile |-> x.sc.gangShangHua,
         robbing_the_kong |-> x.sc.gangShangPao,
         all_pungs |-> allPungsMCR(x),
         half_flush |-> halfFlushCounts(c),
         mixed_shifted_chows |-> mixedShifted(x, TRUE),
         all_types |-> allTypes(c),
         melded_hand |-> Len(x.melds) >= 4 /\ ~x.sc.tsumo,
         two_dragon_pungs |-> dragons >= 2,
         outside_hand |-> outsideHand(x),
         fully_concealed_hand |-> x.melds = <<>> /\ x.sc.tsumo,
         last_tile |-> x.sc.wall = 0 /\ x.sc.step > 0,
         prevalent_wind |-> countAsPung(x, 27),
         seat_wind |-> countAsPung(x, 27 + x.sc.seat),
         concealed_hand |-> x.melds = <<>> /\ ~x.sc.tsumo,
         all_chows |-> allChows(x),
         all_simples |-> allRanksInRange(c, 2, 8),
         one_voided_suit |-> Cardinality(presentSuits(c)) = 2,
         no_honors |-> ~hasHonors(c),
         edge_wait |-> edgeWait(x),
         closed_wait |-> closedWait(x),
         single_wait |-> singleWait(x),
         self_drawn |-> x.sc.tsumo]

countedFans(x) ==
    [two_concealed_kongs |-> countConcealedKongs(x) \div 2,
     two_melded_kongs |-> countMeldedKongs(x) \div 2,
     dragon_pung |-> countHonorPungsInRange(x, Dragons),
     tile_hog |-> tileHog(x.win),
     double_pung |-> doublePung(x),
     two_concealed_pungs |-> countConcealedPungs(x) \div 2,
     concealed_kong |-> countConcealedKongs(x),
     pure_double_chow |-> pureDoubleChow(x),
     mixed_double_chow |-> mixedDoubleChow(x),
     short_straight |-> countChowCombos(x, {<<1, 4>>, <<4, 7>>}),
     two_terminal_chows |-> countChowCombos(x, {<<1, 7>>}),
     pung_of_terminals_or_honors |-> terminalOrHonorPungs(x),
     melded_kong |-> countMeldedKongs(x),
     flower_tile |-> x.sc.flowers]

detectMCRFans(x) ==
    LET has == shownFans(x)
        number == countedFans(x)
    IN  [f \in FanIds |-> IF f \in DOMAIN has THEN Num(has[f]) ELSE number[f]]

----------------------------------------------------------------------------
(* mcrSuppressionRules: the fans each fan excludes.                        *)
Excluded ==
    [big_four_winds |-> {"big_three_winds", "seat_wind", "prevalent_wind",
                         "pung_of_terminals_or_honors", "all_pungs"},
     little_four_winds |-> {"big_three_winds", "seat_wind", "prevalent_wind", "pung_of_terminals_or_honors"},
     big_three_dragons |-> {"two_dragon_pungs", "dragon_pung", "pung_of_terminals_or_honors",
                            "three_concealed_pungs", "two_concealed_pungs"},
     little_three_dragons |-> {"two_dragon_pungs", "dragon_pung", "pung_of_terminals_or_honors"},
     all_honors |-> {"all_terminals_and_honors", "pung_of_terminals_or_honors", "outside_hand"},
     all_terminals |-> {"pung_of_terminals_or_honors", "outside_hand", "all_pungs", "no_honors"},
     all_terminals_and_honors |-> {"pung_of_terminals_or_honors", "outside_hand"},
     nine_gates |-> {"full_flush", "one_voided_suit", "no_honors", "concealed_hand", "tile_hog",
                     "two_concealed_pungs", "pung_of_terminals_or_honors"},
     full_flush |-> {"half_flush", "one_voided_suit", "no_honors"},
     half_flush |-> {"one_voided_suit"},
     all_pungs |-> {"pung_of_terminals_or_honors"},
     seven_shifted_pairs |-> {"seven_pairs", "full_flush", "one_voided_suit", "no_honors", "all_chows",
                              "pure_double_chow", "mixed_double_chow", "short_straight",
                              "concealed_hand", "single_wait"},
     thirteen_orphans |-> {"all_types", "outside_hand", "pung_of_terminals_or_honors"},
     greater_honors_and_knitted_tiles |-> {"lesser_honors_and_knitted_tiles", "all_types"},
     pure_terminal_chows |-> {"pure_double_chow", "two_terminal_chows", "no_honors", "one_voided_suit"},
     pure_straight |-> {"short_straight"},
     mixed_straight |-> {"short_straight"},
     four_concealed_pungs |-> {"three_concealed_pungs", "two_concealed_pungs"},
     quadruple_chow |-> {"seven_pairs", "pure_triple_chow", "pure_shifted_pungs", "three_concealed_pungs",
                         "two_concealed_pungs", "pure_double_chow", "mixed_double_chow", "tile_hog",
                         "pung_of_terminals_or_honors"},
     pure_triple_chow |-> {"pure_double_chow"},
     four_pure_shifted_chows |-> {"pure_shifted_chows", "short_straight"},
     four_pure_shifted_pungs |-> {"pure_shifted_pungs"},
     all_simples |-> {"no_honors"},
     all_chows |-> {"no_honors"},
     fully_concealed_hand |-> {"concealed_hand", "self_drawn"}]

(* Fans excluded by fans the hand does not show.                           *)
SuppressAlways(awards) ==
    [f \in FanIds |-> IF f \in UNION {Excluded[g] : g \in DOMAIN Excluded} THEN 0 ELSE awards[f]]

(* suppressMCRFans: every fan present excludes, excluded or not itself.    *)
suppressMCRFans(awards) ==
    LET out == UNION {Excluded[f] : f \in {g \in DOMAIN Excluded : awards[g] > 0}}
    IN  [f \in FanIds |-> IF f \in out THEN 0 ELSE awards[f]]

Sum(awards) == MapThenSumSet(LAMBDA f : awards[f] * Points[f], {f \in FanIds : awards[f] > 0})

(* A hand without any fan is a chicken hand.                               *)
OrChicken(x, total) ==
    IF total = 0 /\ (Total(x.win) = 14 \/ x.melds # <<>>) THEN Points.chicken_hand ELSE total

(* scoreMCR: under eight points a hand does not count, and 0 is its score. *)
AtLeastEight(points) == IF points < 8 THEN 0 ELSE points
scoreMCR(x) == AtLeastEight(OrChicken(x, Sum(suppressMCRFans(detectMCRFans(x)))))

----------------------------------------------------------------------------
(* What a win costs whom.                                                  *)
scoreEvent(reason, from, to, amount) ==
    [reason |-> reason, from |-> from, to |-> to, amount |-> amount, winner |-> to, fan |-> amount]

(* ScoreWin: a win that does not count is refused; a drawn one is paid by  *)
(* every other seat still in play, in the order of the seats, a claimed    *)
(* one by the seat it was claimed from.                                    *)
PaidBy(payers, sc, amount) ==
    IF amount = 0 THEN [ok |-> FALSE, fan |-> 0, events |-> << >>]
    ELSE [ok |-> TRUE, fan |-> amount,
          events |-> LET order == SetToSortSeq(payers, <)
                     IN  [k \in 1..Len(order) |->
                             scoreEvent(IF sc.tsumo THEN "hu_tsumo" ELSE "hu_discard", order[k], sc.seat, amount)]]
mcrScoreWin(x, active, responsible) ==
    PaidBy(IF x.sc.tsumo THEN active \ {x.sc.seat} ELSE {responsible} \ {x.sc.seat, SeatInvalid},
           x.sc, scoreMCR(x))

(* defaultSeatScores *)
defaultSeatScores(scoreEvents) ==
    [s \in 0..3 |->
        MapThenSumSet(LAMBDA k : CASE scoreEvents[k].to = s -> scoreEvents[k].amount
                                   [] scoreEvents[k].from = s -> 0 - scoreEvents[k].amount
                                   [] OTHER -> 0,
                      1..Len(scoreEvents))]

(* winnerBreakdowns: of a winner's events the highest fan, said once.      *)
winnerBreakdowns(scoreEvents, winners) ==
    [s \in {w \in winners : \E k \in 1..Len(scoreEvents) : scoreEvents[k].winner = w} |->
        Max({scoreEvents[k].fan : k \in {j \in 1..Len(scoreEvents) : scoreEvents[j].winner = s}})]

(* BuildSettlement *)
mcrBuildSettlement(scoreEvents, winners) ==
    [SeatScores |-> defaultSeatScores(scoreEvents),
     PerWinnerBreakdown |-> winnerBreakdowns(scoreEvents, winners)]
=============================================================================
