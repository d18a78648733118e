----------------------------- MODULE PoolProofs -----------------------------
(***************************************************************************)
(* Safety of a pool, for every tick range, every set of owners and         *)
(* orders, and every width of the words: TradeMatcher and the ledger of    *)
(* rewards on top of it. Each part states an invariant that the next one   *)
(* builds on.                                                              *)
(*                                                                         *)
(* The book: BookInv adds to the properties what they need of each         *)
(* other. A flagged word stays even underneath, a pivot's range is on      *)
(* the book, no odometer is ahead of the counter (or the flip would        *)
(* leave its word), and the depth is flat between two levels in use (or    *)
(* a leg of a swap would change what is active without crossing            *)
(* anything).                                                              *)
(*                                                                         *)
(* The fee clock: below every level in use the counter moves by the        *)
(* growth booked below it, so that between two of them it moves by the     *)
(* growth booked in range, the turn of the word aside.                     *)
(*                                                                         *)
(* The tranches of a knockout pivot are knocked out in the order of        *)
(* their times, a resting one is younger than every one knocked out, and   *)
(* no bid is left resting above the price. confirmPivotDead relies on      *)
(* the first two, the settlement of a bid on the third. TrancheInv adds    *)
(* what the step of freshenMerkle needs: the history is sorted and none    *)
(* of it lies in the future, so a new tranche whose time differs from      *)
(* the last one's is later than all of them.                               *)
(*                                                                         *)
(* The positions: StakeInv adds them up. The lots of a pivot, the two      *)
(* sides of a level and the depth over a tick are sums of positions over   *)
(* different sets of keys; each step moves one position, so it moves       *)
(* each sum by its lots or not at all, and a knockout takes a whole        *)
(* tranche out of each of them. From it follow that a crossing never       *)
(* reverts and that the pool implements the liquidity profile.             *)
(*                                                                         *)
(* The rewards: LedgerInv holds the ledger of RewardLedger against the     *)
(* readings of the fee clock: what is owed to a position covers its lots   *)
(* times what its clock has moved since its mileage. A position that       *)
(* holds lots keeps both its boundaries in use, so the clock moves by no   *)
(* more than what the ledger accrues; a tranche that is gone is held to    *)
(* what its pivot filed.                                                   *)
(***************************************************************************)
EXTENDS RewardLedger, SumLemmas

-----------------------------------------------------------------------------
(***************************************************************************)
(* The book.  What the operators of LiquidityMath, LevelBook and           *)
(* KnockoutLiq do to one level of the book, tick by tick.                  *)
(***************************************************************************)

Books == [Ticks -> Levels]

\* The lots that an order [lower, upper) puts on the two sides of level t.
BidLots(lower, t, lots) == IF t = lower THEN lots ELSE 0
AskLots(upper, t, lots) == IF t = upper THEN lots ELSE 0

-----------------------------------------------------------------------------
\* Even quantities come and go under the knockout flag without touching it.
LEMMA LotsParity ==
    ASSUME NEW word \in Nat, NEW lots \in Nat, lots % 2 = 0
    PROVE  /\ LotsToLiquidity(word + lots) = LotsToLiquidity(word) + lots
           /\ HasKnockoutLiq(word + lots) <=> HasKnockoutLiq(word)
           /\ word >= lots =>
                 /\ LotsToLiquidity(word - lots) = LotsToLiquidity(word) - lots
                 /\ HasKnockoutLiq(word - lots) <=> HasKnockoutLiq(word)
BY DEF LotsToLiquidity, HasKnockoutLiq

\* The flag fits in the word, can be set and cleared, and holds no lots.
LEMMA FlagWord ==
    ASSUME NEW word \in LotWords
    PROVE  /\ LotsToLiquidity(word) \in LotWords
           /\ LotsToLiquidity(word) + 1 \in LotWords
           /\ HasKnockoutLiq(LotsToLiquidity(word) + 1)
           /\ ~HasKnockoutLiq(LotsToLiquidity(word))
           /\ LotsToLiquidity(LotsToLiquidity(word) + 1) = LotsToLiquidity(word)
           /\ LotsToLiquidity(LotsToLiquidity(word)) = LotsToLiquidity(word)
BY LotLimitAssumption DEF LotsToLiquidity, HasKnockoutLiq, LotWords

\* A circular difference is a mileage word.
LEMMA WordDifference ==
    ASSUME NEW a \in Int, NEW b \in Int
    PROVE  (a - b) % FeeWord \in FeeWords
BY FeeWordAssumption DEF FeeWords

\* A blended mileage is not negative.
LEMMA BlendNat ==
    ASSUME NEW x \in Nat, NEW lx \in Nat, NEW y \in Nat, NEW ly \in Nat
    PROVE  BlendMileage(x, lx, y, ly) \in Nat
<1>1. ASSUME NEW m \in Nat, NEW w \in Nat, NEW d \in Nat \ {0}
      PROVE  CalcBlend(m, w, d) \in Nat
  <2>1. m * w \in Nat
    OBVIOUS
  <2>2. ASSUME NEW p \in Nat PROVE p \div d \in Nat
    OBVIOUS
  <2> QED BY <2>1, <2>2 DEF CalcBlend
<1>2. CASE ly = 0 \/ lx = 0 \/ x = y
  BY <1>2 DEF BlendMileage
<1>3. CASE ly # 0 /\ lx # 0 /\ x # y
  <2>1. lx + ly \in Nat \ {0}
    BY <1>3
  <2>2. CalcBlend(x, lx, lx + ly) \in Nat /\ CalcBlend(y, ly, lx + ly) \in Nat
    BY <2>1, <1>1
  <2> QED BY <2>2, <1>3 DEF BlendMileage
<1> QED BY <1>2, <1>3

-----------------------------------------------------------------------------
\* Setting a level up touches its odometer only.
LEMMA InitLevelPoint ==
    ASSUME NEW lvls \in Books, NEW mid \in Int, NEW fee \in FeeWords, NEW s \in Ticks
    PROVE  /\ InitLevel(lvls, mid, s, fee) \in Books
           /\ \A t \in Ticks :
                 LET new == InitLevel(lvls, mid, s, fee)[t] IN
                 /\ new.bid = lvls[t].bid
                 /\ new.ask = lvls[t].ask
                 /\ new.odo \in {lvls[t].odo, fee}
BY DEF InitLevel, Books, Levels

\* addBookLiq, level by level: the lots go on a bid and an ask, and an odometer
\* stays or is set to the counter.
LEMMA AddBookPoint ==
    ASSUME NEW lvls \in Books, NEW mid \in Int, NEW fee \in FeeWords,
           NEW l \in Ticks, NEW u \in Ticks, l < u, NEW lots \in Nat,
           AddBookFits(lvls, l, u, lots)
    PROVE  /\ AddBookLiq(lvls, mid, l, u, lots, fee) \in Books
           /\ \A t \in Ticks :
                 LET new == AddBookLiq(lvls, mid, l, u, lots, fee)[t] IN
                 /\ new.bid = lvls[t].bid + BidLots(l, t, lots)
                 /\ new.ask = lvls[t].ask + AskLots(u, t, lots)
                 /\ new.odo \in {lvls[t].odo, fee}
<1> DEFINE first == InitLevel(lvls, mid, l, fee)
           opened == InitLevel(first, mid, u, fee)
<1>0. l # u
  BY TickAssumption DEF Ticks
<1>1. /\ first \in Books
      /\ \A t \in Ticks : /\ first[t].bid = lvls[t].bid
                          /\ first[t].ask = lvls[t].ask
                          /\ first[t].odo \in {lvls[t].odo, fee}
  BY InitLevelPoint
<1>2. /\ opened \in Books
      /\ \A t \in Ticks : /\ opened[t].bid = lvls[t].bid
                          /\ opened[t].ask = lvls[t].ask
                          /\ opened[t].odo \in {lvls[t].odo, fee}
  <2>1. /\ opened \in Books
        /\ \A t \in Ticks : /\ opened[t].bid = first[t].bid
                            /\ opened[t].ask = first[t].ask
                            /\ opened[t].odo \in {first[t].odo, fee}
    <3> HIDE DEF first
    <3> QED BY <1>1, InitLevelPoint
  <2> HIDE DEF first, opened
  <2> QED BY <1>1, <2>1
<1> HIDE DEF first, opened
<1>3. lvls[l].bid + lots \in LotWords /\ lvls[u].ask + lots \in LotWords
  BY LotLimitAssumption DEF AddBookFits, AddLotsFits, Books, Levels, LotWords
<1>4. AddBookLiq(lvls, mid, l, u, lots, fee)
        = [opened EXCEPT ![l].bid = @ + lots, ![u].ask = @ + lots]
  BY DEF AddBookLiq, first, opened
<1>5. \A t \in Ticks :
         AddBookLiq(lvls, mid, l, u, lots, fee)[t]
           = [bid |-> lvls[t].bid + BidLots(l, t, lots),
              ask |-> lvls[t].ask + AskLots(u, t, lots),
              odo |-> opened[t].odo]
  BY <1>0, <1>2, <1>4 DEF Books, Levels, BidLots, AskLots, LotWords
<1>6. AddBookLiq(lvls, mid, l, u, lots, fee) \in Books
  <2>1. \A t \in Ticks : /\ lvls[t].bid + BidLots(l, t, lots) \in LotWords
                         /\ lvls[t].ask + AskLots(u, t, lots) \in LotWords
    BY <1>3 DEF Books, Levels, BidLots, AskLots, LotWords
  <2>2. \A t \in Ticks : opened[t].odo \in FeeWords
    BY <1>2 DEF Books, Levels
  <2>3. ASSUME NEW t \in Ticks
        PROVE  AddBookLiq(lvls, mid, l, u, lots, fee)[t] \in Levels
    <3>1. AddBookLiq(lvls, mid, l, u, lots, fee)[t]
            = [bid |-> lvls[t].bid + BidLots(l, t, lots),
               ask |-> lvls[t].ask + AskLots(u, t, lots),
               odo |-> opened[t].odo]
      BY <1>5
    <3> QED BY <3>1, <2>1, <2>2 DEF Levels
  <2> QED BY <1>2, <1>4, <2>3 DEF Books
<1>7. ASSUME NEW t \in Ticks
      PROVE  LET new == AddBookLiq(lvls, mid, l, u, lots, fee)[t] IN
             /\ new.bid = lvls[t].bid + BidLots(l, t, lots)
             /\ new.ask = lvls[t].ask + AskLots(u, t, lots)
             /\ new.odo \in {lvls[t].odo, fee}
  <2>1. AddBookLiq(lvls, mid, l, u, lots, fee)[t]
          = [bid |-> lvls[t].bid + BidLots(l, t, lots),
             ask |-> lvls[t].ask + AskLots(u, t, lots),
             odo |-> opened[t].odo]
    BY <1>5
  <2>2. opened[t].odo \in {lvls[t].odo, fee}
    BY <1>2
  <2> QED BY <2>1, <2>2
<1> QED BY <1>6, <1>7

\* removeBookLiq, level by level: the lots come off a bid and an ask, and the
\* levels that empty are the ones deleted.
LEMMA RemoveBookPoint ==
    ASSUME NEW lvls \in Books, NEW l \in Ticks, NEW u \in Ticks, l < u,
           NEW lots \in Nat, RemoveBookFits(lvls, l, u, lots)
    PROVE  /\ RemoveBookLiq(lvls, l, u, lots) \in Books
           /\ \A t \in Ticks :
                 LET new == RemoveBookLiq(lvls, l, u, lots)[t] IN
                 /\ new.bid = lvls[t].bid - BidLots(l, t, lots)
                 /\ new.ask = lvls[t].ask - AskLots(u, t, lots)
                 /\ new.odo \in {lvls[t].odo, 0}
           /\ EmptiedTicks(lvls, l, u, lots) =
                {t \in {l, u} : ~IsActive(RemoveBookLiq(lvls, l, u, lots)[t])}
<1> DEFINE cut == CutBookLiq(lvls, l, u, lots)
           new == RemoveBookLiq(lvls, l, u, lots)
           emptied == EmptiedTicks(lvls, l, u, lots)
<1>0. l # u
  BY TickAssumption DEF Ticks
<1>1. lvls[l].bid - lots \in LotWords /\ lvls[u].ask - lots \in LotWords
  BY LotLimitAssumption DEF RemoveBookFits, MinusLotsFits, Books, Levels, LotWords
<1>2. \A t \in Ticks :
         cut[t] = [bid |-> lvls[t].bid - BidLots(l, t, lots),
                   ask |-> lvls[t].ask - AskLots(u, t, lots),
                   odo |-> lvls[t].odo]
  BY <1>0 DEF CutBookLiq, Books, Levels, BidLots, AskLots, LotWords
<1>3. ASSUME NEW t \in Ticks PROVE cut[t] \in Levels
  <2>1. /\ lvls[t].bid - BidLots(l, t, lots) \in LotWords
        /\ lvls[t].ask - AskLots(u, t, lots) \in LotWords
        /\ lvls[t].odo \in FeeWords
    BY <1>1 DEF Books, Levels, BidLots, AskLots, LotWords
  <2>2. cut[t] = [bid |-> lvls[t].bid - BidLots(l, t, lots),
                  ask |-> lvls[t].ask - AskLots(u, t, lots),
                  odo |-> lvls[t].odo]
    BY <1>2
  <2> HIDE DEF cut
  <2> QED BY <2>1, <2>2 DEF Levels
<1>4. \A t \in Ticks : t \in emptied <=> t \in {l, u} /\ cut[t].bid = 0 /\ cut[t].ask = 0
  BY DEF EmptiedTicks, IsActive
<1>5. \A t \in Ticks : new[t] = IF t \in emptied THEN NoLevel ELSE cut[t]
  BY DEF RemoveBookLiq
<1>6. NoLevel \in Levels
  BY LotLimitAssumption, FeeWordAssumption DEF NoLevel, Levels, LotWords, FeeWords
<1>7. new \in Books
  BY <1>3, <1>5, <1>6 DEF RemoveBookLiq, Books
<1>8. \A t \in Ticks : /\ new[t].bid = cut[t].bid
                       /\ new[t].ask = cut[t].ask
                       /\ new[t].odo \in {cut[t].odo, 0}
  BY <1>4, <1>5 DEF NoLevel
<1>9. emptied = {t \in {l, u} : ~IsActive(new[t])}
  BY <1>8 DEF EmptiedTicks, IsActive
<1> HIDE DEF cut, new, emptied
<1>10. ASSUME NEW t \in Ticks
       PROVE  /\ new[t].bid = lvls[t].bid - BidLots(l, t, lots)
              /\ new[t].ask = lvls[t].ask - AskLots(u, t, lots)
              /\ new[t].odo \in {lvls[t].odo, 0}
  <2>1. cut[t] = [bid |-> lvls[t].bid - BidLots(l, t, lots),
                  ask |-> lvls[t].ask - AskLots(u, t, lots),
                  odo |-> lvls[t].odo]
    BY <1>2
  <2>2. /\ new[t].bid = cut[t].bid
        /\ new[t].ask = cut[t].ask
        /\ new[t].odo \in {cut[t].odo, 0}
    BY <1>8
  <2> QED BY <2>1, <2>2
<1> QED BY <1>7, <1>9, <1>10 DEF new, emptied

-----------------------------------------------------------------------------
\* A pivot key names one side of one level.
LEMMA KeySides ==
    ASSUME NEW key \in BOOLEAN \X Ticks
    PROVE  /\ key[1] \in BOOLEAN /\ key[2] \in Ticks
           /\ \A t \in Ticks : /\ key = <<TRUE, t>> <=> key[1] /\ t = key[2]
                               /\ key = <<FALSE, t>> <=> ~key[1] /\ t = key[2]
<1>1. PICK b \in BOOLEAN, s \in Ticks : key = <<b, s>>
  OBVIOUS
<1>2. key[1] = b /\ key[2] = s
  BY <1>1
<1>3. CASE b = TRUE
  BY <1>1, <1>2, <1>3
<1>4. CASE b = FALSE
  BY <1>1, <1>2, <1>4
<1> QED BY <1>3, <1>4

SetBid(lvls, s, word) == [lvls EXCEPT ![s].bid = word]
SetAsk(lvls, s, word) == [lvls EXCEPT ![s].ask = word]

\* Writing one word of one level leaves all others as they are.
LEMMA SetBidPoint ==
    ASSUME NEW lvls \in Books, NEW s \in Ticks, NEW word \in LotWords
    PROVE  /\ SetBid(lvls, s, word) \in Books
           /\ \A t \in Ticks :
                 LET new == SetBid(lvls, s, word)[t] IN
                 /\ new.bid = IF t = s THEN word ELSE lvls[t].bid
                 /\ new.ask = lvls[t].ask
                 /\ new.odo = lvls[t].odo
BY DEF SetBid, Books, Levels

\* Writing one ask of the book writes nothing else.
LEMMA SetAskPoint ==
    ASSUME NEW lvls \in Books, NEW s \in Ticks, NEW word \in LotWords
    PROVE  /\ SetAsk(lvls, s, word) \in Books
           /\ \A t \in Ticks :
                 LET new == SetAsk(lvls, s, word)[t] IN
                 /\ new.bid = lvls[t].bid
                 /\ new.ask = IF t = s THEN word ELSE lvls[t].ask
                 /\ new.odo = lvls[t].odo
BY DEF SetAsk, Books, Levels

\* The flag is set and cleared on the pivot's side of its level only.
LEMMA MarkPoint ==
    ASSUME NEW lvls \in Books, NEW key \in BOOLEAN \X Ticks
    PROVE  /\ MarkPivot(lvls, key) \in Books
           /\ \A t \in Ticks :
                 LET new == MarkPivot(lvls, key)[t] IN
                 /\ new.bid = IF key[1] /\ t = key[2]
                              THEN LotsToLiquidity(lvls[t].bid) + 1 ELSE lvls[t].bid
                 /\ new.ask = IF ~key[1] /\ t = key[2]
                              THEN LotsToLiquidity(lvls[t].ask) + 1 ELSE lvls[t].ask
                 /\ new.odo = lvls[t].odo
<1>1. \A t \in Ticks : /\ LotsToLiquidity(lvls[t].bid) + 1 \in LotWords
                       /\ LotsToLiquidity(lvls[t].ask) + 1 \in LotWords
  BY FlagWord DEF Books, Levels
<1>2. CASE key[1]
  <2> DEFINE word == LotsToLiquidity(lvls[key[2]].bid) + 1
  <2>1. key[2] \in Ticks /\ word \in LotWords
    BY <1>1, KeySides
  <2>2. MarkPivot(lvls, key) = SetBid(lvls, key[2], word)
    BY <1>2 DEF MarkPivot, SetBid
  <2>3. \A t \in Ticks : t = key[2] => word = LotsToLiquidity(lvls[t].bid) + 1
    OBVIOUS
  <2> HIDE DEF word
  <2>4. /\ SetBid(lvls, key[2], word) \in Books
        /\ \A t \in Ticks :
              /\ SetBid(lvls, key[2], word)[t].bid = IF t = key[2] THEN word ELSE lvls[t].bid
              /\ SetBid(lvls, key[2], word)[t].ask = lvls[t].ask
              /\ SetBid(lvls, key[2], word)[t].odo = lvls[t].odo
    BY <2>1, SetBidPoint
  <2> QED BY <1>2, <2>2, <2>3, <2>4
<1>3. CASE ~key[1]
  <2> DEFINE word == LotsToLiquidity(lvls[key[2]].ask) + 1
  <2>1. key[2] \in Ticks /\ word \in LotWords
    BY <1>1, KeySides
  <2>2. MarkPivot(lvls, key) = SetAsk(lvls, key[2], word)
    BY <1>3 DEF MarkPivot, SetAsk
  <2>3. \A t \in Ticks : t = key[2] => word = LotsToLiquidity(lvls[t].ask) + 1
    OBVIOUS
  <2> HIDE DEF word
  <2>4. /\ SetAsk(lvls, key[2], word) \in Books
        /\ \A t \in Ticks :
              /\ SetAsk(lvls, key[2], word)[t].ask = IF t = key[2] THEN word ELSE lvls[t].ask
              /\ SetAsk(lvls, key[2], word)[t].bid = lvls[t].bid
              /\ SetAsk(lvls, key[2], word)[t].odo = lvls[t].odo
    BY <2>1, SetAskPoint
  <2> QED BY <1>3, <2>2, <2>3, <2>4
<1> QED BY <1>2, <1>3

\* unmarkPivot, level by level: one side of one level loses its flag bit.
LEMMA UnmarkPoint ==
    ASSUME NEW lvls \in Books, NEW key \in BOOLEAN \X Ticks
    PROVE  /\ UnmarkPivot(lvls, key) \in Books
           /\ \A t \in Ticks :
                 LET new == UnmarkPivot(lvls, key)[t] IN
                 /\ new.bid = IF key[1] /\ t = key[2]
                              THEN LotsToLiquidity(lvls[t].bid) ELSE lvls[t].bid
                 /\ new.ask = IF ~key[1] /\ t = key[2]
                              THEN LotsToLiquidity(lvls[t].ask) ELSE lvls[t].ask
                 /\ new.odo = lvls[t].odo
<1>1. \A t \in Ticks : /\ LotsToLiquidity(lvls[t].bid) \in LotWords
                       /\ LotsToLiquidity(lvls[t].ask) \in LotWords
  BY FlagWord DEF Books, Levels
<1>2. CASE key[1]
  <2> DEFINE word == LotsToLiquidity(lvls[key[2]].bid)
  <2>1. key[2] \in Ticks /\ word \in LotWords
    BY <1>1, KeySides
  <2>2. UnmarkPivot(lvls, key) = SetBid(lvls, key[2], word)
    BY <1>2 DEF UnmarkPivot, SetBid
  <2>3. \A t \in Ticks : t = key[2] => word = LotsToLiquidity(lvls[t].bid)
    OBVIOUS
  <2> HIDE DEF word
  <2>4. /\ SetBid(lvls, key[2], word) \in Books
        /\ \A t \in Ticks :
              /\ SetBid(lvls, key[2], word)[t].bid = IF t = key[2] THEN word ELSE lvls[t].bid
              /\ SetBid(lvls, key[2], word)[t].ask = lvls[t].ask
              /\ SetBid(lvls, key[2], word)[t].odo = lvls[t].odo
    BY <2>1, SetBidPoint
  <2> QED BY <1>2, <2>2, <2>3, <2>4
<1>3. CASE ~key[1]
  <2> DEFINE word == LotsToLiquidity(lvls[key[2]].ask)
  <2>1. key[2] \in Ticks /\ word \in LotWords
    BY <1>1, KeySides
  <2>2. UnmarkPivot(lvls, key) = SetAsk(lvls, key[2], word)
    BY <1>3 DEF UnmarkPivot, SetAsk
  <2>3. \A t \in Ticks : t = key[2] => word = LotsToLiquidity(lvls[t].ask)
    OBVIOUS
  <2> HIDE DEF word
  <2>4. /\ SetAsk(lvls, key[2], word) \in Books
        /\ \A t \in Ticks :
              /\ SetAsk(lvls, key[2], word)[t].ask = IF t = key[2] THEN word ELSE lvls[t].ask
              /\ SetAsk(lvls, key[2], word)[t].bid = lvls[t].bid
              /\ SetAsk(lvls, key[2], word)[t].odo = lvls[t].odo
    BY <2>1, SetAskPoint
  <2> QED BY <1>3, <2>2, <2>3, <2>4
<1> QED BY <1>2, <1>3

\* A flip touches the odometer only, and none gets ahead of the counter.
LEMMA CrossPoint ==
    ASSUME NEW lvls \in Books, NEW s \in Ticks, NEW fee \in FeeWords,
           lvls[s].odo <= fee
    PROVE  /\ CrossLevel(lvls, s, fee) \in Books
           /\ \A t \in Ticks :
                 LET new == CrossLevel(lvls, s, fee)[t] IN
                 /\ new.bid = lvls[t].bid
                 /\ new.ask = lvls[t].ask
                 /\ new.odo = lvls[t].odo \/ (new.odo \in FeeWords /\ new.odo <= fee)
<1>1. fee - lvls[s].odo \in FeeWords /\ fee - lvls[s].odo <= fee
  BY FeeWordAssumption DEF Books, Levels, FeeWords
<1> QED BY <1>1 DEF CrossLevel, Books, Levels

\* A clock read at two ticks of the book is a mileage word.
LEMMA ClockWord ==
    ASSUME NEW lvls \in Books, NEW cur \in Int, NEW fee \in FeeWords,
           NEW l \in Ticks, NEW u \in Ticks
    PROVE  ClockFeeOdometer(lvls, cur, l, u, fee) \in FeeWords
<1>1. \A t \in Ticks : PivotFeeBelow(lvls, t, cur, fee) \in Int
  BY FeeWordAssumption DEF PivotFeeBelow, Books, Levels, FeeWords
<1> QED BY <1>1, WordDifference DEF ClockFeeOdometer

-----------------------------------------------------------------------------
(***************************************************************************)
(* The same, in the terms of the properties: the net bump of a level, its  *)
(* flags, and whether it holds anything at all.                            *)
(***************************************************************************)
LEMMA AddBookFacts ==
    ASSUME NEW lvls \in Books, NEW mid \in Int, NEW fee \in FeeWords,
           NEW l \in Ticks, NEW u \in Ticks, l < u, NEW lots \in Nat,
           lots % 2 = 0, AddBookFits(lvls, l, u, lots)
    PROVE  LET new == AddBookLiq(lvls, mid, l, u, lots, fee) IN
           /\ new \in Books
           /\ \A t \in Ticks :
                 /\ LotsToLiquidity(new[t].bid) = LotsToLiquidity(lvls[t].bid) + BidLots(l, t, lots)
                 /\ LotsToLiquidity(new[t].ask) = LotsToLiquidity(lvls[t].ask) + AskLots(u, t, lots)
                 /\ NetBump(new, t)
                      = NetBump(lvls, t) + BidLots(l, t, lots) - AskLots(u, t, lots)
                 /\ HasKnockoutLiq(new[t].bid) <=> HasKnockoutLiq(lvls[t].bid)
                 /\ HasKnockoutLiq(new[t].ask) <=> HasKnockoutLiq(lvls[t].ask)
                 /\ new[t].odo \in {lvls[t].odo, fee}
                 /\ t \notin {l, u} => (IsActive(new[t]) <=> IsActive(lvls[t]))
                 /\ IsActive(lvls[t]) => IsActive(new[t])
<1> DEFINE new == AddBookLiq(lvls, mid, l, u, lots, fee)
<1>1. /\ new \in Books
      /\ \A t \in Ticks : /\ new[t].bid = lvls[t].bid + BidLots(l, t, lots)
                          /\ new[t].ask = lvls[t].ask + AskLots(u, t, lots)
                          /\ new[t].odo \in {lvls[t].odo, fee}
  BY AddBookPoint
<1> HIDE DEF new
<1>2. ASSUME NEW t \in Ticks
      PROVE  /\ lvls[t].bid \in Nat /\ BidLots(l, t, lots) \in Nat
             /\ BidLots(l, t, lots) % 2 = 0
             /\ lvls[t].ask \in Nat /\ AskLots(u, t, lots) \in Nat
             /\ AskLots(u, t, lots) % 2 = 0
  BY DEF Books, Levels, LotWords, BidLots, AskLots
<1>3. ASSUME NEW t \in Ticks
      PROVE  /\ LotsToLiquidity(new[t].bid)
                  = LotsToLiquidity(lvls[t].bid) + BidLots(l, t, lots)
             /\ LotsToLiquidity(new[t].ask)
                  = LotsToLiquidity(lvls[t].ask) + AskLots(u, t, lots)
             /\ HasKnockoutLiq(new[t].bid) <=> HasKnockoutLiq(lvls[t].bid)
             /\ HasKnockoutLiq(new[t].ask) <=> HasKnockoutLiq(lvls[t].ask)
  <2>1. /\ new[t].bid = lvls[t].bid + BidLots(l, t, lots)
        /\ new[t].ask = lvls[t].ask + AskLots(u, t, lots)
    BY <1>1
  <2>2. /\ LotsToLiquidity(lvls[t].bid + BidLots(l, t, lots))
             = LotsToLiquidity(lvls[t].bid) + BidLots(l, t, lots)
        /\ HasKnockoutLiq(lvls[t].bid + BidLots(l, t, lots))
             <=> HasKnockoutLiq(lvls[t].bid)
    <3> DEFINE word == lvls[t].bid
               put == BidLots(l, t, lots)
    <3>1. word \in Nat /\ put \in Nat /\ put % 2 = 0
      BY <1>2
    <3> HIDE DEF word, put
    <3>2. /\ LotsToLiquidity(word + put) = LotsToLiquidity(word) + put
          /\ HasKnockoutLiq(word + put) <=> HasKnockoutLiq(word)
      BY <3>1, LotsParity
    <3> QED BY <3>2 DEF word, put
  <2>3. /\ LotsToLiquidity(lvls[t].ask + AskLots(u, t, lots))
             = LotsToLiquidity(lvls[t].ask) + AskLots(u, t, lots)
        /\ HasKnockoutLiq(lvls[t].ask + AskLots(u, t, lots))
             <=> HasKnockoutLiq(lvls[t].ask)
    <3> DEFINE word == lvls[t].ask
               put == AskLots(u, t, lots)
    <3>1. word \in Nat /\ put \in Nat /\ put % 2 = 0
      BY <1>2
    <3> HIDE DEF word, put
    <3>2. /\ LotsToLiquidity(word + put) = LotsToLiquidity(word) + put
          /\ HasKnockoutLiq(word + put) <=> HasKnockoutLiq(word)
      BY <3>1, LotsParity
    <3> QED BY <3>2 DEF word, put
  <2> QED BY <2>1, <2>2, <2>3
<1>4. ASSUME NEW t \in Ticks
      PROVE  NetBump(new, t)
               = NetBump(lvls, t) + BidLots(l, t, lots) - AskLots(u, t, lots)
  BY <1>2, <1>3 DEF NetBump, NetLotsOnLiquidity, LotsToLiquidity
<1>5. ASSUME NEW t \in Ticks
      PROVE  /\ t \notin {l, u} => (IsActive(new[t]) <=> IsActive(lvls[t]))
             /\ IsActive(lvls[t]) => IsActive(new[t])
  <2>1. /\ new[t].bid = lvls[t].bid + BidLots(l, t, lots)
        /\ new[t].ask = lvls[t].ask + AskLots(u, t, lots)
    BY <1>1
  <2>2. t \notin {l, u} => BidLots(l, t, lots) = 0 /\ AskLots(u, t, lots) = 0
    BY DEF BidLots, AskLots
  <2> QED BY <1>2, <2>1, <2>2 DEF IsActive
<1> QED BY <1>1, <1>3, <1>4, <1>5 DEF new

\* removeBookLiq takes off the net bumps what addBookLiq put there, and an even
\* quantity leaves every flag as it was.
LEMMA RemoveBookFacts ==
    ASSUME NEW lvls \in Books, NEW l \in Ticks, NEW u \in Ticks, l < u,
           NEW lots \in Nat, lots % 2 = 0, RemoveBookFits(lvls, l, u, lots)
    PROVE  LET new == RemoveBookLiq(lvls, l, u, lots) IN
           /\ new \in Books
           /\ \A t \in Ticks :
                 /\ LotsToLiquidity(new[t].bid) = LotsToLiquidity(lvls[t].bid) - BidLots(l, t, lots)
                 /\ LotsToLiquidity(new[t].ask) = LotsToLiquidity(lvls[t].ask) - AskLots(u, t, lots)
                 /\ NetBump(new, t)
                      = NetBump(lvls, t) - BidLots(l, t, lots) + AskLots(u, t, lots)
                 /\ HasKnockoutLiq(new[t].bid) <=> HasKnockoutLiq(lvls[t].bid)
                 /\ HasKnockoutLiq(new[t].ask) <=> HasKnockoutLiq(lvls[t].ask)
                 /\ new[t].odo \in {lvls[t].odo, 0}
                 /\ t \notin {l, u} => (IsActive(new[t]) <=> IsActive(lvls[t]))
                 /\ IsActive(new[t]) => IsActive(lvls[t])
                 /\ t \in EmptiedTicks(lvls, l, u, lots) => ~IsActive(new[t])
<1> DEFINE new == RemoveBookLiq(lvls, l, u, lots)
<1>1. /\ new \in Books
      /\ \A t \in Ticks : /\ new[t].bid = lvls[t].bid - BidLots(l, t, lots)
                          /\ new[t].ask = lvls[t].ask - AskLots(u, t, lots)
                          /\ new[t].odo \in {lvls[t].odo, 0}
      /\ EmptiedTicks(lvls, l, u, lots) = {t \in {l, u} : ~IsActive(new[t])}
  BY RemoveBookPoint
<1> HIDE DEF new
<1>2. ASSUME NEW t \in Ticks
      PROVE  /\ lvls[t].bid \in Nat /\ BidLots(l, t, lots) \in Nat
             /\ BidLots(l, t, lots) % 2 = 0
             /\ lvls[t].ask \in Nat /\ AskLots(u, t, lots) \in Nat
             /\ AskLots(u, t, lots) % 2 = 0
             /\ new[t].bid \in Nat /\ new[t].ask \in Nat
             /\ lvls[t].bid >= BidLots(l, t, lots)
             /\ lvls[t].ask >= AskLots(u, t, lots)
  <2>1. /\ lvls[t].bid \in Nat /\ lvls[t].ask \in Nat
        /\ new[t].bid \in Nat /\ new[t].ask \in Nat
    BY <1>1 DEF Books, Levels, LotWords
  <2>2. /\ t = l => lvls[t].bid >= lots
        /\ t = u => lvls[t].ask >= lots
    BY DEF RemoveBookFits, MinusLotsFits
  <2> QED BY <2>1, <2>2 DEF BidLots, AskLots
<1>3. ASSUME NEW t \in Ticks
      PROVE  /\ LotsToLiquidity(new[t].bid)
                  = LotsToLiquidity(lvls[t].bid) - BidLots(l, t, lots)
             /\ LotsToLiquidity(new[t].ask)
                  = LotsToLiquidity(lvls[t].ask) - AskLots(u, t, lots)
             /\ HasKnockoutLiq(new[t].bid) <=> HasKnockoutLiq(lvls[t].bid)
             /\ HasKnockoutLiq(new[t].ask) <=> HasKnockoutLiq(lvls[t].ask)
  <2>1. /\ new[t].bid = lvls[t].bid - BidLots(l, t, lots)
        /\ new[t].ask = lvls[t].ask - AskLots(u, t, lots)
    BY <1>1
  <2>2. /\ LotsToLiquidity(lvls[t].bid - BidLots(l, t, lots))
             = LotsToLiquidity(lvls[t].bid) - BidLots(l, t, lots)
        /\ HasKnockoutLiq(lvls[t].bid - BidLots(l, t, lots))
             <=> HasKnockoutLiq(lvls[t].bid)
    <3> DEFINE word == lvls[t].bid
               cut == BidLots(l, t, lots)
    <3>1. word \in Nat /\ cut \in Nat /\ cut % 2 = 0 /\ word >= cut
      BY <1>2
    <3> HIDE DEF word, cut
    <3>2. /\ LotsToLiquidity(word - cut) = LotsToLiquidity(word) - cut
          /\ HasKnockoutLiq(word - cut) <=> HasKnockoutLiq(word)
      BY <3>1, LotsParity
    <3> QED BY <3>2 DEF word, cut
  <2>3. /\ LotsToLiquidity(lvls[t].ask - AskLots(u, t, lots))
             = LotsToLiquidity(lvls[t].ask) - AskLots(u, t, lots)
        /\ HasKnockoutLiq(lvls[t].ask - AskLots(u, t, lots))
             <=> HasKnockoutLiq(lvls[t].ask)
    <3> DEFINE word == lvls[t].ask
               cut == AskLots(u, t, lots)
    <3>1. word \in Nat /\ cut \in Nat /\ cut % 2 = 0 /\ word >= cut
      BY <1>2
    <3> HIDE DEF word, cut
    <3>2. /\ LotsToLiquidity(word - cut) = LotsToLiquidity(word) - cut
          /\ HasKnockoutLiq(word - cut) <=> HasKnockoutLiq(word)
      BY <3>1, LotsParity
    <3> QED BY <3>2 DEF word, cut
  <2> QED BY <2>1, <2>2, <2>3
<1>4. ASSUME NEW t \in Ticks
      PROVE  NetBump(new, t)
               = NetBump(lvls, t) - BidLots(l, t, lots) + AskLots(u, t, lots)
  BY <1>2, <1>3 DEF NetBump, NetLotsOnLiquidity, LotsToLiquidity
<1>5. ASSUME NEW t \in Ticks
      PROVE  /\ t \notin {l, u} => (IsActive(new[t]) <=> IsActive(lvls[t]))
             /\ IsActive(new[t]) => IsActive(lvls[t])
  <2>1. /\ new[t].bid = lvls[t].bid - BidLots(l, t, lots)
        /\ new[t].ask = lvls[t].ask - AskLots(u, t, lots)
    BY <1>1
  <2>2. t \notin {l, u} => BidLots(l, t, lots) = 0 /\ AskLots(u, t, lots) = 0
    BY DEF BidLots, AskLots
  <2> QED BY <1>2, <2>1, <2>2 DEF IsActive
<1> QED BY <1>1, <1>3, <1>4, <1>5 DEF new

\* markPivot raises one flag and moves no liquidity.
LEMMA MarkFacts ==
    ASSUME NEW lvls \in Books, NEW key \in BOOLEAN \X Ticks
    PROVE  LET new == MarkPivot(lvls, key) IN
           /\ new \in Books
           /\ \A t \in Ticks :
                 /\ LotsToLiquidity(new[t].bid) = LotsToLiquidity(lvls[t].bid)
                 /\ LotsToLiquidity(new[t].ask) = LotsToLiquidity(lvls[t].ask)
                 /\ NetBump(new, t) = NetBump(lvls, t)
                 /\ HasKnockoutLiq(new[t].bid)
                      <=> (HasKnockoutLiq(lvls[t].bid) \/ (key[1] /\ t = key[2]))
                 /\ HasKnockoutLiq(new[t].ask)
                      <=> (HasKnockoutLiq(lvls[t].ask) \/ (~key[1] /\ t = key[2]))
                 /\ new[t].odo = lvls[t].odo
                 /\ t # key[2] => (IsActive(new[t]) <=> IsActive(lvls[t]))
<1> DEFINE new == MarkPivot(lvls, key)
<1>1. /\ new \in Books
      /\ \A t \in Ticks :
            /\ new[t].bid = IF key[1] /\ t = key[2]
                            THEN LotsToLiquidity(lvls[t].bid) + 1 ELSE lvls[t].bid
            /\ new[t].ask = IF ~key[1] /\ t = key[2]
                            THEN LotsToLiquidity(lvls[t].ask) + 1 ELSE lvls[t].ask
            /\ new[t].odo = lvls[t].odo
  BY MarkPoint
<1> HIDE DEF new
<1>2. ASSUME NEW t \in Ticks
      PROVE  lvls[t].bid \in LotWords /\ lvls[t].ask \in LotWords
  BY DEF Books, Levels
<1>3. ASSUME NEW t \in Ticks
      PROVE  /\ LotsToLiquidity(new[t].bid) = LotsToLiquidity(lvls[t].bid)
             /\ LotsToLiquidity(new[t].ask) = LotsToLiquidity(lvls[t].ask)
             /\ HasKnockoutLiq(new[t].bid)
                  <=> (HasKnockoutLiq(lvls[t].bid) \/ (key[1] /\ t = key[2]))
             /\ HasKnockoutLiq(new[t].ask)
                  <=> (HasKnockoutLiq(lvls[t].ask) \/ (~key[1] /\ t = key[2]))
  BY <1>1, <1>2, FlagWord
<1>4. ASSUME NEW t \in Ticks, t # key[2]
      PROVE  IsActive(new[t]) <=> IsActive(lvls[t])
  BY <1>1, <1>4 DEF IsActive
<1> QED BY <1>1, <1>3, <1>4 DEF new, NetBump, NetLotsOnLiquidity

\* unmarkPivot lowers one flag and moves no liquidity.
LEMMA UnmarkFacts ==
    ASSUME NEW lvls \in Books, NEW key \in BOOLEAN \X Ticks
    PROVE  LET new == UnmarkPivot(lvls, key) IN
           /\ new \in Books
           /\ \A t \in Ticks :
                 /\ LotsToLiquidity(new[t].bid) = LotsToLiquidity(lvls[t].bid)
                 /\ LotsToLiquidity(new[t].ask) = LotsToLiquidity(lvls[t].ask)
                 /\ NetBump(new, t) = NetBump(lvls, t)
                 /\ HasKnockoutLiq(new[t].bid)
                      <=> (HasKnockoutLiq(lvls[t].bid) /\ ~(key[1] /\ t = key[2]))
                 /\ HasKnockoutLiq(new[t].ask)
                      <=> (HasKnockoutLiq(lvls[t].ask) /\ ~(~key[1] /\ t = key[2]))
                 /\ new[t].odo = lvls[t].odo
                 /\ t # key[2] => (IsActive(new[t]) <=> IsActive(lvls[t]))
                 /\ IsActive(new[t]) => IsActive(lvls[t])
<1> DEFINE new == UnmarkPivot(lvls, key)
<1>1. /\ new \in Books
      /\ \A t \in Ticks :
            /\ new[t].bid = IF key[1] /\ t = key[2]
                            THEN LotsToLiquidity(lvls[t].bid) ELSE lvls[t].bid
            /\ new[t].ask = IF ~key[1] /\ t = key[2]
                            THEN LotsToLiquidity(lvls[t].ask) ELSE lvls[t].ask
            /\ new[t].odo = lvls[t].odo
  BY UnmarkPoint
<1> HIDE DEF new
<1>2. ASSUME NEW t \in Ticks
      PROVE  lvls[t].bid \in LotWords /\ lvls[t].ask \in LotWords
  BY DEF Books, Levels
<1>3. ASSUME NEW t \in Ticks
      PROVE  /\ LotsToLiquidity(new[t].bid) = LotsToLiquidity(lvls[t].bid)
             /\ LotsToLiquidity(new[t].ask) = LotsToLiquidity(lvls[t].ask)
             /\ HasKnockoutLiq(new[t].bid)
                  <=> (HasKnockoutLiq(lvls[t].bid) /\ ~(key[1] /\ t = key[2]))
             /\ HasKnockoutLiq(new[t].ask)
                  <=> (HasKnockoutLiq(lvls[t].ask) /\ ~(~key[1] /\ t = key[2]))
  BY <1>1, <1>2, FlagWord
<1>4. ASSUME NEW t \in Ticks
      PROVE  /\ t # key[2] => (IsActive(new[t]) <=> IsActive(lvls[t]))
             /\ IsActive(new[t]) => IsActive(lvls[t])
  <2>1. LotsToLiquidity(0) = 0
    BY DEF LotsToLiquidity
  <2> QED BY <1>1, <2>1 DEF IsActive
<1> QED BY <1>1, <1>3, <1>4 DEF new, NetBump, NetLotsOnLiquidity

\* crossLevel moves no liquidity, raises no flag, and leaves no odometer ahead
\* of the counter that flipped it.
LEMMA CrossFacts ==
    ASSUME NEW lvls \in Books, NEW s \in Ticks, NEW fee \in FeeWords,
           lvls[s].odo <= fee
    PROVE  LET new == CrossLevel(lvls, s, fee) IN
           /\ new \in Books
           /\ \A t \in Ticks :
                 /\ LotsToLiquidity(new[t].bid) = LotsToLiquidity(lvls[t].bid)
                 /\ LotsToLiquidity(new[t].ask) = LotsToLiquidity(lvls[t].ask)
                 /\ NetBump(new, t) = NetBump(lvls, t)
                 /\ HasKnockoutLiq(new[t].bid) <=> HasKnockoutLiq(lvls[t].bid)
                 /\ HasKnockoutLiq(new[t].ask) <=> HasKnockoutLiq(lvls[t].ask)
                 /\ new[t].odo = lvls[t].odo \/ new[t].odo <= fee
                 /\ IsActive(new[t]) <=> IsActive(lvls[t])
<1> DEFINE new == CrossLevel(lvls, s, fee)
<1>1. /\ new \in Books
      /\ \A t \in Ticks : /\ new[t].bid = lvls[t].bid
                          /\ new[t].ask = lvls[t].ask
                          /\ new[t].odo = lvls[t].odo \/ new[t].odo <= fee
  BY CrossPoint
<1> HIDE DEF new
<1> QED BY <1>1 DEF new, NetBump, NetLotsOnLiquidity, IsActive

-----------------------------------------------------------------------------
(***************************************************************************)
(* The invariant of the book.                                              *)
(***************************************************************************)

\* A pivot that rests has a range on the book and an even number of lots.
PivotShape ==
    \A key \in PivotKeys :
        /\ pivots[key].lots % 2 = 0
        /\ pivots[key].time = 0 => pivots[key].lots = 0
        /\ pivots[key].time # 0 => PivotRangeOkay(key)

\* The depth changes at levels in use only.
Flat(lvls, dep) ==
    \A s, t \in Ticks :
        (s <= t /\ \A v \in Ticks : (s < v /\ v <= t) => ~IsActive(lvls[v]))
        => dep[s] = dep[t]

Below(dep, t) == IF t = MinTick THEN 0 ELSE dep[t - 1]
Stepped(lvls, dep) == \A t \in Ticks : NetBump(lvls, t) = dep[t] - Below(dep, t)

DepthFlat == Flat(levels, depth)

WordInv == TypeOK /\ OdometerBounded /\ FlagMatchesPivot /\ PivotShape
DepthInv == BookMatchesDepth /\ DepthFlat /\ ActiveLiquidity /\ BookmarkCoversLots
BookInv == WordInv /\ DepthInv

-----------------------------------------------------------------------------
(***************************************************************************)
(* The depth under an order that is added to the book or taken off it.     *)
(***************************************************************************)
Stacked(dep, l, u, lots) ==
    [t \in Ticks |-> IF l <= t /\ t < u THEN dep[t] + lots ELSE dep[t]]

\* An order that is laid on the book and on the depth keeps the two in step.
LEMMA StackedSteps ==
    ASSUME NEW lvls \in Books, NEW new \in Books, NEW dep \in [Ticks -> Int],
           NEW l \in Ticks, NEW u \in Ticks, l < u, NEW lots \in Int,
           Stepped(lvls, dep),
           \A t \in Ticks : NetBump(new, t)
                              = NetBump(lvls, t) + BidLots(l, t, lots) - AskLots(u, t, lots)
    PROVE  Stepped(new, Stacked(dep, l, u, lots))
<1> DEFINE d2 == Stacked(dep, l, u, lots)
<1>1. SUFFICES ASSUME NEW t \in Ticks
               PROVE  NetBump(new, t) = d2[t] - Below(d2, t)
  BY DEF Stepped
<1>2. t # MinTick => t - 1 \in Ticks
  BY TickAssumption DEF Ticks
<1>3. NetBump(lvls, t) = dep[t] - Below(dep, t)
  BY DEF Stepped
<1>4. /\ NetBump(new, t) = NetBump(lvls, t) + BidLots(l, t, lots) - AskLots(u, t, lots)
      /\ BidLots(l, t, lots) = IF t = l THEN lots ELSE 0
      /\ AskLots(u, t, lots) = IF t = u THEN lots ELSE 0
  BY DEF BidLots, AskLots
<1>5. \A v \in Ticks : /\ dep[v] \in Int
                       /\ d2[v] = IF l <= v /\ v < u THEN dep[v] + lots ELSE dep[v]
  BY DEF Stacked
<1> HIDE DEF d2
<1>6. l \in Int /\ u \in Int /\ t \in Int /\ MinTick <= l /\ MinTick <= t
  BY TickAssumption DEF Ticks
<1>7. CASE t = MinTick
  <2>1. Below(dep, t) = 0 /\ Below(d2, t) = 0
    BY <1>7 DEF Below
  <2> QED BY <1>3, <1>4, <1>5, <1>6, <1>7, <2>1
<1>8. CASE t # MinTick
  <2>1. Below(dep, t) = dep[t - 1] /\ Below(d2, t) = d2[t - 1]
    BY <1>8 DEF Below
  <2>2. /\ dep[t - 1] \in Int
        /\ d2[t - 1] = IF l <= t - 1 /\ t - 1 < u THEN dep[t - 1] + lots ELSE dep[t - 1]
    BY <1>2, <1>5, <1>8
  <2> QED BY <1>3, <1>4, <1>5, <1>6, <2>1, <2>2
<1> QED BY <1>7, <1>8 DEF d2

\* Flatness survives: a level that falls out of use leaves no step behind.
LEMMA StackedFlat ==
    ASSUME NEW lvls \in Books, NEW new \in Books, NEW dep \in [Ticks -> Int],
           NEW l \in Ticks, NEW u \in Ticks, l < u, NEW lots \in Int,
           Stepped(lvls, dep), Flat(lvls, dep),
           \A t \in Ticks : NetBump(new, t)
                              = NetBump(lvls, t) + BidLots(l, t, lots) - AskLots(u, t, lots),
           \A t \in Ticks \ {l, u} : IsActive(new[t]) <=> IsActive(lvls[t])
    PROVE  Flat(new, Stacked(dep, l, u, lots))
<1> DEFINE d2 == Stacked(dep, l, u, lots)
<1>1. SUFFICES ASSUME NEW s \in Ticks, NEW t \in Ticks, s <= t,
                      \A v \in Ticks : (s < v /\ v <= t) => ~IsActive(new[v])
               PROVE  d2[s] = d2[t]
  BY DEF Flat
<1>2. d2 \in [Ticks -> Int]
  BY DEF Stacked
<1>3. Stepped(new, d2)
  BY StackedSteps
\* No step at an end of the order that lies in the stretch.
<1>4. ASSUME NEW v \in Ticks, s < v, v <= t
      PROVE  v - 1 \in Ticks /\ d2[v - 1] = d2[v]
  <2>1. v - 1 \in Ticks /\ v # MinTick
    BY <1>4, TickAssumption DEF Ticks
  <2>2. ~IsActive(new[v])
    BY <1>1, <1>4
  <2>3. NetBump(new, v) = 0
    BY <2>2 DEF IsActive, NetBump, NetLotsOnLiquidity, LotsToLiquidity
  <2>4. NetBump(new, v) = d2[v] - d2[v - 1]
    BY <1>3, <2>1 DEF Stepped, Below
  <2> HIDE DEF d2
  <2> QED BY <1>2, <2>1, <2>3, <2>4
\* No step between two ends.
<1>5. ASSUME NEW a \in Ticks, NEW b \in Ticks, s <= a, a <= b, b <= t,
             ~(a < l /\ l <= b), ~(a < u /\ u <= b)
      PROVE  d2[a] = d2[b]
  <2>1. \A v \in Ticks : (a < v /\ v <= b) => ~IsActive(lvls[v])
    <3> SUFFICES ASSUME NEW v \in Ticks, a < v, v <= b
                 PROVE  ~IsActive(lvls[v])
      OBVIOUS
    <3>1. s < v /\ v <= t /\ v # l /\ v # u
      BY <1>5, TickAssumption DEF Ticks
    <3> QED BY <1>1, <3>1
  <2>2. dep[a] = dep[b]
    BY <1>5, <2>1 DEF Flat
  <2>3. (l <= a /\ a < u) <=> (l <= b /\ b < u)
    BY <1>5, TickAssumption DEF Ticks
  <2> QED BY <2>2, <2>3 DEF Stacked
<1> HIDE DEF d2
<1>6. CASE ~(s < l /\ l <= t) /\ ~(s < u /\ u <= t)
  BY <1>1, <1>5, <1>6, TickAssumption DEF Ticks
<1>7. CASE (s < l /\ l <= t) /\ ~(s < u /\ u <= t)
  <2>1. l - 1 \in Ticks /\ d2[l - 1] = d2[l]
    BY <1>4, <1>7
  <2>2. d2[s] = d2[l - 1]
    BY <1>1, <1>5, <1>7, <2>1, TickAssumption DEF Ticks
  <2>3. d2[l] = d2[t]
    BY <1>1, <1>5, <1>7, TickAssumption DEF Ticks
  <2> QED BY <2>1, <2>2, <2>3
<1>8. CASE ~(s < l /\ l <= t) /\ (s < u /\ u <= t)
  <2>1. u - 1 \in Ticks /\ d2[u - 1] = d2[u]
    BY <1>4, <1>8
  <2>2. d2[s] = d2[u - 1]
    BY <1>1, <1>5, <1>8, <2>1, TickAssumption DEF Ticks
  <2>3. d2[u] = d2[t]
    BY <1>1, <1>5, <1>8, TickAssumption DEF Ticks
  <2> QED BY <2>1, <2>2, <2>3
<1>9. CASE (s < l /\ l <= t) /\ (s < u /\ u <= t)
  <2>1. /\ l - 1 \in Ticks /\ d2[l - 1] = d2[l]
        /\ u - 1 \in Ticks /\ d2[u - 1] = d2[u]
    BY <1>4, <1>9
  <2>2. d2[s] = d2[l - 1]
    BY <1>1, <1>5, <1>9, <2>1, TickAssumption DEF Ticks
  <2>3. d2[l] = d2[u - 1]
    BY <1>1, <1>5, <1>9, <2>1, TickAssumption DEF Ticks
  <2>4. d2[u] = d2[t]
    BY <1>1, <1>5, <1>9, TickAssumption DEF Ticks
  <2> QED BY <2>1, <2>2, <2>3, <2>4
<1>10. QED BY <1>6, <1>7, <1>8, <1>9 DEF d2

-----------------------------------------------------------------------------
(***************************************************************************)
(* A step that adds an order to the book (lots > 0), takes one off it      *)
(* (lots < 0), or sets or clears the flag at one of its ends.              *)
(***************************************************************************)
Relaid(l, u, lots) ==
    /\ levels' \in Books
    /\ depth' = Stacked(depth, l, u, lots)
    /\ \A t \in Ticks : NetBump(levels', t)
                          = NetBump(levels, t) + BidLots(l, t, lots) - AskLots(u, t, lots)
    /\ \A t \in Ticks \ {l, u} : IsActive(levels'[t]) <=> IsActive(levels[t])

\* A step that relays an order keeps the book, the depth and its flatness.
LEMMA RelaidDepth ==
    ASSUME TypeOK, BookMatchesDepth, DepthFlat,
           NEW l \in Ticks, NEW u \in Ticks, l < u, NEW lots \in Int, Relaid(l, u, lots)
    PROVE  depth' \in [Ticks -> Int] /\ BookMatchesDepth' /\ DepthFlat'
<1>1. levels \in Books /\ depth \in [Ticks -> Int]
  BY DEF TypeOK, Books
<1>2. Stepped(levels, depth) /\ Flat(levels, depth)
  BY DEF BookMatchesDepth, DepthBelow, Stepped, Below, DepthFlat
<1>3. Stepped(levels', depth')
  BY <1>1, <1>2, StackedSteps DEF Relaid
<1>4. Flat(levels', depth')
  BY <1>1, <1>2, StackedFlat DEF Relaid
<1>5. depth' \in [Ticks -> Int]
  BY <1>1 DEF Relaid, Stacked
<1> QED BY <1>3, <1>4, <1>5
        DEF BookMatchesDepth, DepthBelow, Stepped, Below, DepthFlat

\* Taking lots off is adding their negation.
LEMMA RelaidCut ==
    ASSUME NEW l, NEW u, NEW lots \in Nat,
           levels \in Books, levels' \in Books, depth' = Stacked(depth, l, u, -lots),
           \A t \in Ticks :
              /\ NetBump(levels', t)
                   = NetBump(levels, t) - BidLots(l, t, lots) + AskLots(u, t, lots)
              /\ t \notin {l, u} => (IsActive(levels'[t]) <=> IsActive(levels[t]))
    PROVE  Relaid(l, u, -lots)
<1>1. ASSUME NEW t \in Ticks
      PROVE  NetBump(levels', t)
               = NetBump(levels, t) + BidLots(l, t, -lots) - AskLots(u, t, -lots)
  <2>1. NetBump(levels, t) \in Int
    BY DEF NetBump, NetLotsOnLiquidity, LotsToLiquidity, Books, Levels, LotWords
  <2>2. /\ BidLots(l, t, lots) \in Int /\ BidLots(l, t, -lots) = -BidLots(l, t, lots)
        /\ AskLots(u, t, lots) \in Int /\ AskLots(u, t, -lots) = -AskLots(u, t, lots)
    BY DEF BidLots, AskLots
  <2> QED BY <2>1, <2>2
<1> QED BY <1>1 DEF Relaid

\* What is active stays what is stacked over the price, which does not move.
LEMMA BumpActive ==
    ASSUME TypeOK, ActiveLiquidity, NEW l \in Ticks, NEW u \in Ticks, NEW lots \in Int,
           concLiq' = BumpConcentrated(l, u, lots),
           depth' = Stacked(depth, l, u, lots), UNCHANGED tick
    PROVE  ActiveLiquidity'
<1>1. tick \in Ticks
  BY TickAssumption DEF TypeOK, PriceTicks, Ticks
<1>2. depth'[tick] = IF l <= tick /\ tick < u THEN depth[tick] + lots ELSE depth[tick]
  BY <1>1 DEF Stacked
<1> QED BY <1>2 DEF ActiveLiquidity, BumpConcentrated, InRange

\* The model's stacking of an order is that of the lemmas.
LEMMA StackIsStacked ==
    ASSUME NEW l, NEW u, NEW lots
    PROVE  Stack(l, u, lots) = Stacked(depth, l, u, lots)
BY DEF Stack, Stacked

\* The quantities and the ranges that a command may name.
LEMMA LocFacts ==
    /\ \A r \in RangeLocs : r.lower \in Ticks /\ r.upper \in Ticks /\ r.lower < r.upper
    /\ \A k \in KoLocs : /\ k.lower \in Ticks /\ k.upper \in Ticks /\ k.lower < k.upper
                         /\ k.isBid \in BOOLEAN
    /\ \A q \in LotSizes : q \in Nat /\ q % 2 = 0
BY LocsAssumption, SizesAssumption DEF Locs, KoLocations, IsLotSize

-----------------------------------------------------------------------------
\* The empty pool satisfies the invariant.
LEMMA InitBookInv == Init => BookInv
<1> SUFFICES ASSUME Init PROVE BookInv
  OBVIOUS
<1> USE DEF Init
<1>1. 0 \in LotWords /\ 0 \in FeeWords /\ 0 \in Times /\ 1 \in 1 .. MaxTime
  BY LotLimitAssumption, FeeWordAssumption, BoundsAssumption
     DEF LotWords, FeeWords, Times
<1>2. TypeOK
  <2>1. levels \in [Ticks -> Levels]
    BY <1>1 DEF NoLevel, Levels
  <2>2. tick \in PriceTicks
    BY SettingsAssumption DEF PriceTicks
  <2>3. positions \in [RangeKeys -> Positions]
    BY <1>1 DEF NoPosition, Positions
  <2>4. pivots \in [PivotKeys -> Pivots]
    BY <1>1 DEF NoPivot, Pivots
  <2>5. koPos \in [KoKeys -> KoPositions]
    BY <1>1 DEF NoKnockoutPos, KoPositions
  <2>6. DOMAIN merkles = PivotKeys /\ \A k \in PivotKeys : IsMerkle(merkles[k])
    <3>1. <<>> \in Seq([time : Times, mileage : FeeWords])
      OBVIOUS
    <3>2. \A k \in PivotKeys : merkles[k] = NoMerkle
      OBVIOUS
    <3> QED BY <1>1, <3>1, <3>2 DEF NoMerkle, IsMerkle
  <2> QED BY <1>1, <2>1, <2>2, <2>3, <2>4, <2>5, <2>6 DEF TypeOK
<1>3. OdometerBounded
  BY DEF OdometerBounded, NoLevel
<1>4. FlagMatchesPivot
  <2>1. ASSUME NEW t \in Ticks
        PROVE  /\ pivots[<<TRUE, t>>].time = 0 /\ pivots[<<FALSE, t>>].time = 0
               /\ levels[t].bid = 0 /\ levels[t].ask = 0
    BY DEF NoLevel, NoPivot, PivotKeys
  <2>2. ~HasKnockoutLiq(0)
    BY DEF HasKnockoutLiq
  <2> QED BY <2>1, <2>2 DEF FlagMatchesPivot
<1>5. PivotShape
  BY DEF PivotShape, NoPivot
<1>6. BookMatchesDepth
  BY TickAssumption DEF BookMatchesDepth, DepthBelow, NetBump, NetLotsOnLiquidity,
                        LotsToLiquidity, NoLevel, Ticks
<1>7. DepthFlat
  BY DEF DepthFlat, Flat
<1>8. ActiveLiquidity
  BY <1>2, TickAssumption DEF ActiveLiquidity, TypeOK, PriceTicks, Ticks
<1>9. BookmarkCoversLots
  BY DEF BookmarkCoversLots, IsActive, NoLevel
<1> QED BY <1>2, <1>3, <1>4, <1>5, <1>6, <1>7, <1>8, <1>9
        DEF BookInv, WordInv, DepthInv

\* Minting a range order, at or off the grid, in or out of range.
LEMMA MintRangeInv ==
    ASSUME BookInv, NEW o \in Owners, NEW r \in RangeLocs, NEW lots \in LotSizes,
           NEW offGrid \in BOOLEAN, MintRange(o, r, lots, offGrid)
    PROVE  BookInv'
<1> USE DEF BookInv, WordInv, DepthInv
<1> DEFINE l == r.lower
           u == r.upper
           pos == positions[<<o, r>>]
           clock == ClockAfterAdd(l, u, lots)
<1>1. l \in Ticks /\ u \in Ticks /\ l < u /\ lots \in Nat /\ lots % 2 = 0
  BY LocFacts
<1>2. levels \in Books /\ tick \in Int /\ concGrowth \in FeeWords
  BY TickAssumption DEF TypeOK, Books, PriceTicks
<1>3. /\ AddBookFits(levels, l, u, lots)
      /\ levels' = AddBookLiq(levels, tick, l, u, lots, concGrowth)
      /\ census' = BookmarkTicks(census, levels, l, u)
      /\ concLiq' = BumpConcentrated(l, u, lots)
      /\ depth' = Stacked(depth, l, u, lots)
      /\ UNCHANGED <<tick, concGrowth, pivots, merkles, koPos, now, sweep>>
  BY StackIsStacked DEF MintRange, AddOrder, knockoutVars
<1>4. /\ levels' \in Books
      /\ \A t \in Ticks :
            /\ NetBump(levels', t)
                 = NetBump(levels, t) + BidLots(l, t, lots) - AskLots(u, t, lots)
            /\ HasKnockoutLiq(levels'[t].bid) <=> HasKnockoutLiq(levels[t].bid)
            /\ HasKnockoutLiq(levels'[t].ask) <=> HasKnockoutLiq(levels[t].ask)
            /\ levels'[t].odo \in {levels[t].odo, concGrowth}
            /\ t \notin {l, u} => (IsActive(levels'[t]) <=> IsActive(levels[t]))
  <2> HIDE DEF l, u, BookInv, WordInv, DepthInv
  <2> QED BY <1>1, <1>2, <1>3, AddBookFacts
<1>5. depth' \in [Ticks -> Int] /\ BookMatchesDepth' /\ DepthFlat'
  <2>1. Relaid(l, u, lots)
    BY <1>3, <1>4 DEF Relaid
  <2> QED BY <1>1, <2>1, RelaidDepth
<1>6. ActiveLiquidity'
  BY <1>1, <1>3, BumpActive
<1>7. positions' \in [RangeKeys -> Positions]
  <2>1. <<o, r>> \in RangeKeys
    BY DEF RangeKeys
  <2>2. pos \in Positions
    BY <2>1 DEF TypeOK
  <2>3. clock \in FeeWords
    BY <1>1, <1>2, <1>3, <1>4, ClockWord DEF ClockAfterAdd
  <2> DEFINE mileage == MintMileage(pos, lots, clock)
  <2>4. mileage \in Nat /\ mileage < FeeWord
    <3>1. mileage < FeeWord
      BY DEF MintRange
    <3>2. mileage \in Nat
      <4>1. /\ clock \in Nat /\ pos.lots \in Nat
            /\ (IF pos.lots > 0 THEN pos.mileage ELSE 0) \in Nat
        BY <2>2, <2>3 DEF Positions, FeeWords
      <4> HIDE DEF clock, pos
      <4> QED BY <1>1, <4>1, BlendNat DEF MintMileage
    <3> QED BY <3>1, <3>2
  <2>5. mileage \in FeeWords
    BY <2>4, FeeWordAssumption DEF FeeWords
  <2>6. now \in Times /\ offGrid \in BOOLEAN
    BY SettingsAssumption DEF TypeOK, Times
  <2> DEFINE new == [IncrementPosLiq(pos, lots, clock, now) EXCEPT !.atomic = @ \/ offGrid]
  <2>7. new \in Positions
    <3>1. pos.lots + lots \in Nat
      BY <1>1, <2>2 DEF Positions
    <3>2. IncrementPosLiq(pos, lots, clock, now) \in Positions
      <4> HIDE DEF mileage, clock, pos
      <4>1. IncrementPosLiq(pos, lots, clock, now)
              = [pos EXCEPT !.lots = pos.lots + lots, !.mileage = mileage, !.stamp = now]
        BY DEF IncrementPosLiq, mileage
      <4> QED BY <2>2, <2>5, <2>6, <3>1, <4>1 DEF Positions
    <3> HIDE DEF clock, pos
    <3> QED BY <2>6, <3>2 DEF Positions
  <2>8. positions' = [positions EXCEPT ![<<o, r>>] = new]
    BY DEF MintRange
  <2> HIDE DEF new
  <2> QED BY <2>7, <2>8 DEF TypeOK
<1>8. TypeOK'
  <2>1. census' \subseteq Ticks
    BY <1>1, <1>3 DEF TypeOK, BookmarkTicks
  <2>2. concLiq' \in Nat
    BY <1>1, <1>3 DEF TypeOK, BumpConcentrated
  <2> QED BY <1>3, <1>4, <1>5, <1>7, <2>1, <2>2 DEF TypeOK, Books, IsMerkle
<1>9. OdometerBounded'
  BY <1>2, <1>3, <1>4 DEF OdometerBounded, FeeWords
<1>10. FlagMatchesPivot'
  BY <1>3, <1>4 DEF FlagMatchesPivot
<1>11. PivotShape'
  BY <1>3 DEF PivotShape, PivotRangeOkay
<1>12. BookmarkCoversLots'
  BY <1>1, <1>3, <1>4 DEF BookmarkCoversLots, BookmarkTicks
<1> QED BY <1>5, <1>6, <1>8, <1>9, <1>10, <1>11, <1>12

\* Burning a range order, in part or whole.
LEMMA BurnRangeInv ==
    ASSUME BookInv, NEW o \in Owners, NEW r \in RangeLocs, NEW lots \in LotSizes,
           BurnRange(o, r, lots)
    PROVE  BookInv'
<1> USE DEF BookInv, WordInv, DepthInv
<1> DEFINE l == r.lower
           u == r.upper
           pos == positions[<<o, r>>]
<1>1. l \in Ticks /\ u \in Ticks /\ l < u /\ lots \in Nat /\ lots % 2 = 0
  BY LocFacts
<1>2. levels \in Books /\ concGrowth \in FeeWords
  BY DEF TypeOK, Books
<1>3. /\ RemoveBookFits(levels, l, u, lots)
      /\ levels' = RemoveBookLiq(levels, l, u, lots)
      /\ census' = census \ EmptiedTicks(levels, l, u, lots)
      /\ concLiq' = BumpConcentrated(l, u, -lots) /\ concLiq' >= 0
      /\ depth' = Stacked(depth, l, u, -lots)
      /\ UNCHANGED <<tick, concGrowth, pivots, merkles, koPos, now, sweep>>
  BY StackIsStacked DEF BurnRange, knockoutVars
<1>4. /\ levels' \in Books
      /\ \A t \in Ticks :
            /\ NetBump(levels', t)
                 = NetBump(levels, t) - BidLots(l, t, lots) + AskLots(u, t, lots)
            /\ HasKnockoutLiq(levels'[t].bid) <=> HasKnockoutLiq(levels[t].bid)
            /\ HasKnockoutLiq(levels'[t].ask) <=> HasKnockoutLiq(levels[t].ask)
            /\ levels'[t].odo \in {levels[t].odo, 0}
            /\ t \notin {l, u} => (IsActive(levels'[t]) <=> IsActive(levels[t]))
            /\ IsActive(levels'[t]) => IsActive(levels[t])
            /\ t \in EmptiedTicks(levels, l, u, lots) => ~IsActive(levels'[t])
  <2> HIDE DEF l, u, BookInv, WordInv, DepthInv
  <2> QED BY <1>1, <1>2, <1>3, RemoveBookFacts
<1>5. depth' \in [Ticks -> Int] /\ BookMatchesDepth' /\ DepthFlat'
  <2>1. Relaid(l, u, -lots)
    <3> HIDE DEF l, u, BookInv, WordInv, DepthInv
    <3> QED BY <1>1, <1>2, <1>3, <1>4, RelaidCut
  <2> QED BY <1>1, <2>1, RelaidDepth
<1>6. ActiveLiquidity'
  BY <1>1, <1>3, BumpActive
<1>7. positions' \in [RangeKeys -> Positions]
  <2>1. pos \in Positions
    BY DEF TypeOK, RangeKeys
  <2>2. DecrementLiq(pos, lots) \in Positions
    <3>1. CASE pos.lots > lots
      <4>1. pos.lots - lots \in Nat
        <5>1. pos.lots \in Nat
          BY <2>1 DEF Positions
        <5> HIDE DEF pos
        <5> QED BY <1>1, <3>1, <5>1
      <4> HIDE DEF pos
      <4> QED BY <2>1, <3>1, <4>1 DEF DecrementLiq, Positions
    <3>2. CASE ~(pos.lots > lots)
      <4>1. 0 \in Nat /\ 0 \in FeeWords /\ 0 \in Times
        BY FeeWordAssumption, BoundsAssumption DEF FeeWords, Times
      <4> QED BY <3>2, <4>1 DEF DecrementLiq, NoPosition, Positions
    <3> QED BY <3>1, <3>2
  <2>3. positions' = [positions EXCEPT ![<<o, r>>] = DecrementLiq(pos, lots)]
    BY DEF BurnRange
  <2> HIDE DEF pos
  <2> QED BY <2>2, <2>3 DEF TypeOK
<1>8. TypeOK'
  <2>1. census' \subseteq Ticks
    BY <1>3 DEF TypeOK
  <2>2. concLiq' \in Nat
    BY <1>1, <1>3 DEF TypeOK, BumpConcentrated
  <2> QED BY <1>3, <1>4, <1>5, <1>7, <2>1, <2>2 DEF TypeOK, Books, IsMerkle
<1>9. OdometerBounded'
  BY <1>2, <1>3, <1>4 DEF OdometerBounded, FeeWords
<1>10. FlagMatchesPivot'
  BY <1>3, <1>4 DEF FlagMatchesPivot
<1>11. PivotShape'
  BY <1>3 DEF PivotShape, PivotRangeOkay
<1>12. BookmarkCoversLots'
  BY <1>3, <1>4 DEF BookmarkCoversLots
<1> QED BY <1>5, <1>6, <1>8, <1>9, <1>10, <1>11, <1>12

-----------------------------------------------------------------------------
\* A step that leaves the book and the curve alone.
LEMMA BookUntouched ==
    ASSUME BookInv, TypeOK', UNCHANGED <<bookVars, curveVars, pivots, depth>>
    PROVE  BookInv'
BY DEF BookInv, WordInv, DepthInv, bookVars, curveVars, OdometerBounded, FlagMatchesPivot,
       PivotShape, PivotRangeOkay, BookMatchesDepth, DepthBelow, DepthFlat, Flat,
       ActiveLiquidity, BookmarkCoversLots

\* A mark touches one flag.
LEMMA MarkRangeInv ==
    ASSUME BookInv, NEW o \in Owners, NEW r \in RangeLocs, MarkRange(o, r)
    PROVE  BookInv'
<1>1. TypeOK
  BY DEF BookInv, WordInv
<1>2. /\ positions' = [positions EXCEPT ![<<o, r>>] = MarkPosAtomic(@)]
      /\ UNCHANGED <<bookVars, curveVars, knockoutVars, now, sweep, depth>>
  BY DEF MarkRange
<1>3. positions' \in [RangeKeys -> Positions]
  BY <1>1, <1>2 DEF TypeOK, Positions, MarkPosAtomic
<1>4. TypeOK'
  BY <1>1, <1>2, <1>3 DEF TypeOK, IsMerkle, bookVars, curveVars, knockoutVars
<1> QED BY <1>2, <1>4, BookUntouched DEF knockoutVars

\* Harvesting touches one mileage.
LEMMA HarvestRangeInv ==
    ASSUME BookInv, NEW o \in Owners, NEW r \in RangeLocs, HarvestRange(o, r)
    PROVE  BookInv'
<1> DEFINE pos == positions[<<o, r>>]
           clock == Clock(r.lower, r.upper)
<1>1. TypeOK
  BY DEF BookInv, WordInv
<1>2. pos \in Positions
  BY <1>1 DEF TypeOK, RangeKeys
<1>3. clock \in FeeWords
  BY <1>1, LocFacts, ClockWord, TickAssumption DEF TypeOK, Clock, Books, PriceTicks
<1>4. HarvestPosLiq(pos, clock) \in Positions
  <2> HIDE DEF pos, clock
  <2> QED BY <1>2, <1>3 DEF HarvestPosLiq, Positions
<1>5. positions' = [positions EXCEPT ![<<o, r>>] = HarvestPosLiq(pos, clock)]
  BY DEF HarvestRange
<1>6. positions' \in [RangeKeys -> Positions]
  <2> HIDE DEF pos, clock
  <2> QED BY <1>1, <1>4, <1>5 DEF TypeOK
<1>7. UNCHANGED <<bookVars, curveVars, knockoutVars, now, sweep, depth>>
  BY DEF HarvestRange
<1>8. TypeOK'
  BY <1>1, <1>6, <1>7 DEF TypeOK, IsMerkle, bookVars, curveVars, knockoutVars
<1> QED BY <1>7, <1>8, BookUntouched DEF knockoutVars

\* A knockout position that was paid out is well-formed.
LEMMA ClosedPosition == NoKnockoutPos \in KoPositions
BY FeeWordAssumption, BoundsAssumption DEF NoKnockoutPos, KoPositions, FeeWords, Times

\* Claiming with a proof closes a position.
LEMMA ClaimKnockoutInv ==
    ASSUME BookInv, NEW o \in Owners, NEW k \in KoLocs, NEW proven,
           ClaimKnockout(o, k, proven)
    PROVE  BookInv'
<1>1. TypeOK
  BY DEF BookInv, WordInv
<1>2. /\ koPos' = [koPos EXCEPT ![<<o, k, proven.time>>] = NoKnockoutPos]
      /\ UNCHANGED <<bookVars, curveVars, positions, pivots, merkles, now, sweep, depth>>
  BY DEF ClaimKnockout
<1>3. TypeOK'
  BY <1>1, <1>2, ClosedPosition DEF TypeOK, IsMerkle, bookVars, curveVars
<1> QED BY <1>2, <1>3, BookUntouched

\* Recovering without a proof closes a position.
LEMMA RecoverKnockoutInv ==
    ASSUME BookInv, NEW o \in Owners, NEW k \in KoLocs, NEW pivotTime \in Times,
           RecoverKnockout(o, k, pivotTime)
    PROVE  BookInv'
<1>1. TypeOK
  BY DEF BookInv, WordInv
<1>2. /\ koPos' = [koPos EXCEPT ![<<o, k, pivotTime>>] = NoKnockoutPos]
      /\ UNCHANGED <<bookVars, curveVars, positions, pivots, merkles, now, sweep, depth>>
  BY DEF RecoverKnockout
<1>3. TypeOK'
  BY <1>1, <1>2, ClosedPosition DEF TypeOK, IsMerkle, bookVars, curveVars
<1> QED BY <1>2, <1>3, BookUntouched

\* Time passes.
LEMMA PassTimeInv == BookInv /\ PassTime => BookInv'
<1> SUFFICES ASSUME BookInv, PassTime PROVE BookInv'
  OBVIOUS
<1>1. TypeOK
  BY DEF BookInv, WordInv
<1>2. /\ now' \in 1 .. MaxTime
      /\ UNCHANGED <<bookVars, curveVars, positions, knockoutVars, sweep, depth>>
  BY <1>1, BoundsAssumption DEF PassTime, TypeOK
<1>3. TypeOK'
  BY <1>1, <1>2 DEF TypeOK, IsMerkle, bookVars, curveVars, knockoutVars
<1> QED BY <1>2, <1>3, BookUntouched DEF knockoutVars

\* A swap begins.
LEMMA SweepBeginInv ==
    ASSUME BookInv, NEW dir \in {"buy", "sell"}, SweepBegin(dir)
    PROVE  BookInv'
<1>1. TypeOK
  BY DEF BookInv, WordInv
<1>2. /\ sweep' = dir
      /\ UNCHANGED <<bookVars, curveVars, positions, knockoutVars, now, depth>>
  BY DEF SweepBegin
<1>3. TypeOK'
  BY <1>1, <1>2 DEF TypeOK, IsMerkle, bookVars, curveVars, knockoutVars
<1> QED BY <1>2, <1>3, BookUntouched DEF knockoutVars

-----------------------------------------------------------------------------
(***************************************************************************)
(* Knockout orders.                                                        *)
(***************************************************************************)
\* A pivot hangs at one end of its order, and its key gives the order back.
LEMMA PivotEnds ==
    ASSUME NEW k \in KoLocs
    PROVE  /\ PivotKey(k) \in PivotKeys
           /\ PivotKey(k)[1] = k.isBid
           /\ PivotKey(k)[2] = IF k.isBid THEN k.lower ELSE k.upper
           /\ PivotKey(k)[2] \in {k.lower, k.upper}
           /\ TickRange(k) \in Nat \ {0}
           /\ PivotLower(PivotKey(k), TickRange(k)) = k.lower
           /\ PivotUpper(PivotKey(k), TickRange(k)) = k.upper
<1>1. /\ k.lower \in Ticks /\ k.upper \in Ticks /\ k.lower < k.upper
      /\ k.lower \in Int /\ k.upper \in Int /\ k.isBid \in BOOLEAN
  BY LocFacts, TickAssumption DEF Ticks
<1>2. TickRange(k) \in Nat \ {0}
  BY <1>1 DEF TickRange
<1>3. /\ PivotKey(k) = <<k.isBid, KnockoutTick(k)>>
      /\ KnockoutTick(k) = IF k.isBid THEN k.lower ELSE k.upper
  BY DEF PivotKey, KnockoutTick
<1>4. PivotKey(k) \in PivotKeys
  BY <1>1, <1>3 DEF PivotKeys
<1>5. PivotKey(k)[1] = k.isBid /\ PivotKey(k)[2] = KnockoutTick(k)
  BY <1>3
<1>6. /\ PivotLower(PivotKey(k), TickRange(k)) = k.lower
      /\ PivotUpper(PivotKey(k), TickRange(k)) = k.upper
  BY <1>1, <1>3, <1>5 DEF PivotLower, PivotUpper, TickRange
<1> QED BY <1>1, <1>2, <1>3, <1>4, <1>5, <1>6

\* The flags and the pivots after one pivot has changed.
LEMMA FlagsFollow ==
    ASSUME FlagMatchesPivot, NEW key \in PivotKeys, NEW pivot, NEW set \in BOOLEAN,
           pivots \in [PivotKeys -> Pivots],
           pivots' = [pivots EXCEPT ![key] = pivot],
           pivot.time # 0 <=> set,
           \A t \in Ticks :
              /\ HasKnockoutLiq(levels'[t].bid)
                   <=> IF key[1] /\ t = key[2] THEN set ELSE HasKnockoutLiq(levels[t].bid)
              /\ HasKnockoutLiq(levels'[t].ask)
                   <=> IF ~key[1] /\ t = key[2] THEN set ELSE HasKnockoutLiq(levels[t].ask)
    PROVE  FlagMatchesPivot'
<1>1. ASSUME NEW t \in Ticks
      PROVE  HasKnockoutLiq(levels'[t].bid) <=> pivots'[<<TRUE, t>>].time # 0
  <2>1. <<TRUE, t>> \in PivotKeys
    BY DEF PivotKeys
  <2>2. CASE key[1] /\ t = key[2]
    <3>1. key = <<TRUE, t>>
      BY <2>2, KeySides DEF PivotKeys
    <3>2. pivots'[<<TRUE, t>>] = pivot
      BY <2>1, <3>1
    <3> QED BY <2>2, <3>2
  <2>3. CASE ~(key[1] /\ t = key[2])
    <3>1. key # <<TRUE, t>>
      BY <2>3, KeySides DEF PivotKeys
    <3>2. pivots'[<<TRUE, t>>] = pivots[<<TRUE, t>>]
      BY <2>1, <3>1
    <3> QED BY <2>3, <3>2 DEF FlagMatchesPivot
  <2> QED BY <2>2, <2>3
<1>2. ASSUME NEW t \in Ticks
      PROVE  HasKnockoutLiq(levels'[t].ask) <=> pivots'[<<FALSE, t>>].time # 0
  <2>1. <<FALSE, t>> \in PivotKeys
    BY DEF PivotKeys
  <2>2. CASE ~key[1] /\ t = key[2]
    <3>1. key = <<FALSE, t>>
      BY <2>2, KeySides DEF PivotKeys
    <3>2. pivots'[<<FALSE, t>>] = pivot
      BY <2>1, <3>1
    <3> QED BY <2>2, <3>2
  <2>3. CASE ~(~key[1] /\ t = key[2])
    <3>1. key # <<FALSE, t>>
      BY <2>3, KeySides DEF PivotKeys
    <3>2. pivots'[<<FALSE, t>>] = pivots[<<FALSE, t>>]
      BY <2>1, <3>1
    <3> QED BY <2>3, <3>2 DEF FlagMatchesPivot
  <2> QED BY <2>2, <2>3
<1> QED BY <1>1, <1>2 DEF FlagMatchesPivot

\* The range of a pivot, without the variables.
RangeFits(key, width) ==
    width > 0 /\ PivotLower(key, width) >= MinTick /\ PivotUpper(key, width) <= MaxTick

\* A pivot that is replaced by a well-formed one leaves all of them so.
LEMMA ShapeFollows ==
    ASSUME PivotShape, NEW key \in PivotKeys, NEW pivot \in Pivots,
           pivots \in [PivotKeys -> Pivots],
           pivots' = [pivots EXCEPT ![key] = pivot],
           pivot.lots % 2 = 0,
           pivot.time = 0 => pivot.lots = 0,
           pivot.time # 0 => RangeFits(key, pivot.width)
    PROVE  PivotShape'
<1>1. ASSUME NEW other \in PivotKeys
      PROVE  /\ pivots'[other].lots % 2 = 0
             /\ pivots'[other].time = 0 => pivots'[other].lots = 0
             /\ pivots'[other].time # 0 => RangeFits(other, pivots'[other].width)
  <2>1. CASE other = key
    <3>1. pivots'[other] = pivot
      BY <2>1
    <3> QED BY <2>1, <3>1
  <2>2. CASE other # key
    <3>1. pivots'[other] = pivots[other]
      BY <2>2
    <3> QED BY <3>1 DEF PivotShape, PivotRangeOkay, RangeFits
  <2> QED BY <2>1, <2>2
<1> QED BY <1>1 DEF PivotShape, PivotRangeOkay, RangeFits

\* Minting into a resting tranche, or opening one and raising its flag.
LEMMA MintKnockoutInv ==
    ASSUME BookInv, NEW o \in Owners, NEW k \in KoLocs, NEW lots \in LotSizes,
           NEW bits \in KoBits, MintKnockout(o, k, lots, bits)
    PROVE  BookInv'
<1> USE DEF BookInv, WordInv, DepthInv
<1> DEFINE l == k.lower
           u == k.upper
           key == PivotKey(k)
           fresh == pivots[key].lots = 0
           pivot == InjectPivot(pivots[key], k, lots, now)
           pos == koPos[<<o, k, pivot.time>>]
           clock == ClockAfterAdd(l, u, lots)
           added == AddBookLiq(levels, tick, l, u, lots, concGrowth)
<1>1. /\ l \in Ticks /\ u \in Ticks /\ l < u /\ lots \in Nat /\ lots % 2 = 0
      /\ key \in PivotKeys /\ key[2] \in {l, u}
  BY LocFacts, PivotEnds
<1>2. /\ levels \in Books /\ tick \in Int /\ concGrowth \in FeeWords
      /\ pivots \in [PivotKeys -> Pivots] /\ now \in Times /\ now # 0
      /\ pivots[key] \in Pivots
  BY <1>1, TickAssumption DEF TypeOK, Books, PriceTicks, Times
<1>3. /\ AddBookFits(levels, l, u, lots)
      /\ AddLotsFits(pivots[key].lots, lots)
      /\ pivots' = [pivots EXCEPT ![key] = pivot]
      /\ levels' = IF fresh THEN MarkPivot(added, key) ELSE added
      /\ census' = BookmarkTicks(census, levels, l, u)
      /\ concLiq' = BumpConcentrated(l, u, lots)
      /\ depth' = Stacked(depth, l, u, lots)
      /\ UNCHANGED <<tick, concGrowth, positions, merkles, now, sweep>>
  BY StackIsStacked DEF MintKnockout
<1>4. /\ added \in Books
      /\ \A t \in Ticks :
            /\ NetBump(added, t)
                 = NetBump(levels, t) + BidLots(l, t, lots) - AskLots(u, t, lots)
            /\ HasKnockoutLiq(added[t].bid) <=> HasKnockoutLiq(levels[t].bid)
            /\ HasKnockoutLiq(added[t].ask) <=> HasKnockoutLiq(levels[t].ask)
            /\ added[t].odo \in {levels[t].odo, concGrowth}
            /\ t \notin {l, u} => (IsActive(added[t]) <=> IsActive(levels[t]))
  <2> HIDE DEF l, u, BookInv, WordInv, DepthInv
  <2> QED BY <1>1, <1>2, <1>3, AddBookFacts
<1>5. ~fresh => pivots[key].time # 0
  BY <1>1 DEF PivotShape
<1>6. /\ levels' \in Books
      /\ \A t \in Ticks :
            /\ NetBump(levels', t)
                 = NetBump(levels, t) + BidLots(l, t, lots) - AskLots(u, t, lots)
            /\ HasKnockoutLiq(levels'[t].bid)
                 <=> IF key[1] /\ t = key[2] THEN TRUE ELSE HasKnockoutLiq(levels[t].bid)
            /\ HasKnockoutLiq(levels'[t].ask)
                 <=> IF ~key[1] /\ t = key[2] THEN TRUE ELSE HasKnockoutLiq(levels[t].ask)
            /\ levels'[t].odo \in {levels[t].odo, concGrowth}
            /\ t \notin {l, u} => (IsActive(levels'[t]) <=> IsActive(levels[t]))
  <2>1. CASE fresh
    <3>1. levels' = MarkPivot(added, key)
      BY <1>3, <2>1
    <3>2. key \in BOOLEAN \X Ticks
      BY <1>1 DEF PivotKeys
    <3> HIDE DEF l, u, key, added, fresh, BookInv, WordInv, DepthInv
    <3>3. /\ levels' \in Books
          /\ \A t \in Ticks :
                /\ NetBump(levels', t) = NetBump(added, t)
                /\ HasKnockoutLiq(levels'[t].bid)
                     <=> (HasKnockoutLiq(added[t].bid) \/ (key[1] /\ t = key[2]))
                /\ HasKnockoutLiq(levels'[t].ask)
                     <=> (HasKnockoutLiq(added[t].ask) \/ (~key[1] /\ t = key[2]))
                /\ levels'[t].odo = added[t].odo
                /\ t # key[2] => (IsActive(levels'[t]) <=> IsActive(added[t]))
      BY <1>4, <3>1, <3>2, MarkFacts
    <3> QED BY <1>1, <1>4, <3>3
  <2>2. CASE ~fresh
    <3>1. levels' = added
      BY <1>3, <2>2
    <3>2. \A t \in Ticks :
             /\ key[1] /\ t = key[2] => HasKnockoutLiq(levels[t].bid)
             /\ ~key[1] /\ t = key[2] => HasKnockoutLiq(levels[t].ask)
      <4>1. pivots[key].time # 0 /\ key \in BOOLEAN \X Ticks
        BY <1>1, <1>5, <2>2 DEF PivotKeys
      <4> HIDE DEF key
      <4> QED BY <4>1, KeySides DEF FlagMatchesPivot
    <3> HIDE DEF l, u, key, added, fresh, BookInv, WordInv, DepthInv
    <3> QED BY <1>4, <3>1, <3>2
  <2> QED BY <2>1, <2>2
<1>7. depth' \in [Ticks -> Int] /\ BookMatchesDepth' /\ DepthFlat'
  <2>1. Relaid(l, u, lots)
    BY <1>3, <1>6 DEF Relaid
  <2> QED BY <1>1, <2>1, RelaidDepth
<1>8. ActiveLiquidity'
  BY <1>1, <1>3, BumpActive
<1>9. /\ pivot \in Pivots /\ pivot.time # 0 /\ pivot.lots % 2 = 0
      /\ RangeFits(key, pivot.width)
  <2>1. TickRange(k) \in Nat \ {0} /\ RangeFits(key, TickRange(k))
    BY <1>1, PivotEnds, TickAssumption DEF RangeFits, Ticks
  <2>2. lots \in LotWords
    BY <1>1, SizesAssumption, LotLimitAssumption DEF IsLotSize, LotWords
  <2>3. CASE fresh
    <3>1. pivot = [lots |-> lots, time |-> now, width |-> TickRange(k)]
      BY <2>3 DEF InjectPivot
    <3> HIDE DEF pivot, key
    <3> QED BY <1>1, <1>2, <2>1, <2>2, <3>1 DEF Pivots
  <2>4. CASE ~fresh
    <3>1. pivot = [pivots[key] EXCEPT !.lots = @ + lots]
      BY <2>4 DEF InjectPivot
    <3>2. /\ pivots[key].lots \in LotWords /\ pivots[key].lots % 2 = 0
          /\ pivots[key].lots + lots \in LotWords
          /\ pivots[key].time # 0 /\ pivots[key].width = TickRange(k)
      <4>1. pivots[key].lots \in LotWords /\ pivots[key].lots % 2 = 0
        BY <1>1, <1>2 DEF Pivots, PivotShape
      <4>2. pivots[key].width = TickRange(k)
        BY <2>4 DEF MintKnockout, InjectFits
      <4>3. pivots[key].lots + lots < LotLimit
        BY <1>3 DEF AddLotsFits
      <4>4. pivots[key].lots + lots \in LotWords
        BY <1>1, <4>1, <4>3, LotLimitAssumption DEF LotWords
      <4> QED BY <1>5, <2>4, <4>1, <4>2, <4>4
    <3>3. (pivots[key].lots + lots) % 2 = 0
      BY <1>1, <3>2 DEF LotWords
    <3> HIDE DEF pivot, key
    <3> QED BY <1>2, <2>1, <3>1, <3>2, <3>3 DEF Pivots
  <2> QED BY <2>3, <2>4
<1>10. pivots' \in [PivotKeys -> Pivots]
  <2> HIDE DEF pivot, key
  <2> QED BY <1>2, <1>3, <1>9
<1>11. FlagMatchesPivot'
  <2> HIDE DEF pivot, key, l, u
  <2> QED BY <1>1, <1>2, <1>3, <1>6, <1>9, FlagsFollow
<1>12. PivotShape'
  <2> HIDE DEF pivot, key, l, u
  <2> QED BY <1>1, <1>2, <1>3, <1>9, ShapeFollows
<1>13. koPos' \in [KoKeys -> KoPositions]
  <2>1. pos \in KoPositions
    BY <1>9 DEF TypeOK, KoKeys, Pivots
  <2>2. clock \in FeeWords
    BY <1>1, <1>2, <1>4, ClockWord DEF ClockAfterAdd
  <2>3. InsertPosition(pos, lots, clock, now) \in KoPositions
    <3> DEFINE mileage == BlendMileage(clock, lots, pos.mileage, pos.lots)
    <3>1. InsertPosition(pos, lots, clock, now)
            = [lots |-> pos.lots + lots, mileage |-> mileage, stamp |-> now]
      BY DEF InsertPosition
    <3>2. mileage < FeeWord
      <4>1. InsertPosition(pos, lots, clock, now).mileage < FeeWord
        BY DEF MintKnockout
      <4> HIDE DEF mileage, pos, clock
      <4> QED BY <3>1, <4>1
    <3>3. mileage \in Nat /\ pos.lots + lots \in Nat
      <4>1. clock \in Nat /\ pos.mileage \in Nat /\ pos.lots \in Nat
        BY <2>1, <2>2 DEF KoPositions, FeeWords
      <4>2. lots \in Nat
        BY <1>1
      <4> HIDE DEF clock, pos
      <4>3. BlendMileage(clock, lots, pos.mileage, pos.lots) \in Nat
        BY <4>1, <4>2, BlendNat
      <4> QED BY <4>1, <4>2, <4>3
    <3>4. mileage \in FeeWords
      <4> HIDE DEF mileage
      <4> QED BY <3>2, <3>3, FeeWordAssumption DEF FeeWords
    <3> HIDE DEF mileage, pos, clock
    <3> QED BY <1>2, <3>1, <3>3, <3>4 DEF KoPositions
  <2>4. koPos' = [koPos EXCEPT ![<<o, k, pivot.time>>] = InsertPosition(pos, lots, clock, now)]
    BY DEF MintKnockout
  <2> HIDE DEF pos, clock, pivot
  <2> QED BY <2>3, <2>4 DEF TypeOK
<1>14. TypeOK'
  <2>1. census' \subseteq Ticks
    BY <1>1, <1>3 DEF TypeOK, BookmarkTicks
  <2>2. concLiq' \in Nat
    BY <1>1, <1>3 DEF TypeOK, BumpConcentrated
  <2> QED BY <1>3, <1>6, <1>7, <1>10, <1>13, <2>1, <2>2 DEF TypeOK, Books, IsMerkle
<1>15. OdometerBounded'
  BY <1>2, <1>3, <1>6 DEF OdometerBounded, FeeWords
<1>16. BookmarkCoversLots'
  BY <1>1, <1>3, <1>6 DEF BookmarkCoversLots, BookmarkTicks
<1> QED BY <1>7, <1>8, <1>11, <1>12, <1>14, <1>15, <1>16

\* Taking off the book what a pivot or a position holds, after its flag was
\* cleared, if it was to be.
LEMMA CutAfterUnmark ==
    ASSUME TypeOK, NEW base \in Books, NEW mid \in Books, NEW key \in PivotKeys,
           NEW l \in Ticks, NEW u \in Ticks, l < u, key[2] \in {l, u},
           NEW lots \in Nat, lots % 2 = 0, NEW clears \in BOOLEAN,
           mid = IF clears THEN UnmarkPivot(base, key) ELSE base,
           RemoveBookFits(mid, l, u, lots),
           levels' = RemoveBookLiq(mid, l, u, lots),
           \A t \in Ticks : /\ NetBump(base, t) = NetBump(levels, t)
                            /\ IsActive(base[t]) <=> IsActive(levels[t])
    PROVE  /\ levels' \in Books
           /\ \A t \in Ticks :
                 /\ NetBump(levels', t)
                      = NetBump(levels, t) - BidLots(l, t, lots) + AskLots(u, t, lots)
                 /\ HasKnockoutLiq(levels'[t].bid)
                      <=> IF clears /\ key[1] /\ t = key[2] THEN FALSE
                          ELSE HasKnockoutLiq(base[t].bid)
                 /\ HasKnockoutLiq(levels'[t].ask)
                      <=> IF clears /\ ~key[1] /\ t = key[2] THEN FALSE
                          ELSE HasKnockoutLiq(base[t].ask)
                 /\ levels'[t].odo \in {base[t].odo, 0}
                 /\ t \notin {l, u} => (IsActive(levels'[t]) <=> IsActive(levels[t]))
                 /\ IsActive(levels'[t]) => IsActive(levels[t])
                 /\ t \in EmptiedTicks(mid, l, u, lots) => ~IsActive(levels'[t])
<1>1. \A t \in Ticks :
         /\ NetBump(mid, t) = NetBump(base, t)
         /\ HasKnockoutLiq(mid[t].bid)
              <=> IF clears /\ key[1] /\ t = key[2] THEN FALSE ELSE HasKnockoutLiq(base[t].bid)
         /\ HasKnockoutLiq(mid[t].ask)
              <=> IF clears /\ ~key[1] /\ t = key[2] THEN FALSE ELSE HasKnockoutLiq(base[t].ask)
         /\ mid[t].odo = base[t].odo
         /\ t \notin {l, u} => (IsActive(mid[t]) <=> IsActive(base[t]))
         /\ IsActive(mid[t]) => IsActive(base[t])
  <2>1. CASE clears
    <3>1. key \in BOOLEAN \X Ticks /\ mid = UnmarkPivot(base, key)
      BY <2>1 DEF PivotKeys
    <3>2. \A t \in Ticks :
             /\ NetBump(mid, t) = NetBump(base, t)
             /\ HasKnockoutLiq(mid[t].bid)
                  <=> (HasKnockoutLiq(base[t].bid) /\ ~(key[1] /\ t = key[2]))
             /\ HasKnockoutLiq(mid[t].ask)
                  <=> (HasKnockoutLiq(base[t].ask) /\ ~(~key[1] /\ t = key[2]))
             /\ mid[t].odo = base[t].odo
             /\ t # key[2] => (IsActive(mid[t]) <=> IsActive(base[t]))
             /\ IsActive(mid[t]) => IsActive(base[t])
      BY <3>1, UnmarkFacts
    <3> QED BY <2>1, <3>2
  <2>2. CASE ~clears
    BY <2>2
  <2> QED BY <2>1, <2>2
<1>2. /\ levels' \in Books
      /\ \A t \in Ticks :
            /\ NetBump(levels', t)
                 = NetBump(mid, t) - BidLots(l, t, lots) + AskLots(u, t, lots)
            /\ HasKnockoutLiq(levels'[t].bid) <=> HasKnockoutLiq(mid[t].bid)
            /\ HasKnockoutLiq(levels'[t].ask) <=> HasKnockoutLiq(mid[t].ask)
            /\ levels'[t].odo \in {mid[t].odo, 0}
            /\ t \notin {l, u} => (IsActive(levels'[t]) <=> IsActive(mid[t]))
            /\ IsActive(levels'[t]) => IsActive(mid[t])
            /\ t \in EmptiedTicks(mid, l, u, lots) => ~IsActive(levels'[t])
  BY RemoveBookFacts
<1> QED BY <1>1, <1>2

\* Burning out of a tranche, or closing it and lowering its flag.
LEMMA BurnKnockoutInv ==
    ASSUME BookInv, NEW o \in Owners, NEW k \in KoLocs, NEW lots \in LotSizes,
           BurnKnockout(o, k, lots)
    PROVE  BookInv'
<1> USE DEF BookInv, WordInv, DepthInv
<1> DEFINE l == k.lower
           u == k.upper
           key == PivotKey(k)
           kills == lots = pivots[key].lots
           pivot == RecallPivot(pivots[key], lots)
           pos == koPos[<<o, k, pivots[key].time>>]
           mid == IF kills THEN UnmarkPivot(levels, key) ELSE levels
<1>1. /\ l \in Ticks /\ u \in Ticks /\ l < u /\ lots \in Nat /\ lots % 2 = 0
      /\ key \in PivotKeys /\ key[2] \in {l, u}
  BY LocFacts, PivotEnds
<1>2. /\ levels \in Books /\ concGrowth \in FeeWords
      /\ pivots \in [PivotKeys -> Pivots] /\ pivots[key] \in Pivots
  BY <1>1 DEF TypeOK, Books
<1>3. /\ lots <= pivots[key].lots /\ lots <= pos.lots
      /\ RemoveBookFits(mid, l, u, lots)
      /\ pivots' = [pivots EXCEPT ![key] = pivot]
      /\ levels' = RemoveBookLiq(mid, l, u, lots)
      /\ census' = census \ EmptiedTicks(mid, l, u, lots)
      /\ koPos' = [koPos EXCEPT ![<<o, k, pivots[key].time>>] = RemovePosition(pos, lots)]
      /\ concLiq' = BumpConcentrated(l, u, -lots) /\ concLiq' >= 0
      /\ depth' = Stacked(depth, l, u, -lots)
      /\ UNCHANGED <<tick, concGrowth, positions, merkles, now, sweep>>
  BY StackIsStacked DEF BurnKnockout
<1>4. mid \in Books
  <2>1. key \in BOOLEAN \X Ticks
    BY <1>1 DEF PivotKeys
  <2> HIDE DEF key
  <2> QED BY <1>2, <2>1, UnmarkFacts
<1>5. /\ levels' \in Books
      /\ \A t \in Ticks :
            /\ NetBump(levels', t)
                 = NetBump(levels, t) - BidLots(l, t, lots) + AskLots(u, t, lots)
            /\ HasKnockoutLiq(levels'[t].bid)
                 <=> IF kills /\ key[1] /\ t = key[2] THEN FALSE
                     ELSE HasKnockoutLiq(levels[t].bid)
            /\ HasKnockoutLiq(levels'[t].ask)
                 <=> IF kills /\ ~key[1] /\ t = key[2] THEN FALSE
                     ELSE HasKnockoutLiq(levels[t].ask)
            /\ levels'[t].odo \in {levels[t].odo, 0}
            /\ t \notin {l, u} => (IsActive(levels'[t]) <=> IsActive(levels[t]))
            /\ IsActive(levels'[t]) => IsActive(levels[t])
            /\ t \in EmptiedTicks(mid, l, u, lots) => ~IsActive(levels'[t])
  <2>1. kills \in BOOLEAN /\ mid = IF kills THEN UnmarkPivot(levels, key) ELSE levels
    OBVIOUS
  <2> HIDE DEF l, u, key, kills, mid, BookInv, WordInv, DepthInv
  <2>2. TypeOK
    BY DEF BookInv, WordInv
  <2> QED BY <1>1, <1>2, <1>3, <1>4, <2>1, <2>2, CutAfterUnmark
<1>6. depth' \in [Ticks -> Int] /\ BookMatchesDepth' /\ DepthFlat'
  <2>1. Relaid(l, u, -lots)
    <3> HIDE DEF l, u, key, kills, mid, BookInv, WordInv, DepthInv
    <3> QED BY <1>1, <1>2, <1>3, <1>5, RelaidCut
  <2> QED BY <1>1, <2>1, RelaidDepth
<1>7. ActiveLiquidity'
  BY <1>1, <1>3, BumpActive
<1>8. /\ pivot \in Pivots /\ pivot.lots % 2 = 0
      /\ pivot.time # 0 <=> ~kills
      /\ pivot.time = 0 => pivot.lots = 0
      /\ pivot.time # 0 => RangeFits(key, pivot.width)
  <2>1. CASE kills
    <3>1. pivot = NoPivot
      BY <2>1 DEF RecallPivot
    <3>2. NoPivot \in Pivots /\ NoPivot.time = 0 /\ NoPivot.lots = 0
      BY LotLimitAssumption, BoundsAssumption DEF NoPivot, Pivots, LotWords, Times
    <3> HIDE DEF pivot
    <3> QED BY <2>1, <3>1, <3>2
  <2>2. CASE ~kills
    <3>1. pivot = [pivots[key] EXCEPT !.lots = @ - lots]
      BY <2>2 DEF RecallPivot
    <3>2. /\ pivots[key].lots \in LotWords /\ pivots[key].lots % 2 = 0
          /\ pivots[key].time # 0 /\ RangeFits(key, pivots[key].width)
      <4>1. pivots[key].lots \in LotWords
        BY <1>2 DEF Pivots
      <4>2. pivots[key].lots # 0
        BY <1>1, <1>3, <2>2, <4>1 DEF LotWords
      <4> QED BY <1>1, <4>1, <4>2 DEF PivotShape, PivotRangeOkay, RangeFits
    <3>3. /\ pivots[key].lots - lots \in LotWords
          /\ (pivots[key].lots - lots) % 2 = 0
      <4> DEFINE held == pivots[key].lots
      <4>1. held \in LotWords /\ held % 2 = 0 /\ lots <= held
        BY <1>3, <3>2
      <4>2. lots \in Nat /\ lots % 2 = 0
        BY <1>1
      <4> HIDE DEF held
      <4>3. held \in Nat /\ held <= LotLimit - 1
        BY <4>1, LotLimitAssumption DEF LotWords
      <4>4. held - lots \in LotWords
        BY <4>1, <4>2, <4>3, LotLimitAssumption DEF LotWords
      <4>5. (held - lots) % 2 = 0
        BY <4>1, <4>2, <4>3
      <4> QED BY <4>4, <4>5 DEF held
    <3> HIDE DEF pivot, key
    <3> QED BY <1>2, <2>2, <3>1, <3>2, <3>3 DEF Pivots
  <2> QED BY <2>1, <2>2
<1>9. pivots' \in [PivotKeys -> Pivots]
  <2> HIDE DEF pivot, key
  <2> QED BY <1>2, <1>3, <1>8
<1>10. FlagMatchesPivot'
  <2>1. CASE kills
    <3>1. \A t \in Ticks :
             /\ HasKnockoutLiq(levels'[t].bid)
                  <=> IF key[1] /\ t = key[2] THEN FALSE ELSE HasKnockoutLiq(levels[t].bid)
             /\ HasKnockoutLiq(levels'[t].ask)
                  <=> IF ~key[1] /\ t = key[2] THEN FALSE ELSE HasKnockoutLiq(levels[t].ask)
      <4> HIDE DEF kills, key, mid
      <4> QED BY <1>5, <2>1
    <3> HIDE DEF pivot, key, kills
    <3> QED BY <1>1, <1>2, <1>3, <1>8, <2>1, <3>1, FlagsFollow
  <2>2. CASE ~kills
    <3>1. pivots[key].time # 0 /\ key \in BOOLEAN \X Ticks
      <4>1. pivot = [pivots[key] EXCEPT !.lots = @ - lots]
        BY <2>2 DEF RecallPivot
      <4> HIDE DEF pivot, key
      <4> QED BY <1>1, <1>2, <1>8, <2>2, <4>1 DEF Pivots, PivotKeys
    <3>2. \A t \in Ticks :
             /\ HasKnockoutLiq(levels'[t].bid)
                  <=> IF key[1] /\ t = key[2] THEN TRUE ELSE HasKnockoutLiq(levels[t].bid)
             /\ HasKnockoutLiq(levels'[t].ask)
                  <=> IF ~key[1] /\ t = key[2] THEN TRUE ELSE HasKnockoutLiq(levels[t].ask)
      <4>1. \A t \in Ticks :
               /\ key[1] /\ t = key[2] => HasKnockoutLiq(levels[t].bid)
               /\ ~key[1] /\ t = key[2] => HasKnockoutLiq(levels[t].ask)
        <5> HIDE DEF key
        <5> QED BY <3>1, KeySides DEF FlagMatchesPivot
      <4> HIDE DEF kills, key, mid
      <4> QED BY <1>5, <2>2, <4>1
    <3> HIDE DEF pivot, key, kills
    <3> QED BY <1>1, <1>2, <1>3, <1>8, <2>2, <3>2, FlagsFollow
  <2> QED BY <2>1, <2>2
<1>11. PivotShape'
  <2> HIDE DEF pivot, key, l, u
  <2> QED BY <1>1, <1>2, <1>3, <1>8, ShapeFollows
<1>12. koPos' \in [KoKeys -> KoPositions]
  <2>1. pos \in KoPositions
    BY <1>2 DEF TypeOK, KoKeys, Pivots
  <2>2. RemovePosition(pos, lots) \in KoPositions
    <3>1. CASE lots = pos.lots
      BY <3>1, ClosedPosition DEF RemovePosition
    <3>2. CASE lots # pos.lots
      <4>1. pos.lots \in Nat
        BY <2>1 DEF KoPositions
      <4> HIDE DEF pos
      <4>2. pos.lots - lots \in Nat
        BY <1>1, <1>3, <4>1
      <4> QED BY <2>1, <3>2, <4>2 DEF RemovePosition, KoPositions
    <3> QED BY <3>1, <3>2
  <2> HIDE DEF pos, key
  <2> QED BY <1>3, <2>2 DEF TypeOK
<1>13. TypeOK'
  <2>1. census' \subseteq Ticks
    BY <1>3 DEF TypeOK
  <2>2. concLiq' \in Nat
    BY <1>1, <1>3 DEF TypeOK, BumpConcentrated
  <2> QED BY <1>3, <1>5, <1>6, <1>9, <1>12, <2>1, <2>2 DEF TypeOK, Books, IsMerkle
<1>14. OdometerBounded'
  BY <1>2, <1>3, <1>5 DEF OdometerBounded, FeeWords
<1>15. BookmarkCoversLots'
  <2> HIDE DEF mid, l, u
  <2> QED BY <1>3, <1>5 DEF BookmarkCoversLots
<1> QED BY <1>6, <1>7, <1>10, <1>11, <1>13, <1>14, <1>15

-----------------------------------------------------------------------------
(***************************************************************************)
(* The legs of a swap.                                                     *)
(***************************************************************************)
LEMMA SweepTypes ==
    ASSUME BookInv, NEW g \in FeeSteps, LegFees(g)
    PROVE  /\ levels \in Books /\ depth \in [Ticks -> Int] /\ tick \in Ticks /\ tick \in Int
           /\ concGrowth \in Nat /\ concLiq \in Nat /\ g \in Nat
           /\ concGrowth + g \in FeeWords /\ concGrowth <= concGrowth + g
<1>1. g \in Nat
  BY BoundsAssumption
<1>2. /\ levels \in Books /\ depth \in [Ticks -> Int] /\ concLiq \in Nat
      /\ concGrowth \in Nat /\ concGrowth + g <= MaxGrowth
  BY FeeWordAssumption DEF BookInv, WordInv, TypeOK, Books, FeeWords, LegFees
<1>3. tick \in Ticks /\ tick \in Int
  BY TickAssumption DEF BookInv, WordInv, TypeOK, PriceTicks, Ticks
<1> QED BY <1>1, <1>2, <1>3, BoundsAssumption, FeeWordAssumption DEF FeeWords

\* The last leg of a swap moves the price over flat depth only.
LEMMA SweepEndInv ==
    ASSUME BookInv, NEW t \in PriceTicks, NEW g \in FeeSteps, SweepEnd(t, g)
    PROVE  BookInv'
<1> USE DEF BookInv, WordInv, DepthInv
<1>1. /\ ShortOfBump(t) /\ tick' = t /\ concGrowth' = concGrowth + g
      /\ LegFees(g) /\ sweep' = "idle" /\ sweep \in {"buy", "sell"}
      /\ UNCHANGED <<levels, census, concLiq, positions, pivots, merkles, koPos, now, depth>>
  BY DEF SweepEnd, bookVars, knockoutVars, TypeOK
<1>2. /\ levels \in Books /\ tick \in Ticks /\ tick \in Int /\ concGrowth \in Nat /\ g \in Nat
      /\ concGrowth + g \in FeeWords /\ concGrowth <= concGrowth + g
  BY <1>1, SweepTypes
<1>3. t \in Ticks
  BY TickAssumption DEF PriceTicks, Ticks
<1>4. ActiveLiquidity'
  <2>1. depth[tick] = depth[t]
    <3>1. CASE sweep = "buy"
      <4>1. \A v \in Ticks : (tick < v /\ v <= t) => ~IsActive(levels[v])
        BY <1>1, <1>2, <1>3, <3>1, TickAssumption
           DEF ShortOfBump, Ahead, BookmarkCoversLots, Ticks
      <4>2. tick <= t
        BY <1>1, <3>1 DEF ShortOfBump
      <4> QED BY <1>2, <1>3, <4>1, <4>2 DEF DepthFlat, Flat
    <3>2. CASE sweep = "sell"
      <4>1. \A v \in Ticks : (t < v /\ v <= tick) => ~IsActive(levels[v])
        BY <1>1, <1>2, <1>3, <3>2, TickAssumption
           DEF ShortOfBump, Ahead, BookmarkCoversLots, Ticks
      <4>2. t <= tick
        BY <1>1, <3>2 DEF ShortOfBump
      <4> QED BY <1>2, <1>3, <4>1, <4>2 DEF DepthFlat, Flat
    <3> QED BY <1>1, <3>1, <3>2
  <2> QED BY <1>1, <2>1 DEF ActiveLiquidity
<1>5. TypeOK'
  BY <1>1, <1>2 DEF TypeOK, IsMerkle
<1>6. OdometerBounded'
  <2>1. \A v \in Ticks : levels[v].odo \in Nat
    BY <1>2, FeeWordAssumption DEF Books, Levels, FeeWords
  <2>2. \A v \in Ticks : levels[v].odo <= concGrowth
    BY DEF OdometerBounded
  <2>3. \A v \in Ticks : levels[v].odo <= concGrowth + g
    <3> HIDE DEF BookInv, WordInv, DepthInv
    <3> QED BY <1>2, <2>1, <2>2
  <2> QED BY <1>1, <2>3 DEF OdometerBounded
<1>7. FlagMatchesPivot' /\ PivotShape' /\ BookMatchesDepth' /\ DepthFlat' /\ BookmarkCoversLots'
  BY <1>1 DEF FlagMatchesPivot, PivotShape, PivotRangeOkay, BookMatchesDepth, DepthBelow,
              DepthFlat, Flat, BookmarkCoversLots
<1> QED BY <1>4, <1>5, <1>6, <1>7

\* The bump of the crossed level takes the liquidity of the curve to that of
\* the far side: nothing lies between the price and its next bump.
LEMMA RollOverActive ==
    ASSUME BookInv, NEW b \in Ticks, NEW g \in FeeSteps, sweep \in {"buy", "sell"},
           RollOver(b, g)
    PROVE  /\ tick' \in PriceTicks /\ concLiq' \in Nat
           /\ concLiq' = depth[tick'] /\ concGrowth' = concGrowth + g
           /\ tick' = IF sweep = "buy" THEN b ELSE b - 1
<1> USE DEF BookInv, WordInv, DepthInv
<1>1. /\ IsNextBump(b) /\ LegFees(g)
      /\ IF sweep = "buy" THEN b < MaxTick ELSE b > MinTick
      /\ concGrowth' = concGrowth + g
      /\ concLiq' = concLiq + CrossDelta(levels, b, sweep = "buy") /\ concLiq' >= 0
      /\ tick' = IF sweep = "buy" THEN b ELSE b - 1
  BY DEF RollOver, FarSide
<1>2. /\ levels \in Books /\ depth \in [Ticks -> Int] /\ tick \in Ticks /\ tick \in Int
      /\ concLiq \in Nat /\ concLiq = depth[tick]
  BY <1>1, SweepTypes DEF ActiveLiquidity
<1>3. tick' \in PriceTicks
  BY <1>1, TickAssumption DEF PriceTicks, Ticks
<1>4. b - 1 \in Ticks /\ b # MinTick
  <2>1. CASE sweep = "buy"
    BY <1>1, <1>2, <2>1, TickAssumption DEF IsNextBump, Ahead, Ticks
  <2>2. CASE sweep = "sell"
    BY <1>1, <2>2, TickAssumption DEF Ticks
  <2> QED BY <2>1, <2>2
<1>5. NetBump(levels, b) = depth[b] - depth[b - 1]
  BY <1>4 DEF BookMatchesDepth, DepthBelow
<1>6. NetBump(levels, b) \in Int /\ depth[b] \in Int /\ depth[b - 1] \in Int
  BY <1>2, <1>4, <1>5
<1>7. CASE sweep = "buy"
  <2>1. \A v \in Ticks : (tick < v /\ v <= b - 1) => ~IsActive(levels[v])
    BY <1>1, <1>2, <1>7, TickAssumption DEF IsNextBump, Ahead, BookmarkCoversLots, Ticks
  <2>2. tick <= b - 1
    BY <1>1, <1>2, <1>7, TickAssumption DEF IsNextBump, Ahead, Ticks
  <2>3. depth[tick] = depth[b - 1]
    BY <1>2, <1>4, <2>1, <2>2 DEF DepthFlat, Flat
  <2>4. concLiq' = concLiq + NetBump(levels, b)
    BY <1>1, <1>7 DEF CrossDelta
  <2>5. concLiq' = depth[b] /\ concLiq' \in Int
    BY <1>2, <1>5, <1>6, <2>3, <2>4
  <2> QED BY <1>1, <1>3, <1>7, <2>5
<1>8. CASE sweep = "sell"
  <2>1. \A v \in Ticks : (b < v /\ v <= tick) => ~IsActive(levels[v])
    BY <1>1, <1>2, <1>8, TickAssumption DEF IsNextBump, Ahead, BookmarkCoversLots, Ticks
  <2>2. b <= tick
    BY <1>1, <1>8 DEF IsNextBump, Ahead
  <2>3. depth[b] = depth[tick]
    BY <1>2, <2>1, <2>2 DEF DepthFlat, Flat
  <2>4. concLiq' = concLiq + (-NetBump(levels, b))
    BY <1>1, <1>8 DEF CrossDelta
  <2>5. concLiq' = depth[b - 1] /\ concLiq' \in Int
    BY <1>2, <1>5, <1>6, <2>3, <2>4
  <2> QED BY <1>1, <1>3, <1>8, <2>5
<1> QED BY <1>7, <1>8

\* A crossing without a knockout adds the net bump and flips the odometer.
LEMMA SweepCrossInv ==
    ASSUME BookInv, NEW b \in Ticks, NEW g \in FeeSteps, SweepCross(b, g)
    PROVE  BookInv'
<1> USE DEF BookInv, WordInv, DepthInv
<1>1. /\ sweep \in {"buy", "sell"} /\ RollOver(b, g) /\ LegFees(g)
      /\ levels' = CrossLevel(levels, b, concGrowth + g)
      /\ UNCHANGED <<census, positions, pivots, merkles, koPos, now, sweep, depth>>
  BY DEF SweepCross, RollOver, knockoutVars, TypeOK
<1>2. /\ levels \in Books /\ concGrowth \in Nat /\ g \in Nat /\ depth \in [Ticks -> Int]
      /\ concGrowth + g \in FeeWords /\ concGrowth <= concGrowth + g
  BY <1>1, SweepTypes
<1>3. /\ tick' \in PriceTicks /\ concLiq' \in Nat
      /\ concLiq' = depth[tick'] /\ concGrowth' = concGrowth + g
  BY <1>1, RollOverActive
<1>4. \A t \in Ticks : levels[t].odo \in Nat /\ levels[t].odo <= concGrowth + g
  <2>1. \A t \in Ticks : levels[t].odo \in Nat
    BY <1>2, FeeWordAssumption DEF Books, Levels, FeeWords
  <2>2. \A t \in Ticks : levels[t].odo <= concGrowth
    BY DEF OdometerBounded
  <2> HIDE DEF BookInv, WordInv, DepthInv
  <2> QED BY <1>2, <2>1, <2>2
<1>5. /\ levels' \in Books
      /\ \A t \in Ticks :
            /\ NetBump(levels', t) = NetBump(levels, t)
            /\ HasKnockoutLiq(levels'[t].bid) <=> HasKnockoutLiq(levels[t].bid)
            /\ HasKnockoutLiq(levels'[t].ask) <=> HasKnockoutLiq(levels[t].ask)
            /\ levels'[t].odo = levels[t].odo \/ levels'[t].odo <= concGrowth + g
            /\ IsActive(levels'[t]) <=> IsActive(levels[t])
  <2> HIDE DEF BookInv, WordInv, DepthInv
  <2> QED BY <1>1, <1>2, <1>4, CrossFacts
<1>6. TypeOK'
  BY <1>1, <1>2, <1>3, <1>5 DEF TypeOK, Books, IsMerkle
<1>7. OdometerBounded'
  BY <1>3, <1>4, <1>5 DEF OdometerBounded
<1>8. FlagMatchesPivot' /\ PivotShape'
  BY <1>1, <1>5 DEF FlagMatchesPivot, PivotShape, PivotRangeOkay
<1>9. BookMatchesDepth' /\ DepthFlat' /\ BookmarkCoversLots'
  BY <1>1, <1>5 DEF BookMatchesDepth, DepthBelow, DepthFlat, Flat, BookmarkCoversLots
<1>10. ActiveLiquidity'
  BY <1>1, <1>3 DEF ActiveLiquidity
<1> QED BY <1>6, <1>7, <1>8, <1>9, <1>10

\* A crossing with a knockout: the bump is applied with the pivot still on the
\* book, then the pivot comes off the book on the side the price has left.
LEMMA SweepKnockoutInv ==
    ASSUME BookInv, NEW b \in Ticks, NEW g \in FeeSteps, SweepKnockout(b, g)
    PROVE  BookInv'
<1> USE DEF BookInv, WordInv, DepthInv
<1> DEFINE key == <<sweep = "sell", b>>
           pivot == pivots[key]
           l == PivotLower(key, pivot.width)
           u == PivotUpper(key, pivot.width)
           flipped == CrossLevel(levels, b, concGrowth + g)
           crossed == UnmarkPivot(flipped, key)
           feeRange == ClockFeeOdometer(crossed, FarSide(b), l, u, concGrowth + g)
<1>1. /\ sweep \in {"buy", "sell"} /\ RollOver(b, g) /\ LegFees(g)
      /\ CrossFlag(levels, b, sweep = "buy")
      /\ RemoveBookFits(crossed, l, u, pivot.lots)
      /\ levels' = RemoveBookLiq(crossed, l, u, pivot.lots)
      /\ census' = census \ EmptiedTicks(crossed, l, u, pivot.lots)
      /\ merkles' = [merkles EXCEPT ![key] = CommitKnockout(merkles[key], pivot, feeRange)]
      /\ pivots' = [pivots EXCEPT ![key] = NoPivot]
      /\ depth' = Stacked(depth, l, u, -pivot.lots)
      /\ UNCHANGED <<positions, koPos, now, sweep>>
  BY StackIsStacked DEF SweepKnockout, RollOver, TypeOK
<1>2. /\ levels \in Books /\ concGrowth \in Nat /\ g \in Nat /\ depth \in [Ticks -> Int]
      /\ concGrowth + g \in FeeWords /\ concGrowth <= concGrowth + g
  BY <1>1, SweepTypes
<1>3. /\ tick' \in PriceTicks /\ concLiq' \in Nat
      /\ concLiq' = depth[tick'] /\ concGrowth' = concGrowth + g
      /\ tick' = IF sweep = "buy" THEN b ELSE b - 1
  BY <1>1, RollOverActive
<1>4. /\ key \in PivotKeys /\ key \in BOOLEAN \X Ticks /\ key[2] = b
      /\ key[1] <=> sweep = "sell"
  BY DEF PivotKeys
<1>5. pivots \in [PivotKeys -> Pivots] /\ pivot \in Pivots
  BY <1>4 DEF TypeOK
\* The flag is up, so a tranche rests here and its range is on the book.
<1>6. pivot.time # 0
  <2>1. CASE sweep = "sell"
    <3>1. HasKnockoutLiq(levels[b].bid) /\ key = <<TRUE, b>>
      BY <1>1, <2>1 DEF CrossFlag
    <3> QED BY <3>1 DEF FlagMatchesPivot
  <2>2. CASE sweep = "buy"
    <3>1. HasKnockoutLiq(levels[b].ask) /\ key = <<FALSE, b>>
      BY <1>1, <2>2 DEF CrossFlag
    <3> QED BY <3>1 DEF FlagMatchesPivot
  <2> QED BY <1>1, <2>1, <2>2
<1>7. /\ pivot.lots \in Nat /\ pivot.lots % 2 = 0 /\ pivot.width \in Nat
      /\ pivot.width > 0 /\ l >= MinTick /\ u <= MaxTick
  <2>1. pivot.lots \in Nat /\ pivot.width \in Nat
    BY <1>5, LotLimitAssumption DEF Pivots, LotWords
  <2> HIDE DEF key
  <2> QED BY <1>4, <1>6, <2>1 DEF PivotShape, PivotRangeOkay
<1>8. /\ l \in Ticks /\ u \in Ticks /\ l < u /\ key[2] \in {l, u}
      /\ IF sweep = "sell" THEN l = b ELSE u = b
  <2>1. CASE sweep = "sell"
    <3>1. l = b /\ u = b + pivot.width
      BY <1>4, <2>1 DEF PivotLower, PivotUpper
    <3> HIDE DEF key, pivot, l, u
    <3> QED BY <1>4, <1>7, <2>1, <3>1, TickAssumption DEF Ticks
  <2>2. CASE sweep = "buy"
    <3>1. l = b - pivot.width /\ u = b
      BY <1>4, <2>2 DEF PivotLower, PivotUpper
    <3> HIDE DEF key, pivot, l, u
    <3> QED BY <1>4, <1>7, <2>2, <3>1, TickAssumption DEF Ticks
  <2> QED BY <1>1, <2>1, <2>2
<1>9. \A t \in Ticks : levels[t].odo \in Nat /\ levels[t].odo <= concGrowth + g
  <2>1. \A t \in Ticks : levels[t].odo \in Nat
    BY <1>2, FeeWordAssumption DEF Books, Levels, FeeWords
  <2>2. \A t \in Ticks : levels[t].odo <= concGrowth
    BY DEF OdometerBounded
  <2> HIDE DEF BookInv, WordInv, DepthInv
  <2> QED BY <1>2, <2>1, <2>2
<1>10. /\ flipped \in Books
       /\ \A t \in Ticks :
             /\ NetBump(flipped, t) = NetBump(levels, t)
             /\ HasKnockoutLiq(flipped[t].bid) <=> HasKnockoutLiq(levels[t].bid)
             /\ HasKnockoutLiq(flipped[t].ask) <=> HasKnockoutLiq(levels[t].ask)
             /\ flipped[t].odo = levels[t].odo \/ flipped[t].odo <= concGrowth + g
             /\ IsActive(flipped[t]) <=> IsActive(levels[t])
  <2> HIDE DEF BookInv, WordInv, DepthInv
  <2> QED BY <1>2, <1>9, CrossFacts
<1>11. crossed \in Books
  <2> HIDE DEF key, flipped
  <2> QED BY <1>4, <1>10, UnmarkFacts
<1>12. /\ levels' \in Books
       /\ \A t \in Ticks :
             /\ NetBump(levels', t)
                  = NetBump(levels, t) - BidLots(l, t, pivot.lots) + AskLots(u, t, pivot.lots)
             /\ HasKnockoutLiq(levels'[t].bid)
                  <=> IF key[1] /\ t = key[2] THEN FALSE ELSE HasKnockoutLiq(levels[t].bid)
             /\ HasKnockoutLiq(levels'[t].ask)
                  <=> IF ~key[1] /\ t = key[2] THEN FALSE ELSE HasKnockoutLiq(levels[t].ask)
             /\ levels'[t].odo \in {flipped[t].odo, 0}
             /\ t \notin {l, u} => (IsActive(levels'[t]) <=> IsActive(levels[t]))
             /\ IsActive(levels'[t]) => IsActive(levels[t])
             /\ t \in EmptiedTicks(crossed, l, u, pivot.lots) => ~IsActive(levels'[t])
  <2> DEFINE clears == TRUE
  <2>1. clears \in BOOLEAN /\ crossed = IF clears THEN UnmarkPivot(flipped, key) ELSE flipped
    OBVIOUS
  <2>2. TypeOK
    OBVIOUS
  <2>3. /\ levels' \in Books
        /\ \A t \in Ticks :
              /\ NetBump(levels', t)
                   = NetBump(levels, t) - BidLots(l, t, pivot.lots) + AskLots(u, t, pivot.lots)
              /\ HasKnockoutLiq(levels'[t].bid)
                   <=> IF clears /\ key[1] /\ t = key[2] THEN FALSE
                       ELSE HasKnockoutLiq(flipped[t].bid)
              /\ HasKnockoutLiq(levels'[t].ask)
                   <=> IF clears /\ ~key[1] /\ t = key[2] THEN FALSE
                       ELSE HasKnockoutLiq(flipped[t].ask)
              /\ levels'[t].odo \in {flipped[t].odo, 0}
              /\ t \notin {l, u} => (IsActive(levels'[t]) <=> IsActive(levels[t]))
              /\ IsActive(levels'[t]) => IsActive(levels[t])
              /\ t \in EmptiedTicks(crossed, l, u, pivot.lots) => ~IsActive(levels'[t])
    <3> HIDE DEF key, pivot, l, u, flipped, crossed, clears, BookInv, WordInv, DepthInv
    <3> QED BY <1>1, <1>4, <1>7, <1>8, <1>10, <1>11, <2>1, <2>2, CutAfterUnmark
  <2> HIDE DEF key, pivot, l, u, flipped, crossed, BookInv, WordInv, DepthInv
  <2> QED BY <1>10, <2>3
<1>13. depth' \in [Ticks -> Int] /\ BookMatchesDepth' /\ DepthFlat'
  <2>1. Relaid(l, u, -pivot.lots)
    <3> HIDE DEF key, pivot, l, u, flipped, crossed, BookInv, WordInv, DepthInv
    <3> QED BY <1>1, <1>2, <1>7, <1>8, <1>12, RelaidCut
  <2>2. -pivot.lots \in Int
    BY <1>7
  <2> QED BY <1>8, <2>1, <2>2, RelaidDepth
\* The price has left the range of the order, so its going changes nothing.
<1>14. ActiveLiquidity'
  <2>1. tick' \in Ticks
    BY <1>3, TickAssumption DEF PriceTicks, Ticks
  <2>2. ~(l <= tick' /\ tick' < u)
    BY <1>1, <1>3, <1>8, TickAssumption DEF Ticks
  <2>3. depth'[tick'] = depth[tick']
    BY <1>1, <2>1, <2>2 DEF Stacked
  <2> QED BY <1>3, <2>3 DEF ActiveLiquidity
<1>15. NoPivot \in Pivots /\ NoPivot.time = 0 /\ NoPivot.lots = 0
  BY LotLimitAssumption, BoundsAssumption DEF NoPivot, Pivots, LotWords, Times
<1>16. pivots' \in [PivotKeys -> Pivots]
  <2> HIDE DEF key
  <2> QED BY <1>1, <1>5, <1>15
<1>17. FlagMatchesPivot'
  <2> HIDE DEF key, pivot
  <2> QED BY <1>1, <1>4, <1>5, <1>12, <1>15, FlagsFollow
<1>18. PivotShape'
  <2>1. NoPivot.lots % 2 = 0
    BY <1>15
  <2> HIDE DEF key, pivot
  <2> QED BY <1>1, <1>4, <1>5, <1>15, <2>1, ShapeFollows
<1>19. DOMAIN merkles' = PivotKeys /\ \A k \in PivotKeys : IsMerkle(merkles'[k])
  <2>1. feeRange \in FeeWords
    <3>1. FarSide(b) \in Int
      BY TickAssumption DEF FarSide, Ticks
    <3> HIDE DEF key, pivot, l, u, flipped, crossed
    <3> QED BY <1>2, <1>8, <1>11, <3>1, ClockWord
  <2>2. pivot.time \in Times
    BY <1>5 DEF Pivots
  <2>3. IsMerkle(merkles[key])
    BY <1>4 DEF TypeOK
  <2> DEFINE link == [time |-> merkles[key].time, mileage |-> merkles[key].mileage]
             links == [time : Times, mileage : FeeWords]
             commit == CommitKnockout(merkles[key], pivot, feeRange)
  <2>4. commit = [root |-> Append(merkles[key].root, link),
                  time |-> pivot.time, mileage |-> feeRange]
    BY DEF CommitKnockout
  <2>5. link \in links /\ merkles[key].root \in Seq(links)
    BY <2>3 DEF IsMerkle
  <2>6. Append(merkles[key].root, link) \in Seq(links)
    <3> HIDE DEF link, links
    <3> QED BY <2>5
  <2>7. IsMerkle(commit)
    <3> HIDE DEF commit, link, feeRange, pivot, key
    <3> QED BY <2>1, <2>2, <2>4, <2>6 DEF IsMerkle
  <2>8. merkles' = [merkles EXCEPT ![key] = commit]
    BY <1>1
  <2> HIDE DEF commit, key
  <2> QED BY <1>4, <2>7, <2>8 DEF TypeOK
<1>20. TypeOK'
  <2>1. census' \subseteq Ticks
    BY <1>1 DEF TypeOK
  <2>2. /\ concGrowth' \in FeeWords
        /\ positions' \in [RangeKeys -> Positions]
        /\ koPos' \in [KoKeys -> KoPositions]
        /\ now' \in 1 .. MaxTime /\ sweep' \in {"idle", "buy", "sell"}
    BY <1>1, <1>2, <1>3 DEF TypeOK
  <2> QED BY <1>3, <1>12, <1>13, <1>16, <1>19, <2>1, <2>2 DEF TypeOK, Books, IsMerkle
<1>21. OdometerBounded'
  <2>1. ASSUME NEW t \in Ticks
        PROVE  levels'[t].odo <= concGrowth + g
    <3>1. levels'[t].odo \in {flipped[t].odo, 0} /\ levels[t].odo <= concGrowth + g
      BY <1>9, <1>12
    <3>2. flipped[t].odo = levels[t].odo \/ flipped[t].odo <= concGrowth + g
      BY <1>10
    <3> HIDE DEF flipped, BookInv, WordInv, DepthInv
    <3> QED BY <1>2, <3>1, <3>2
  <2> QED BY <1>3, <2>1 DEF OdometerBounded
<1>22. BookmarkCoversLots'
  <2> HIDE DEF crossed, l, u, pivot
  <2> QED BY <1>1, <1>12 DEF BookmarkCoversLots
<1> QED BY <1>13, <1>14, <1>17, <1>18, <1>20, <1>21, <1>22

-----------------------------------------------------------------------------
(***************************************************************************)
(* Putting the steps together.                                             *)
(***************************************************************************)
LEMMA NextBookInv == BookInv /\ [Next]_vars => BookInv'
<1> SUFFICES ASSUME BookInv, [Next]_vars PROVE BookInv'
  OBVIOUS
<1>1. ASSUME NEW o \in Owners, NEW r \in RangeLocs,
             \/ \E lots \in LotSizes, offGrid \in BOOLEAN : MintRange(o, r, lots, offGrid)
             \/ MarkRange(o, r)
             \/ \E lots \in LotSizes : BurnRange(o, r, lots)
             \/ HarvestRange(o, r)
      PROVE  BookInv'
  BY <1>1, MintRangeInv, MarkRangeInv, BurnRangeInv, HarvestRangeInv
<1>2. ASSUME NEW o \in Owners, NEW k \in KoLocs,
             \/ \E lots \in LotSizes, bits \in KoBits : MintKnockout(o, k, lots, bits)
             \/ \E lots \in LotSizes : BurnKnockout(o, k, lots)
             \/ \E proven \in ProvableHistory(merkles[PivotKey(k)]) :
                   ClaimKnockout(o, k, proven)
             \/ \E pivotTime \in Times : RecoverKnockout(o, k, pivotTime)
      PROVE  BookInv'
  BY <1>2, MintKnockoutInv, BurnKnockoutInv, ClaimKnockoutInv, RecoverKnockoutInv
<1>3. CASE PassTime
  BY <1>3, PassTimeInv
<1>4. ASSUME NEW dir \in {"buy", "sell"}, SweepBegin(dir)
      PROVE  BookInv'
  BY <1>4, SweepBeginInv
<1>5. ASSUME NEW g \in FeeSteps,
             \/ \E t \in PriceTicks : SweepEnd(t, g)
             \/ \E b \in Ticks : SweepCross(b, g) \/ SweepKnockout(b, g)
      PROVE  BookInv'
  BY <1>5, SweepEndInv, SweepCrossInv, SweepKnockoutInv
<1>6. CASE UNCHANGED vars
  <2>1. TypeOK'
    BY <1>6 DEF BookInv, WordInv, vars, TypeOK, IsMerkle
  <2>2. UNCHANGED <<bookVars, curveVars, pivots, depth>>
    BY <1>6 DEF vars, bookVars, curveVars
  <2> QED BY <2>1, <2>2, BookUntouched
<1> QED BY <1>1, <1>2, <1>3, <1>4, <1>5, <1>6
        DEF Next, RangeNext, KnockoutNext, SweepNext

\* The strengthened invariant holds of every behaviour of the pool.
THEOREM BookInvariant == Spec => []BookInv
<1>1. Init => BookInv
  BY InitBookInv
<1>2. BookInv /\ [Next]_vars => BookInv'
  BY NextBookInv
<1> QED BY <1>1, <1>2, PTL DEF Spec

\* Every word stays within its width: no operation of the pool, in any order,
\* overflows a level, a mileage or a pivot or takes one below zero.
THEOREM TypeCorrect == Spec => []TypeOK
<1>1. BookInv => TypeOK
  BY DEF BookInv, WordInv
<1> QED BY <1>1, BookInvariant, PTL

\* The active liquidity of the curve is what live orders stack over the tick.
THEOREM LiquidityTracked == Spec => []ActiveLiquidity
<1>1. BookInv => ActiveLiquidity
  BY DEF BookInv, DepthInv
<1> QED BY <1>1, BookInvariant, PTL

\* The two sides of every level net out to the step of the depth at its tick.
THEOREM BookBalanced == Spec => []BookMatchesDepth
<1>1. BookInv => BookMatchesDepth
  BY DEF BookInv, DepthInv
<1> QED BY <1>1, BookInvariant, PTL

\* Every level in use is bookmarked, so no swap runs over one unseen.
THEOREM BookmarksComplete == Spec => []BookmarkCoversLots
<1>1. BookInv => BookmarkCoversLots
  BY DEF BookInv, DepthInv
<1> QED BY <1>1, BookInvariant, PTL

\* No odometer is ahead of the global counter.
THEOREM OdometersBehind == Spec => []OdometerBounded
<1>1. BookInv => OdometerBounded
  BY DEF BookInv, WordInv
<1> QED BY <1>1, BookInvariant, PTL

\* The flag in a lots word is up exactly while a tranche rests there.
THEOREM FlagsMatch == Spec => []FlagMatchesPivot
<1>1. BookInv => FlagMatchesPivot
  BY DEF BookInv, WordInv
<1> QED BY <1>1, BookInvariant, PTL

-----------------------------------------------------------------------------
(***************************************************************************)
(* The fee clock.  What a step does to the counter below one boundary, and *)
(* from two of these what it does to the clock of a range.                 *)
(***************************************************************************)

\* The counter of the fees below an active boundary moves by the growth booked
\* while the price was below it, also when the boundary itself is crossed.
FeesBelow(t) == PivotFeeBelow(levels, t, tick, concGrowth)
GrowthBelow(t) == IF t <= tick THEN 0 ELSE concGrowth' - concGrowth
BoundariesTrack ==
    \A t \in Ticks :
        (IsActive(levels[t]) /\ IsActive(levels'[t]))
        => FeesBelow(t)' = FeesBelow(t) + GrowthBelow(t)

\* A circular difference of two words is the plain one or a turn ahead of it.
LEMMA WordTurn ==
    ASSUME NEW a \in Int, -FeeWord < a, a < FeeWord
    PROVE  a % FeeWord = IF a < 0 THEN a + FeeWord ELSE a
BY FeeWordAssumption

\* Two boundaries that gain growth move their circular difference by it.
LEMMA ClockMoves ==
    ASSUME NEW lo \in FeeWords, NEW hi \in FeeWords, NEW gl \in FeeWords, NEW gu \in FeeWords,
           lo + gl \in FeeWords, hi + gu \in FeeWords, gl <= gu
    PROVE  ((((hi + gu) - (lo + gl)) % FeeWord) - ((hi - lo) % FeeWord)) % FeeWord = gu - gl
<1> DEFINE before == hi - lo
           after == (hi + gu) - (lo + gl)
           turned(a) == IF a < 0 THEN a + FeeWord ELSE a
<1>1. /\ before \in Int /\ -FeeWord < before /\ before < FeeWord
      /\ after \in Int /\ -FeeWord < after /\ after < FeeWord
      /\ after - before = gu - gl /\ gu - gl \in FeeWords
  BY FeeWordAssumption DEF FeeWords
<1>2. before % FeeWord = turned(before) /\ after % FeeWord = turned(after)
  <2> HIDE DEF before, after
  <2> QED BY <1>1, WordTurn
<1> DEFINE diff == turned(after) - turned(before)
<1>3. /\ diff \in Int /\ -FeeWord < diff /\ diff < FeeWord
      /\ turned(diff) = gu - gl
  <2> HIDE DEF before, after
  <2> QED BY <1>1, FeeWordAssumption DEF FeeWords
<1>4. diff % FeeWord = turned(diff)
  <2> HIDE DEF diff
  <2> QED BY <1>3, WordTurn
<1>5. ((after % FeeWord) - (before % FeeWord)) % FeeWord = gu - gl
  <2>1. (after % FeeWord) - (before % FeeWord) = diff
    BY <1>2
  <2> HIDE DEF before, after, diff, turned
  <2> QED BY <1>3, <1>4, <2>1
<1> QED BY <1>5

-----------------------------------------------------------------------------
\* A level that holds lots is not set up again.
LEMMA AddKeepsOdometers ==
    ASSUME NEW lvls \in Books, NEW mid \in Int, NEW fee \in FeeWords,
           NEW l \in Ticks, NEW u \in Ticks, l < u, NEW lots,
           NEW t \in Ticks, IsActive(lvls[t])
    PROVE  AddBookLiq(lvls, mid, l, u, lots, fee)[t].odo = lvls[t].odo
<1> DEFINE first == InitLevel(lvls, mid, l, fee)
           opened == InitLevel(first, mid, u, fee)
<1>1. /\ first \in Books /\ first[t].bid = lvls[t].bid /\ first[t].ask = lvls[t].ask
      /\ first[t].odo = lvls[t].odo
  BY InitLevelPoint DEF InitLevel, Books, Levels
<1>2. IsActive(first[t])
  BY <1>1 DEF IsActive
<1>3. opened \in Books /\ opened[t].odo = first[t].odo
  <2> HIDE DEF first
  <2>1. opened \in Books
    BY <1>1, InitLevelPoint
  <2>2. first[t] \in Levels
    BY <1>1 DEF Books
  <2>3. opened[t].odo = first[t].odo
    BY <1>1, <1>2, <2>2 DEF InitLevel, Books, Levels
  <2> QED BY <2>1, <2>3
<1>4. AddBookLiq(lvls, mid, l, u, lots, fee)[t].odo = opened[t].odo
  <2>1. AddBookLiq(lvls, mid, l, u, lots, fee)
          = [opened EXCEPT ![l].bid = @ + lots, ![u].ask = @ + lots]
    BY DEF AddBookLiq
  <2> HIDE DEF opened
  <2> QED BY <1>3, <2>1 DEF Books, Levels
<1> QED BY <1>1, <1>3, <1>4

\* A level that still holds lots is not deleted.
LEMMA RemoveKeepsOdometers ==
    ASSUME NEW lvls \in Books, NEW l, NEW u, NEW lots,
           NEW t \in Ticks, IsActive(RemoveBookLiq(lvls, l, u, lots)[t])
    PROVE  RemoveBookLiq(lvls, l, u, lots)[t].odo = lvls[t].odo
<1>1. t \notin EmptiedTicks(lvls, l, u, lots)
  BY DEF RemoveBookLiq, NoLevel, IsActive
<1>2. RemoveBookLiq(lvls, l, u, lots)[t] = CutBookLiq(lvls, l, u, lots)[t]
  BY <1>1 DEF RemoveBookLiq
<1>3. CutBookLiq(lvls, l, u, lots)[t].odo = lvls[t].odo
  BY DEF CutBookLiq, Books, Levels
<1> QED BY <1>2, <1>3

\* Where the price and the counter stand still, so do the boundaries.
LEMMA StillBoundaries ==
    ASSUME BookInv, UNCHANGED <<tick, concGrowth>>,
           \A t \in Ticks : (IsActive(levels[t]) /\ IsActive(levels'[t]))
                            => levels'[t].odo = levels[t].odo
    PROVE  BoundariesTrack
<1>1. levels \in Books /\ concGrowth \in Int
  BY FeeWordAssumption DEF BookInv, WordInv, TypeOK, Books, FeeWords
<1>2. \A t \in Ticks : levels[t].odo \in Int
  BY <1>1, FeeWordAssumption DEF Books, Levels, FeeWords
<1> QED BY <1>1, <1>2 DEF BoundariesTrack, FeesBelow, GrowthBelow, PivotFeeBelow

LEMMA OrderBoundaries ==
    ASSUME BookInv, RangeNext \/ KnockoutNext
    PROVE  BoundariesTrack
<1>1. /\ levels \in Books /\ tick \in Int /\ concGrowth \in FeeWords
      /\ pivots \in [PivotKeys -> Pivots]
  BY TickAssumption DEF BookInv, WordInv, TypeOK, Books, PriceTicks
<1>2. ASSUME NEW o \in Owners, NEW r \in RangeLocs, NEW lots \in LotSizes, NEW offGrid,
             MintRange(o, r, lots, offGrid)
      PROVE  BoundariesTrack
  <2>1. r.lower \in Ticks /\ r.upper \in Ticks /\ r.lower < r.upper
    BY LocFacts
  <2>2. /\ levels' = AddBookLiq(levels, tick, r.lower, r.upper, lots, concGrowth)
        /\ UNCHANGED <<tick, concGrowth>>
    BY <1>2 DEF MintRange, AddOrder
  <2> QED BY <1>1, <2>1, <2>2, AddKeepsOdometers, StillBoundaries
<1>3. ASSUME NEW o \in Owners, NEW r \in RangeLocs, NEW lots \in LotSizes,
             BurnRange(o, r, lots)
      PROVE  BoundariesTrack
  <2>2. /\ levels' = RemoveBookLiq(levels, r.lower, r.upper, lots)
        /\ UNCHANGED <<tick, concGrowth>>
    BY <1>3 DEF BurnRange
  <2> QED BY <1>1, <2>2, RemoveKeepsOdometers, StillBoundaries
<1>4. ASSUME NEW o \in Owners, NEW k \in KoLocs, NEW lots \in LotSizes, NEW bits,
             MintKnockout(o, k, lots, bits)
      PROVE  BoundariesTrack
  <2> DEFINE key == PivotKey(k)
             added == AddBookLiq(levels, tick, k.lower, k.upper, lots, concGrowth)
  <2>1. /\ k.lower \in Ticks /\ k.upper \in Ticks /\ k.lower < k.upper /\ lots \in Nat
        /\ key \in BOOLEAN \X Ticks
    BY LocFacts, PivotEnds DEF PivotKeys
  <2>2. /\ levels' = IF pivots[key].lots = 0 THEN MarkPivot(added, key) ELSE added
        /\ AddBookFits(levels, k.lower, k.upper, lots)
        /\ UNCHANGED <<tick, concGrowth>>
    BY <1>4 DEF MintKnockout
  <2>3. added \in Books
    BY <1>1, <2>1, <2>2, AddBookPoint
  <2>4. \A t \in Ticks : IsActive(levels[t]) => added[t].odo = levels[t].odo
    BY <1>1, <2>1, AddKeepsOdometers
  <2> HIDE DEF added, key
  <2>5. \A t \in Ticks : levels'[t].odo = added[t].odo
    BY <2>1, <2>2, <2>3, MarkPoint
  <2> QED BY <2>2, <2>4, <2>5, StillBoundaries
<1>5. ASSUME NEW o \in Owners, NEW k \in KoLocs, NEW lots \in LotSizes,
             BurnKnockout(o, k, lots)
      PROVE  BoundariesTrack
  <2> DEFINE key == PivotKey(k)
             unmarked == IF lots = pivots[key].lots THEN UnmarkPivot(levels, key) ELSE levels
  <2>1. key \in BOOLEAN \X Ticks
    BY LocFacts, PivotEnds DEF PivotKeys
  <2>2. /\ levels' = RemoveBookLiq(unmarked, k.lower, k.upper, lots)
        /\ UNCHANGED <<tick, concGrowth>>
    BY <1>5 DEF BurnKnockout
  <2>3. unmarked \in Books /\ \A t \in Ticks : unmarked[t].odo = levels[t].odo
    <3> HIDE DEF key
    <3> QED BY <1>1, <2>1, UnmarkPoint
  <2> HIDE DEF unmarked, key
  <2> QED BY <2>2, <2>3, RemoveKeepsOdometers, StillBoundaries
<1>6. CASE UNCHANGED <<levels, tick, concGrowth>>
  BY <1>6, StillBoundaries
<1>7. CASE RangeNext
  <2>1. ASSUME NEW o, NEW r, MarkRange(o, r) \/ HarvestRange(o, r)
        PROVE  UNCHANGED <<levels, tick, concGrowth>>
    BY <2>1 DEF MarkRange, HarvestRange, bookVars, curveVars
  <2> QED BY <1>2, <1>3, <1>6, <1>7, <2>1 DEF RangeNext
<1>8. CASE KnockoutNext
  <2>1. ASSUME NEW o, NEW k, NEW proven, ClaimKnockout(o, k, proven)
        PROVE  UNCHANGED <<levels, tick, concGrowth>>
    BY <2>1 DEF ClaimKnockout, bookVars, curveVars
  <2>2. ASSUME NEW o, NEW k, NEW time, RecoverKnockout(o, k, time)
        PROVE  UNCHANGED <<levels, tick, concGrowth>>
    BY <2>2 DEF RecoverKnockout, bookVars, curveVars
  <2> QED BY <1>4, <1>5, <1>6, <1>8, <2>1, <2>2 DEF KnockoutNext
<1> QED BY <1>7, <1>8

-----------------------------------------------------------------------------
\* A leg that ends short of every bookmark leaves each boundary on its side.
LEMMA SweepEndBoundaries ==
    ASSUME BookInv, NEW t \in PriceTicks, NEW g \in FeeSteps, SweepEnd(t, g)
    PROVE  BoundariesTrack
<1>1. /\ levels \in Books /\ tick \in Int /\ t \in Int /\ concGrowth \in Int /\ g \in Int
      /\ sweep \in {"buy", "sell"}
  BY TickAssumption, FeeWordAssumption, BoundsAssumption
     DEF BookInv, WordInv, TypeOK, Books, PriceTicks, FeeWords, SweepEnd
<1>2. ShortOfBump(t) /\ tick' = t /\ concGrowth' = concGrowth + g /\ levels' = levels
  BY DEF SweepEnd, bookVars
<1>3. ASSUME NEW s \in Ticks, IsActive(levels[s])
      PROVE  FeesBelow(s)' = FeesBelow(s) + GrowthBelow(s)
  <2>1. s \in census /\ s \in Int /\ levels[s].odo \in Int
    BY <1>1, <1>3, TickAssumption, FeeWordAssumption
       DEF BookInv, DepthInv, BookmarkCoversLots, Ticks, Books, Levels, FeeWords
  <2>2. s <= tick <=> s <= t
    BY <1>1, <1>2, <2>1 DEF ShortOfBump, Ahead
  <2> QED BY <1>1, <1>2, <2>1, <2>2 DEF FeesBelow, GrowthBelow, PivotFeeBelow
<1> QED BY <1>3 DEF BoundariesTrack

\* The odometer crossed becomes its complement, and no other moves.
LEMMA FlipOdometer ==
    ASSUME NEW lvls \in Books, NEW b \in Ticks, NEW fee \in Int
    PROVE  /\ fee # lvls[b].odo => CrossLevel(lvls, b, fee)[b].odo = fee - lvls[b].odo
           /\ fee = lvls[b].odo => CrossLevel(lvls, b, fee)[b].odo = fee
           /\ \A t \in Ticks \ {b} : CrossLevel(lvls, b, fee)[t].odo = lvls[t].odo
<1> DEFINE flip == IF fee # lvls[b].odo THEN fee - lvls[b].odo ELSE lvls[b].odo
<1>1. CrossLevel(lvls, b, fee) = [lvls EXCEPT ![b].odo = flip]
  BY DEF CrossLevel
<1> HIDE DEF flip
<1> SUFFICES /\ CrossLevel(lvls, b, fee)[b].odo = flip
             /\ \A t \in Ticks \ {b} : CrossLevel(lvls, b, fee)[t].odo = lvls[t].odo
  BY DEF flip
<1> QED BY <1>1 DEF Books, Levels

\* A crossing turns the boundary it passes, and passes no other, in every book
\* that has the odometers of the crossed one.
LEMMA CrossingTracks ==
    ASSUME BookInv, NEW b \in Ticks, NEW g \in FeeSteps, RollOver(b, g),
           sweep # "idle", sweep' = sweep, ~SkipsFlip,
           NEW lvls, NEW s \in Ticks, IsActive(levels[s]),
           lvls[s].odo = CrossLevel(levels, b, concGrowth + g)[s].odo
    PROVE  PivotFeeBelow(lvls, s, tick', concGrowth') = FeesBelow(s) + GrowthBelow(s)
<1>1. /\ levels \in Books /\ tick \in Int /\ b \in Int /\ concGrowth \in Int /\ g \in Int
      /\ sweep \in {"buy", "sell"}
  BY TickAssumption, FeeWordAssumption, BoundsAssumption
     DEF BookInv, WordInv, TypeOK, Books, PriceTicks, FeeWords, Ticks
<1>2. /\ IsNextBump(b) /\ concGrowth' = concGrowth + g /\ concGrowth + g \in Int
      /\ tick' = IF sweep = "buy" THEN b ELSE b - 1
  BY <1>1 DEF RollOver, FarSide
<1>3. \A t \in Ticks : levels[t].odo \in Nat /\ levels[t].odo <= concGrowth
  <2>1. \A t \in Ticks : levels[t] \in Levels
    BY <1>1 DEF Books
  <2>2. \A l \in Levels : l.odo \in FeeWords
    BY DEF Levels
  <2>3. FeeWords \subseteq Nat
    BY FeeWordAssumption DEF FeeWords
  <2>4. \A t \in Ticks : levels[t].odo <= concGrowth
    BY DEF BookInv, WordInv, OdometerBounded
  <2> QED BY <2>1, <2>2, <2>3, <2>4
\* The boundary crossed: a buy leaves it below the price, a sell above.
<1>4. CASE s = b
  <2>1. CrossedTick = b
    BY <1>1, <1>2 DEF CrossedTick
  <2>2. levels[b].odo = concGrowth + g => concGrowth + g = 0
    BY <1>2, <2>1 DEF SkipsFlip, IsCrossing
  <2>3. /\ concGrowth + g # levels[b].odo
             => CrossLevel(levels, b, concGrowth + g)[b].odo = (concGrowth + g) - levels[b].odo
        /\ concGrowth + g = levels[b].odo
             => CrossLevel(levels, b, concGrowth + g)[b].odo = concGrowth + g
    BY <1>1, <1>2, FlipOdometer
  <2>4. lvls[b].odo = (concGrowth + g) - levels[b].odo
    BY <1>1, <1>3, <1>4, <2>2, <2>3
  <2>5. Ahead(b)
    BY <1>2 DEF IsNextBump
  <2> QED BY <1>1, <1>2, <1>3, <1>4, <2>4, <2>5
          DEF Ahead, FeesBelow, GrowthBelow, PivotFeeBelow
<1>5. CASE s # b
  <2>1. s \in census /\ s \in Int
    BY TickAssumption DEF BookInv, DepthInv, BookmarkCoversLots, Ticks
  <2>2. lvls[s].odo = levels[s].odo /\ levels[s].odo \in Int
    BY <1>1, <1>2, <1>3, <1>5, FlipOdometer
  <2>3. s <= tick <=> s <= tick'
    BY <1>1, <1>2, <1>5, <2>1 DEF IsNextBump, Ahead
  <2> QED BY <1>1, <1>2, <2>2, <2>3 DEF FeesBelow, GrowthBelow, PivotFeeBelow
<1> QED BY <1>4, <1>5

LEMMA CrossingBoundaries ==
    ASSUME BookInv, NEW b \in Ticks, NEW g \in FeeSteps, RollOver(b, g),
           sweep # "idle", sweep' = sweep, ~SkipsFlip,
           \A t \in Ticks : IsActive(levels'[t]) =>
               levels'[t].odo = CrossLevel(levels, b, concGrowth + g)[t].odo
    PROVE  BoundariesTrack
<1>1. ASSUME NEW s \in Ticks, IsActive(levels[s]), IsActive(levels'[s])
      PROVE  PivotFeeBelow(levels', s, tick', concGrowth') = FeesBelow(s) + GrowthBelow(s)
  BY <1>1, CrossingTracks
<1>2. \A s : FeesBelow(s)' = PivotFeeBelow(levels', s, tick', concGrowth')
  BY DEF FeesBelow, PivotFeeBelow
<1> QED BY <1>1, <1>2 DEF BoundariesTrack

\* A turn of the loop leaves the odometers of the book that is crossed, also
\* when it takes a tranche off the book on the way.
LEMMA CrossedOdometers ==
    ASSUME BookInv, NEW b \in Ticks, NEW g \in FeeSteps,
           SweepCross(b, g) \/ SweepKnockout(b, g)
    PROVE  /\ RollOver(b, g) /\ sweep # "idle" /\ sweep' = sweep
           /\ \A t \in Ticks : IsActive(levels'[t]) =>
                  levels'[t].odo = CrossLevel(levels, b, concGrowth + g)[t].odo
<1>1. CASE SweepCross(b, g)
  BY <1>1 DEF SweepCross
<1>2. CASE SweepKnockout(b, g)
  <2> DEFINE key == <<sweep = "sell", b>>
             lots == pivots[key].lots
             l == PivotLower(key, pivots[key].width)
             u == PivotUpper(key, pivots[key].width)
             flipped == CrossLevel(levels, b, concGrowth + g)
             crossed == UnmarkPivot(flipped, key)
  <2>1. /\ RollOver(b, g) /\ sweep # "idle" /\ sweep' = sweep
        /\ levels' = RemoveBookLiq(crossed, l, u, lots)
    BY <1>2 DEF SweepKnockout
  <2>3. flipped \in Books
    <3>1. levels \in Books /\ levels[b].odo \in Nat /\ levels[b].odo <= concGrowth
      BY FeeWordAssumption
         DEF BookInv, WordInv, TypeOK, OdometerBounded, Books, Levels, FeeWords
    <3>2. concGrowth + g \in FeeWords /\ concGrowth \in Nat /\ g \in Nat
      BY <2>1, SweepTypes DEF RollOver, BookInv, WordInv
    <3> QED BY <3>1, <3>2, CrossPoint
  <2>4. key \in BOOLEAN \X Ticks
    OBVIOUS
  <2> HIDE DEF key, l, u, lots, flipped
  <2>5. crossed \in Books /\ \A t \in Ticks : crossed[t].odo = flipped[t].odo
    BY <2>3, <2>4, UnmarkPoint
  <2> HIDE DEF crossed
  <2>6. \A t \in Ticks : IsActive(levels'[t]) => levels'[t].odo = crossed[t].odo
    BY <2>1, <2>5, RemoveKeepsOdometers
  <2>7. \A t \in Ticks : IsActive(levels'[t]) => levels'[t].odo = flipped[t].odo
    BY <2>5, <2>6
  <2> QED BY <2>1, <2>7 DEF flipped
<1> QED BY <1>1, <1>2

LEMMA SweepBoundaries ==
    ASSUME BookInv, SweepNext, ~SkipsFlip
    PROVE  BoundariesTrack
<1>1. ASSUME NEW b \in Ticks, NEW g \in FeeSteps, SweepCross(b, g) \/ SweepKnockout(b, g)
      PROVE  BoundariesTrack
  BY <1>1, CrossedOdometers, CrossingBoundaries
<1> QED BY <1>1, SweepEndBoundaries DEF SweepNext

\* What a step of the pool does to the counters below the active boundaries.
LEMMA NextBoundaries ==
    ASSUME BookInv, [Next]_vars, ~SkipsFlip
    PROVE  BoundariesTrack
<1>1. CASE UNCHANGED <<levels, tick, concGrowth>>
  BY <1>1, StillBoundaries
<1>2. CASE PassTime \/ UNCHANGED vars \/ \E dir \in {"buy", "sell"} : SweepBegin(dir)
  BY <1>1, <1>2 DEF PassTime, SweepBegin, vars, bookVars, curveVars
<1> QED BY <1>2, OrderBoundaries, SweepBoundaries DEF Next

-----------------------------------------------------------------------------
\* The counter only grows.
LEMMA NextGrowth ==
    ASSUME TypeOK, [Next]_vars
    PROVE  concGrowth <= concGrowth'
<1>1. concGrowth \in Int
  BY FeeWordAssumption DEF TypeOK, FeeWords
<1>2. ASSUME NEW g \in FeeSteps, concGrowth' = concGrowth + g
      PROVE  concGrowth <= concGrowth'
  BY <1>1, <1>2, BoundsAssumption
<1>3. ASSUME concGrowth' = concGrowth
      PROVE  concGrowth <= concGrowth'
  BY <1>1, <1>3
<1>4. CASE RangeNext \/ KnockoutNext
  <2>1. concGrowth' = concGrowth
    <3>1. ASSUME NEW o, NEW r, NEW lots, NEW offGrid,
                 \/ MintRange(o, r, lots, offGrid) \/ MarkRange(o, r)
                 \/ BurnRange(o, r, lots) \/ HarvestRange(o, r)
          PROVE  concGrowth' = concGrowth
      BY <3>1 DEF MintRange, MarkRange, BurnRange, HarvestRange, curveVars
    <3>2. ASSUME NEW o, NEW k, NEW lots, NEW bits,
                 MintKnockout(o, k, lots, bits) \/ BurnKnockout(o, k, lots)
          PROVE  concGrowth' = concGrowth
      BY <3>2 DEF MintKnockout, BurnKnockout
    <3>3. ASSUME NEW o, NEW k, NEW x, ClaimKnockout(o, k, x) \/ RecoverKnockout(o, k, x)
          PROVE  concGrowth' = concGrowth
      BY <3>3 DEF ClaimKnockout, RecoverKnockout, curveVars
    <3> QED BY <1>4, <3>1, <3>2, <3>3 DEF RangeNext, KnockoutNext
  <2> QED BY <1>3, <2>1
<1>5. CASE SweepNext
  BY <1>2, <1>5 DEF SweepNext, SweepEnd, SweepCross, SweepKnockout, RollOver
<1>6. CASE PassTime \/ UNCHANGED vars \/ \E dir \in {"buy", "sell"} : SweepBegin(dir)
  BY <1>3, <1>6 DEF PassTime, SweepBegin, vars, curveVars
<1> QED BY <1>4, <1>5, <1>6 DEF Next

\* An odometer behind the counter leaves a word on either side of it.
LEMMA BelowWord ==
    ASSUME NEW lvls \in Books, NEW cur, NEW fee \in FeeWords, NEW t \in Ticks,
           lvls[t].odo <= fee
    PROVE  PivotFeeBelow(lvls, t, cur, fee) \in FeeWords
<1>1. lvls[t].odo \in FeeWords
  BY DEF Books, Levels
<1> QED BY <1>1, FeeWordAssumption DEF PivotFeeBelow, FeeWords

\* The growth below the two ends of a range differ by the growth in range.
LEMMA NextClock ==
    ASSUME BookInv, BookInv', [Next]_vars, ~SkipsFlip,
           NEW l \in Ticks, NEW u \in Ticks, l < u,
           RestsOn(levels, l, u), RestsOn(levels', l, u)
    PROVE  ClockAdvance(l, u) = GrowthInRange(l, u)
<1>1. /\ FeesBelow(l)' = FeesBelow(l) + GrowthBelow(l)
      /\ FeesBelow(u)' = FeesBelow(u) + GrowthBelow(u)
  BY NextBoundaries DEF BoundariesTrack, RestsOn
<1>2. /\ tick \in Int /\ l \in Int /\ u \in Int /\ concGrowth \in FeeWords
      /\ concGrowth' \in FeeWords
  BY TickAssumption DEF BookInv, WordInv, TypeOK, PriceTicks, Ticks
<1>3. concGrowth <= concGrowth'
  BY NextGrowth DEF BookInv, WordInv
<1>4. \A t \in Ticks : FeesBelow(t) \in FeeWords /\ FeesBelow(t)' \in FeeWords
  BY BelowWord DEF FeesBelow, BookInv, WordInv, TypeOK, OdometerBounded, Books
<1> DEFINE growth == concGrowth' - concGrowth
<1>5. growth \in FeeWords /\ growth \in Nat /\ 0 \in FeeWords
  <2>1. ASSUME NEW x \in FeeWords, NEW y \in FeeWords, x <= y
        PROVE  y - x \in FeeWords /\ y - x \in Nat /\ 0 \in FeeWords
    BY <2>1, FeeWordAssumption DEF FeeWords
  <2> QED BY <1>2, <1>3, <2>1
<1>6. /\ GrowthBelow(l) = IF l <= tick THEN 0 ELSE growth
      /\ GrowthBelow(u) = IF u <= tick THEN 0 ELSE growth
      /\ GrowthInRange(l, u) = IF l <= tick /\ tick < u THEN growth ELSE 0
  BY DEF GrowthBelow, GrowthInRange, InRange
<1> HIDE DEF growth
<1>8. /\ GrowthBelow(l) \in FeeWords /\ GrowthBelow(u) \in FeeWords
      /\ GrowthBelow(l) <= GrowthBelow(u)
      /\ GrowthBelow(u) - GrowthBelow(l) = GrowthInRange(l, u)
  BY <1>2, <1>5, <1>6
<1>7. ClockAdvance(l, u)
        = ( ((FeesBelow(u)' - FeesBelow(l)') % FeeWord)
          - ((FeesBelow(u) - FeesBelow(l)) % FeeWord) ) % FeeWord
  BY DEF ClockAdvance, ClockFeeOdometer, FeesBelow, PivotFeeBelow
<1> QED BY <1>1, <1>4, <1>7, <1>8, ClockMoves

\* Only a turn of the loop that books no fee skips a flip, and it leaves every
\* odometer as it was: the crossed one equals the counter.
LEMMA SkipFacts ==
    ASSUME BookInv, Next, SkipsFlip
    PROVE  \E b \in Ticks :
               /\ CrossedTick = b /\ IsNextBump(b) /\ sweep \in {"buy", "sell"}
               /\ tick' = IF sweep = "buy" THEN b ELSE b - 1
               /\ concGrowth' = concGrowth /\ levels[b].odo = concGrowth
               /\ \A t \in Ticks :
                      IsActive(levels'[t]) => levels'[t].odo = levels[t].odo
<1>1. sweep # "idle" /\ sweep' = sweep
  BY DEF SkipsFlip, IsCrossing
<1>2. ~RangeNext /\ ~KnockoutNext
  <2>1. ASSUME NEW o, NEW r, NEW lots, NEW offGrid, MintRange(o, r, lots, offGrid)
        PROVE  FALSE
    <3>1. sweep = "idle"
      BY <2>1 DEF MintRange
    <3> QED BY <1>1, <3>1
  <2>2. ASSUME NEW o, NEW r, NEW lots,
               MarkRange(o, r) \/ BurnRange(o, r, lots) \/ HarvestRange(o, r)
        PROVE  FALSE
    <3>1. sweep = "idle"
      BY <2>2 DEF MarkRange, BurnRange, HarvestRange
    <3> QED BY <1>1, <3>1
  <2>3. ASSUME NEW o, NEW k, NEW lots, NEW bits, MintKnockout(o, k, lots, bits)
        PROVE  FALSE
    <3>1. sweep = "idle"
      BY <2>3 DEF MintKnockout
    <3> QED BY <1>1, <3>1
  <2>4. ASSUME NEW o, NEW k, NEW lots, BurnKnockout(o, k, lots)
        PROVE  FALSE
    <3>1. sweep = "idle"
      BY <2>4 DEF BurnKnockout
    <3> QED BY <1>1, <3>1
  <2>5. \A o, k, x : ~ClaimKnockout(o, k, x) /\ ~RecoverKnockout(o, k, x)
    BY <1>1 DEF ClaimKnockout, RecoverKnockout
  <2> QED BY <2>1, <2>2, <2>3, <2>4, <2>5 DEF RangeNext, KnockoutNext
<1>3. ~PassTime /\ \A dir : ~SweepBegin(dir)
  BY <1>1 DEF PassTime, SweepBegin
<1>4. \A t, g : ~SweepEnd(t, g)
  BY <1>1 DEF SweepEnd
<1>5. PICK b \in Ticks, g \in FeeSteps : SweepCross(b, g) \/ SweepKnockout(b, g)
  BY <1>2, <1>3, <1>4 DEF Next, SweepNext
<1>6. /\ levels \in Books /\ tick \in Int /\ b \in Int /\ concGrowth \in Int /\ g \in Nat
      /\ sweep \in {"buy", "sell"} /\ levels[b].odo <= concGrowth /\ levels[b].odo \in Int
  <2>1. sweep \in {"buy", "sell"}
    BY <1>1 DEF BookInv, WordInv, TypeOK
  <2>2. levels \in Books /\ levels[b].odo <= concGrowth
    BY DEF BookInv, WordInv, TypeOK, OdometerBounded, Books
  <2>3. levels[b].odo \in Int
    BY <2>2, FeeWordAssumption DEF Books, Levels, FeeWords
  <2>4. tick \in Int /\ b \in Int /\ concGrowth \in Int /\ g \in Nat
    BY TickAssumption, FeeWordAssumption, BoundsAssumption
       DEF BookInv, WordInv, TypeOK, PriceTicks, FeeWords, Ticks
  <2> QED BY <2>1, <2>2, <2>3, <2>4
<1>7. /\ RollOver(b, g)
      /\ \A t \in Ticks : IsActive(levels'[t]) =>
             levels'[t].odo = CrossLevel(levels, b, concGrowth + g)[t].odo
  BY <1>5, CrossedOdometers
<1>8. /\ IsNextBump(b) /\ concGrowth' = concGrowth + g
      /\ tick' = IF sweep = "buy" THEN b ELSE b - 1
  BY <1>6, <1>7 DEF RollOver, FarSide
<1>9. CrossedTick = b
  BY <1>6, <1>8 DEF CrossedTick
<1>10. levels[b].odo = concGrowth + g
  BY <1>8, <1>9 DEF SkipsFlip
<1>11. concGrowth' = concGrowth /\ concGrowth + g = concGrowth /\ levels[b].odo = concGrowth
  BY <1>6, <1>8, <1>10
<1>12. \A t \in Ticks : CrossLevel(levels, b, concGrowth)[t].odo = levels[t].odo
  BY <1>6, <1>11, FlipOdometer
<1>13. \A t \in Ticks : IsActive(levels'[t]) => levels'[t].odo = levels[t].odo
  BY <1>7, <1>11, <1>12
<1> QED BY <1>6, <1>8, <1>9, <1>11, <1>13

\* The whole counter turns up below the level whose flip is skipped, or is
\* gone, and below no other.
LEMMA SkipTurns ==
    ASSUME BookInv, Next, SkipsFlip, NEW s \in Ticks,
           IsActive(levels[s]), IsActive(levels'[s])
    PROVE  FeesBelow(s)' = FeesBelow(s) + SkippedBelow(s)
<1>1. PICK b \in Ticks :
          /\ CrossedTick = b /\ IsNextBump(b) /\ sweep \in {"buy", "sell"}
          /\ tick' = IF sweep = "buy" THEN b ELSE b - 1
          /\ concGrowth' = concGrowth /\ levels[b].odo = concGrowth
          /\ \A t \in Ticks : IsActive(levels'[t]) => levels'[t].odo = levels[t].odo
  BY SkipFacts
<1>2. /\ tick \in Int /\ b \in Int /\ s \in Int /\ concGrowth \in Int
      /\ levels[s].odo \in Int /\ s \in census
  BY TickAssumption, FeeWordAssumption
     DEF BookInv, WordInv, DepthInv, BookmarkCoversLots, TypeOK, Books, Levels,
         PriceTicks, FeeWords, Ticks
<1>3. FeesBelow(s)' = PivotFeeBelow(levels', s, tick', concGrowth')
  BY DEF FeesBelow, PivotFeeBelow
<1>4. Ahead(b)
  BY <1>1 DEF IsNextBump
<1>5. levels'[s].odo = levels[s].odo
  BY <1>1
<1>6. CASE s = b
  BY <1>1, <1>2, <1>3, <1>4, <1>5, <1>6
     DEF Ahead, FeesBelow, SkippedBelow, PivotFeeBelow
<1>7. CASE s # b
  <2>1. s <= tick <=> s <= tick'
    BY <1>1, <1>2, <1>7 DEF IsNextBump, Ahead
  <2>2. SkippedBelow(s) = 0
    BY <1>1, <1>7 DEF SkippedBelow
  <2> QED BY <1>1, <1>2, <1>3, <1>5, <2>1, <2>2 DEF FeesBelow, PivotFeeBelow
<1> QED BY <1>6, <1>7

\* Two circular differences differ by the circle's share of what they differ.
LEMMA TurnDifference ==
    ASSUME NEW x \in Int, -FeeWord < x, x < FeeWord, NEW y \in Int, -FeeWord < y, y < FeeWord,
           -FeeWord < x - y, x - y < FeeWord
    PROVE  ((x % FeeWord) - (y % FeeWord)) % FeeWord = (x - y) % FeeWord
<1> DEFINE turned(a) == IF a < 0 THEN a + FeeWord ELSE a
           diff == turned(x) - turned(y)
           plain == x - y
<1>1. x % FeeWord = turned(x) /\ y % FeeWord = turned(y)
  BY WordTurn
<1>2. /\ diff \in Int /\ -FeeWord < diff /\ diff < FeeWord
      /\ plain \in Int /\ -FeeWord < plain /\ plain < FeeWord
      /\ turned(diff) = turned(plain)
  BY FeeWordAssumption
<1>3. diff % FeeWord = turned(diff) /\ plain % FeeWord = turned(plain)
  <2> HIDE DEF diff, plain
  <2> QED BY <1>2, WordTurn
<1> QED BY <1>1, <1>2, <1>3

\* What a skipped flip does to the clock of a range.
LEMMA SkipClock ==
    ASSUME BookInv, BookInv', Next, SkipsFlip,
           NEW l \in Ticks, NEW u \in Ticks, l < u,
           RestsOn(levels, l, u), RestsOn(levels', l, u)
    PROVE  ClockAdvance(l, u)
             = (GrowthInRange(l, u) + SkippedBelow(u) - SkippedBelow(l)) % FeeWord
<1> DEFINE x == FeesBelow(u)' - FeesBelow(l)'
           y == FeesBelow(u) - FeesBelow(l)
<1>1. /\ FeesBelow(l)' = FeesBelow(l) + SkippedBelow(l)
      /\ FeesBelow(u)' = FeesBelow(u) + SkippedBelow(u)
  BY SkipTurns DEF RestsOn
<1>2. concGrowth' = concGrowth /\ concGrowth \in FeeWords
  BY SkipFacts DEF BookInv, WordInv, TypeOK
<1>3. GrowthInRange(l, u) = 0
  BY <1>2, FeeWordAssumption DEF GrowthInRange, FeeWords
<1>4. \A t \in Ticks : FeesBelow(t) \in FeeWords /\ FeesBelow(t)' \in FeeWords
  BY BelowWord DEF FeesBelow, BookInv, WordInv, TypeOK, OdometerBounded, Books
<1>5. /\ SkippedBelow(l) \in Int /\ SkippedBelow(u) \in Int
      /\ -FeeWord < SkippedBelow(u) - SkippedBelow(l)
      /\ SkippedBelow(u) - SkippedBelow(l) < FeeWord
  <2>1. \A t : SkippedBelow(t) \in {0, concGrowth, -concGrowth}
    BY <1>2 DEF SkippedBelow
  <2>2. SkippedBelow(l) = 0 \/ SkippedBelow(u) = 0
    BY TickAssumption DEF SkippedBelow, Ticks
  <2> QED BY <1>2, <2>1, <2>2, FeeWordAssumption DEF FeeWords
<1>6. /\ x \in Int /\ -FeeWord < x /\ x < FeeWord
      /\ y \in Int /\ -FeeWord < y /\ y < FeeWord
  BY <1>4, FeeWordAssumption DEF FeeWords
<1>7. x - y = GrowthInRange(l, u) + SkippedBelow(u) - SkippedBelow(l)
  <2>1. FeesBelow(l) \in Int /\ FeesBelow(u) \in Int
    BY <1>4, FeeWordAssumption DEF FeeWords
  <2> QED BY <1>1, <1>3, <1>5, <2>1
<1>8. x - y = SkippedBelow(u) - SkippedBelow(l)
  BY <1>3, <1>5, <1>7
<1>9. ClockAdvance(l, u) = ((x % FeeWord) - (y % FeeWord)) % FeeWord
  BY DEF ClockAdvance, ClockFeeOdometer, FeesBelow, PivotFeeBelow
<1> HIDE DEF x, y
<1>10. ((x % FeeWord) - (y % FeeWord)) % FeeWord = (x - y) % FeeWord
  BY <1>5, <1>6, <1>8, TurnDifference
<1> QED BY <1>7, <1>9, <1>10

\* Without a skipped flip the clock moves by the growth, which is a word.
LEMMA PlainClock ==
    ASSUME BookInv, BookInv', Next, ~SkipsFlip,
           NEW l \in Ticks, NEW u \in Ticks, l < u,
           RestsOn(levels, l, u), RestsOn(levels', l, u)
    PROVE  ClockAdvance(l, u)
             = (GrowthInRange(l, u) + SkippedBelow(u) - SkippedBelow(l)) % FeeWord
<1>1. ClockAdvance(l, u) = GrowthInRange(l, u)
  BY NextClock
<1>2. /\ concGrowth <= concGrowth' /\ concGrowth \in FeeWords /\ concGrowth' \in FeeWords
  BY NextGrowth DEF BookInv, WordInv, TypeOK
<1>3. /\ GrowthInRange(l, u) \in Int
      /\ 0 <= GrowthInRange(l, u) /\ GrowthInRange(l, u) < FeeWord
  <2>1. /\ concGrowth \in Int /\ concGrowth' \in Int /\ 0 <= concGrowth
        /\ concGrowth' < FeeWord /\ 0 < FeeWord /\ FeeWord \in Int
    BY <1>2, FeeWordAssumption DEF FeeWords
  <2>2. ASSUME NEW a \in Int, NEW b \in Int, 0 <= a, a <= b, b < FeeWord
        PROVE  b - a \in Int /\ 0 <= b - a /\ b - a < FeeWord
    BY <2>1, <2>2
  <2> DEFINE growth == concGrowth' - concGrowth
  <2>3. growth \in Int /\ 0 <= growth /\ growth < FeeWord
    BY <1>2, <2>1, <2>2
  <2>4. GrowthInRange(l, u) = growth \/ GrowthInRange(l, u) = 0
    BY DEF GrowthInRange
  <2> HIDE DEF growth
  <2>5. 0 \in Int /\ 0 <= 0 /\ 0 < FeeWord
    BY <2>1
  <2> QED BY <2>3, <2>4, <2>5
<1>4. SkippedBelow(l) = 0 /\ SkippedBelow(u) = 0
  BY DEF SkippedBelow
<1>5. GrowthInRange(l, u) % FeeWord = GrowthInRange(l, u)
  BY <1>3, WordTurn, FeeWordAssumption
<1>6. GrowthInRange(l, u) + SkippedBelow(u) - SkippedBelow(l) = GrowthInRange(l, u)
  BY <1>3, <1>4
<1> QED BY <1>1, <1>5, <1>6

\* What the clock of a range does, for every grid, order and word width: no
\* mint, burn, knockout or crossing makes it run by anything but the growth
\* booked while the price was in the range, except that a skipped flip turns
\* the whole counter in or out of the ranges that end at its level
\* (crossLevel, clockFeeOdometer).
THEOREM ClocksTrackGrowth == Spec => ClockTracksGrowth
<1>1. BookInv /\ [Next]_vars => BookInv'
  BY NextBookInv
<1>2. BookInv /\ BookInv' /\ Next => ClocksKeepTime
  BY SkipClock, PlainClock DEF ClocksKeepTime
<1>3. BookInv /\ BookInv' /\ [Next]_vars => [ClocksKeepTime]_vars
  BY <1>2
<1> QED BY <1>1, <1>3, BookInvariant, PTL DEF Spec, ClockTracksGrowth

-----------------------------------------------------------------------------
(***************************************************************************)
(* The tranches of the pivots and the histories of their knockouts.        *)
(***************************************************************************)
HistorySorted ==
    \A key \in PivotKeys :
        /\ merkles[key].time <= now
        /\ \A link \in ToSet(merkles[key].root) : link.time <= merkles[key].time

TrancheInv == TrancheFresh /\ HistorySorted

-----------------------------------------------------------------------------
\* The elements of a longer history.
LEMMA ToSetAppend ==
    ASSUME NEW S, NEW s \in Seq(S), NEW e \in S
    PROVE  ToSet(Append(s, e)) = ToSet(s) \cup {e}
<1> DEFINE n == Len(s)
           longer == Append(s, e)
<1>1. /\ n \in Nat /\ DOMAIN s = 1 .. n /\ DOMAIN longer = 1 .. (n + 1)
      /\ \A i \in 1 .. n : longer[i] = s[i]
      /\ longer[n + 1] = e
  OBVIOUS
<1> HIDE DEF n, longer
<1>2. ToSet(longer) \subseteq ToSet(s) \cup {e}
  <2> SUFFICES ASSUME NEW i \in 1 .. (n + 1) PROVE longer[i] \in ToSet(s) \cup {e}
    BY <1>1 DEF ToSet
  <2>1. CASE i = n + 1
    BY <1>1, <2>1
  <2>2. CASE i \in 1 .. n
    BY <1>1, <2>2 DEF ToSet
  <2> QED BY <1>1, <2>1, <2>2
<1>3. ToSet(s) \cup {e} \subseteq ToSet(longer)
  <2>1. \A i \in 1 .. n : s[i] \in ToSet(longer)
    BY <1>1 DEF ToSet
  <2>2. e \in ToSet(longer)
    <3>1. n + 1 \in DOMAIN longer
      BY <1>1
    <3> QED BY <1>1, <3>1 DEF ToSet
  <2> QED BY <1>1, <2>1, <2>2 DEF ToSet
<1> QED BY <1>2, <1>3 DEF longer

\* The elements of a sequence belong to the set it is over.
LEMMA ToSetIn ==
    ASSUME NEW S, NEW s \in Seq(S)
    PROVE  ToSet(s) \subseteq S
<1>1. \A i \in DOMAIN s : s[i] \in S
  OBVIOUS
<1> QED BY <1>1 DEF ToSet

\* A sequence is a prefix of what is appended to it.
LEMMA PrefixAppend ==
    ASSUME NEW S, NEW s \in Seq(S), NEW e \in S
    PROVE  IsPrefix(s, Append(s, e))
BY DEF IsPrefix

\* A sequence is a prefix of itself.
LEMMA PrefixSelf ==
    ASSUME NEW S, NEW s \in Seq(S)
    PROVE  IsPrefix(s, s)
BY DEF IsPrefix

\* What a pivot's history and its tranche are, as far as times go.
LEMMA TimesTyped ==
    ASSUME TypeOK, NEW key \in PivotKeys
    PROVE  /\ pivots[key].time \in Nat /\ merkles[key].time \in Nat /\ now \in Nat /\ now # 0
           /\ merkles[key].root \in Seq([time : Times, mileage : FeeWords])
           /\ \A link \in ToSet(merkles[key].root) : link.time \in Nat
<1>1. /\ pivots[key].time \in Times /\ merkles[key].time \in Times /\ now \in 1 .. MaxTime
      /\ merkles[key].root \in Seq([time : Times, mileage : FeeWords])
  BY DEF TypeOK, Pivots, IsMerkle
<1>2. \A link \in ToSet(merkles[key].root) : link.time \in Times
  <2>1. ToSet(merkles[key].root) \subseteq [time : Times, mileage : FeeWords]
    BY <1>1, ToSetIn
  <2> QED BY <2>1
<1> QED BY <1>1, <1>2, BoundsAssumption DEF Times

\* No tranche rests and none was knocked out at first.
LEMMA InitTrancheInv == Init => TrancheInv
<1> SUFFICES ASSUME Init PROVE TrancheInv
  OBVIOUS
<1>1. \A key \in PivotKeys : pivots[key] = NoPivot /\ merkles[key] = NoMerkle
  BY DEF Init
<1>2. now = 1
  BY DEF Init
<1>3. ToSet(<<>>) = {}
  BY DEF ToSet
<1> QED BY <1>1, <1>2, <1>3 DEF TrancheInv, TrancheFresh, HistorySorted, NoPivot, NoMerkle

\* Time passes, or the pivots and their histories are left alone.
LEMMA TranchesUntouched ==
    ASSUME TypeOK, TrancheInv, UNCHANGED <<pivots, merkles>>,
           now' \in Nat, now <= now'
    PROVE  TrancheInv'
<1>1. SUFFICES ASSUME NEW key \in PivotKeys
               PROVE  /\ pivots[key].time <= now' /\ merkles[key].time <= now'
  BY DEF TrancheInv, TrancheFresh, HistorySorted
<1>2. /\ pivots[key].time <= now /\ merkles[key].time <= now
  BY DEF TrancheInv, TrancheFresh, HistorySorted
<1> QED BY <1>2, TimesTyped

\* A pivot changes and its history does not: the tranche that rests now is
\* the one that rested before, or one that freshenMerkle let in.
LEMMA PivotChange ==
    ASSUME TypeOK, TrancheInv, NEW key \in PivotKeys, NEW pivot,
           pivots' = [pivots EXCEPT ![key] = pivot], UNCHANGED <<merkles, now>>,
           \/ pivot.time = pivots[key].time
           \/ pivot.time = 0
           \/ pivot.time = now /\ merkles[key].time # now
    PROVE  TrancheInv'
<1>1. HistorySorted'
  BY DEF TrancheInv, HistorySorted
<1>2. ASSUME NEW other \in PivotKeys
      PROVE  /\ pivots'[other].time <= now
             /\ pivots'[other].time # 0 =>
                   /\ merkles[other].time < pivots'[other].time
                   /\ \A link \in ToSet(merkles[other].root) : link.time < pivots'[other].time
  <2>1. CASE pivots'[other].time = pivots[other].time
    BY <2>1 DEF TrancheInv, TrancheFresh
  <2>2. CASE pivots'[other].time # pivots[other].time
    <3>1. other = key /\ pivots'[other] = pivot
      BY <2>2 DEF TypeOK
    <3>2. CASE pivot.time = 0
      BY <3>1, <3>2, TimesTyped
    <3>3. CASE pivot.time = now /\ merkles[key].time # now
      <4>1. merkles[key].time < now
        BY <3>3, TimesTyped DEF TrancheInv, HistorySorted
      <4>2. \A link \in ToSet(merkles[key].root) : link.time < now
        BY <4>1, TimesTyped DEF TrancheInv, HistorySorted
      <4> QED BY <3>1, <3>3, <4>1, <4>2, TimesTyped
    <3> QED BY <2>2, <3>1, <3>2, <3>3
  <2> QED BY <2>1, <2>2
<1> QED BY <1>1, <1>2 DEF TrancheInv, TrancheFresh

\* A mint opens a tranche only at a time freshenMerkle accepts, or joins the
\* one that rests.
LEMMA MintKnockoutTranches ==
    ASSUME BookInv, TrancheInv, NEW o \in Owners, NEW k \in KoLocs, NEW lots \in LotSizes,
           NEW bits \in KoBits, MintKnockout(o, k, lots, bits)
    PROVE  TrancheInv'
<1> DEFINE key == PivotKey(k)
           pivot == InjectPivot(pivots[key], k, lots, now)
<1>1. TypeOK /\ key \in PivotKeys /\ pivots[key] \in Pivots
  BY PivotEnds DEF BookInv, WordInv, TypeOK
<1>2. /\ pivots' = [pivots EXCEPT ![key] = pivot] /\ UNCHANGED <<merkles, now>>
      /\ pivots[key].lots = 0 => merkles[key].time # now
  BY DEF MintKnockout, InjectFits, FreshenMerkle
<1>3. \/ pivot.time = pivots[key].time
      \/ pivot.time = now /\ merkles[key].time # now
  <2>1. CASE pivots[key].lots = 0
    BY <1>2, <2>1 DEF InjectPivot
  <2>2. CASE pivots[key].lots # 0
    <3>1. pivot = [pivots[key] EXCEPT !.lots = @ + lots]
      BY <2>2 DEF InjectPivot
    <3> HIDE DEF pivot, key
    <3> QED BY <1>1, <3>1 DEF Pivots
  <2> QED BY <2>1, <2>2
<1> HIDE DEF pivot, key
<1> QED BY <1>1, <1>2, <1>3, PivotChange

\* A burn leaves the time of the tranche, or closes it.
LEMMA BurnKnockoutTranches ==
    ASSUME BookInv, TrancheInv, NEW o \in Owners, NEW k \in KoLocs, NEW lots \in LotSizes,
           BurnKnockout(o, k, lots)
    PROVE  TrancheInv'
<1> DEFINE key == PivotKey(k)
           pivot == RecallPivot(pivots[key], lots)
<1>1. TypeOK /\ key \in PivotKeys /\ pivots[key] \in Pivots
  BY PivotEnds DEF BookInv, WordInv, TypeOK
<1>2. pivots' = [pivots EXCEPT ![key] = pivot] /\ UNCHANGED <<merkles, now>>
  BY DEF BurnKnockout
<1>3. pivot.time = pivots[key].time \/ pivot.time = 0
  <2>1. CASE lots = pivots[key].lots
    BY <2>1 DEF RecallPivot, NoPivot
  <2>2. CASE lots # pivots[key].lots
    <3>1. pivot = [pivots[key] EXCEPT !.lots = @ - lots]
      BY <2>2 DEF RecallPivot
    <3> HIDE DEF pivot, key
    <3> QED BY <1>1, <3>1 DEF Pivots
  <2> QED BY <2>1, <2>2
<1> HIDE DEF pivot, key
<1> QED BY <1>1, <1>2, <1>3, PivotChange

\* What a knockout does to its pivot: a tranche rested there, and goes into
\* the clear half of the Merkle slot, the tranche before it into the chain.
LEMMA KnockoutCommits ==
    ASSUME BookInv, NEW b \in Ticks, NEW g \in FeeSteps, SweepKnockout(b, g)
    PROVE  LET key == <<sweep = "sell", b>> IN
           /\ key \in PivotKeys /\ pivots[key].time # 0
           /\ merkles'[key].time = pivots[key].time
           /\ merkles'[key].root
                = Append(merkles[key].root,
                         [time |-> merkles[key].time, mileage |-> merkles[key].mileage])
           /\ \A other \in PivotKeys \ {key} : merkles'[other] = merkles[other]
           /\ pivots' = [pivots EXCEPT ![key] = NoPivot]
           /\ UNCHANGED now
<1> DEFINE key == <<sweep = "sell", b>>
<1>1. TypeOK /\ sweep \in {"buy", "sell"} /\ CrossFlag(levels, b, sweep = "buy")
  BY DEF SweepKnockout, BookInv, WordInv, TypeOK
<1>2. key \in PivotKeys
  BY DEF PivotKeys
<1>3. pivots[key].time # 0
  <2>1. CASE sweep = "sell"
    <3>1. HasKnockoutLiq(levels[b].bid) /\ key = <<TRUE, b>>
      BY <1>1, <2>1 DEF CrossFlag
    <3> QED BY <3>1 DEF BookInv, WordInv, FlagMatchesPivot
  <2>2. CASE sweep = "buy"
    <3>1. HasKnockoutLiq(levels[b].ask) /\ key = <<FALSE, b>>
      BY <1>1, <2>2 DEF CrossFlag
    <3> QED BY <3>1 DEF BookInv, WordInv, FlagMatchesPivot
  <2> QED BY <1>1, <2>1, <2>2
<1>4. PICK feeRange :
        merkles' = [merkles EXCEPT ![key] = CommitKnockout(merkles[key], pivots[key], feeRange)]
  BY DEF SweepKnockout
<1>5. pivots' = [pivots EXCEPT ![key] = NoPivot] /\ UNCHANGED now
  BY DEF SweepKnockout
<1>6. /\ merkles'[key] = CommitKnockout(merkles[key], pivots[key], feeRange)
      /\ \A other \in PivotKeys \ {key} : merkles'[other] = merkles[other]
  <2> HIDE DEF key
  <2> QED BY <1>1, <1>2, <1>4 DEF TypeOK
<1> QED BY <1>2, <1>3, <1>5, <1>6 DEF CommitKnockout

\* A knockout files the tranche that rested, the youngest there was.
LEMMA SweepKnockoutTranches ==
    ASSUME BookInv, TrancheInv, NEW b \in Ticks, NEW g \in FeeSteps, SweepKnockout(b, g)
    PROVE  TrancheInv'
<1> DEFINE key == <<sweep = "sell", b>>
           link == [time |-> merkles[key].time, mileage |-> merkles[key].mileage]
<1>1. /\ key \in PivotKeys /\ pivots[key].time # 0
      /\ merkles'[key].time = pivots[key].time
      /\ merkles'[key].root = Append(merkles[key].root, link)
      /\ \A other \in PivotKeys \ {key} : merkles'[other] = merkles[other]
      /\ pivots' = [pivots EXCEPT ![key] = NoPivot]
      /\ now' = now
  BY KnockoutCommits
<1>2. TypeOK
  BY DEF BookInv, WordInv
<1>3. link \in [time : Times, mileage : FeeWords] /\ link.time = merkles[key].time
  BY <1>1, <1>2 DEF TypeOK, IsMerkle
<1>4. ToSet(merkles'[key].root) = ToSet(merkles[key].root) \cup {link}
  <2> HIDE DEF key, link
  <2>1. key \in PivotKeys
    BY <1>1
  <2>2. merkles[key].root \in Seq([time : Times, mileage : FeeWords])
    BY <1>2, <2>1, TimesTyped
  <2>3. ToSet(Append(merkles[key].root, link)) = ToSet(merkles[key].root) \cup {link}
    <3> DEFINE Links == [time : Times, mileage : FeeWords]
               root == merkles[key].root
    <3>1. root \in Seq(Links) /\ link \in Links
      BY <1>3, <2>2
    <3> HIDE DEF Links, root
    <3>2. ToSet(Append(root, link)) = ToSet(root) \cup {link}
      BY <3>1, ToSetAppend
    <3> QED BY <3>2 DEF root
  <2> QED BY <1>1, <2>3
<1> HIDE DEF key, link
<1>5. ASSUME NEW other \in PivotKeys
      PROVE  /\ merkles'[other].time <= now
             /\ \A x \in ToSet(merkles'[other].root) : x.time <= merkles'[other].time
  <2>1. CASE other = key
    <3>1. /\ pivots[key].time <= now /\ merkles[key].time < pivots[key].time
          /\ \A x \in ToSet(merkles[key].root) : x.time < pivots[key].time
      BY <1>1 DEF TrancheInv, TrancheFresh
    <3>2. /\ pivots[key].time \in Nat /\ merkles[key].time \in Nat
          /\ \A x \in ToSet(merkles[key].root) : x.time \in Nat
      BY <1>1, <1>2, TimesTyped
    <3>3. \A x \in ToSet(merkles[key].root) : x.time <= pivots[key].time
      BY <3>1, <3>2
    <3>4. link.time <= pivots[key].time
      BY <1>3, <3>1, <3>2
    <3>5. \A x \in ToSet(merkles'[key].root) : x.time <= pivots[key].time
      BY <1>4, <3>3, <3>4
    <3>6. merkles'[key].time = pivots[key].time
      BY <1>1
    <3> QED BY <2>1, <3>1, <3>5, <3>6
  <2>2. CASE other # key
    BY <1>1, <2>2 DEF TrancheInv, HistorySorted
  <2> QED BY <2>1, <2>2
<1>6. ASSUME NEW other \in PivotKeys
      PROVE  /\ pivots'[other].time <= now
             /\ pivots'[other].time # 0 =>
                   /\ merkles'[other].time < pivots'[other].time
                   /\ \A x \in ToSet(merkles'[other].root) : x.time < pivots'[other].time
  <2>1. CASE other = key
    <3>1. pivots'[other].time = 0
      BY <1>1, <1>2, <2>1 DEF TypeOK, NoPivot
    <3> QED BY <1>1, <1>2, <3>1, TimesTyped
  <2>2. CASE other # key
    <3>1. pivots'[other] = pivots[other] /\ merkles'[other] = merkles[other]
      BY <1>1, <1>2, <2>2 DEF TypeOK
    <3> QED BY <3>1 DEF TrancheInv, TrancheFresh
  <2> QED BY <2>1, <2>2
<1> QED BY <1>1, <1>5, <1>6 DEF TrancheInv, TrancheFresh, HistorySorted

-----------------------------------------------------------------------------
\* Every other step leaves pivots and histories alone.
Sideline ==
    \/ RangeNext
    \/ \E o \in Owners, k \in KoLocs :
          \/ \E proven \in ProvableHistory(merkles[PivotKey(k)]) : ClaimKnockout(o, k, proven)
          \/ \E pivotTime \in Times : RecoverKnockout(o, k, pivotTime)
    \/ PassTime
    \/ \E dir \in {"buy", "sell"} : SweepBegin(dir)
    \/ \E g \in FeeSteps : \/ \E t \in PriceTicks : SweepEnd(t, g)
                           \/ \E b \in Ticks : SweepCross(b, g)
    \/ UNCHANGED vars

\* The other steps leave pivots and histories alone, and time goes forward.
LEMMA SidelineTimes ==
    ASSUME TypeOK, Sideline
    PROVE  UNCHANGED <<pivots, merkles>> /\ now' \in Nat /\ now <= now'
<1>1. now \in Nat
  BY DEF TypeOK
<1>2. CASE RangeNext
  <2> SUFFICES ASSUME NEW o \in Owners, NEW r \in RangeLocs,
                      \/ \E lots \in LotSizes, offGrid \in BOOLEAN : MintRange(o, r, lots, offGrid)
                      \/ MarkRange(o, r)
                      \/ \E lots \in LotSizes : BurnRange(o, r, lots)
                      \/ HarvestRange(o, r)
               PROVE  pivots' = pivots /\ merkles' = merkles /\ now' = now
    BY <1>1, <1>2 DEF RangeNext
  <2>1. CASE \E lots \in LotSizes, offGrid \in BOOLEAN : MintRange(o, r, lots, offGrid)
    BY <2>1 DEF MintRange, knockoutVars
  <2>2. CASE \E lots \in LotSizes : BurnRange(o, r, lots)
    BY <2>2 DEF BurnRange, knockoutVars
  <2>3. CASE HarvestRange(o, r)
    BY <2>3 DEF HarvestRange, knockoutVars
  <2>4. CASE MarkRange(o, r)
    BY <2>4 DEF MarkRange, knockoutVars
  <2> QED BY <2>1, <2>2, <2>3, <2>4
<1>3. CASE \E o \in Owners, k \in KoLocs :
             \/ \E proven \in ProvableHistory(merkles[PivotKey(k)]) : ClaimKnockout(o, k, proven)
             \/ \E pivotTime \in Times : RecoverKnockout(o, k, pivotTime)
  <2>1. ASSUME NEW o \in Owners, NEW k \in KoLocs, NEW proven, ClaimKnockout(o, k, proven)
        PROVE  pivots' = pivots /\ merkles' = merkles /\ now' = now
    BY <2>1 DEF ClaimKnockout
  <2>2. ASSUME NEW o \in Owners, NEW k \in KoLocs, NEW pivotTime, RecoverKnockout(o, k, pivotTime)
        PROVE  pivots' = pivots /\ merkles' = merkles /\ now' = now
    BY <2>2 DEF RecoverKnockout
  <2> QED BY <1>1, <1>3, <2>1, <2>2
<1>4. CASE PassTime
  BY <1>1, <1>4 DEF PassTime, knockoutVars
<1>5. CASE \E dir \in {"buy", "sell"} : SweepBegin(dir)
  BY <1>1, <1>5 DEF SweepBegin, knockoutVars
<1>6. CASE \E g \in FeeSteps : \/ \E t \in PriceTicks : SweepEnd(t, g)
                               \/ \E b \in Ticks : SweepCross(b, g)
  BY <1>1, <1>6 DEF SweepEnd, SweepCross, knockoutVars
<1>7. CASE UNCHANGED vars
  BY <1>1, <1>7 DEF vars
<1> QED BY <1>2, <1>3, <1>4, <1>5, <1>6, <1>7 DEF Sideline

\* Every step opens or burns a tranche, knocks one out, or is on the sideline.
LEMMA NextCases ==
    ASSUME [Next]_vars
    PROVE  \/ Sideline
           \/ \E o \in Owners, k \in KoLocs, lots \in LotSizes :
                 (\E bits \in KoBits : MintKnockout(o, k, lots, bits)) \/ BurnKnockout(o, k, lots)
           \/ \E b \in Ticks, g \in FeeSteps : SweepKnockout(b, g)
BY DEF Next, KnockoutNext, SweepNext, Sideline

\* One step of the pool keeps the order of the tranches.
LEMMA NextTrancheInv ==
    ASSUME BookInv, TrancheInv, [Next]_vars
    PROVE  TrancheInv'
<1>1. TypeOK
  BY DEF BookInv, WordInv
<1>2. CASE Sideline
  BY <1>1, <1>2, SidelineTimes, TranchesUntouched
<1>3. CASE \E o \in Owners, k \in KoLocs, lots \in LotSizes :
             (\E bits \in KoBits : MintKnockout(o, k, lots, bits)) \/ BurnKnockout(o, k, lots)
  BY <1>3, MintKnockoutTranches, BurnKnockoutTranches
<1>4. CASE \E b \in Ticks, g \in FeeSteps : SweepKnockout(b, g)
  BY <1>4, SweepKnockoutTranches
<1> QED BY <1>2, <1>3, <1>4, NextCases

\* A resting tranche is younger than all that were knocked out at its pivot,
\* so the owner of a live order can neither recover nor claim it.
THEOREM TranchesFresh == Spec => []TrancheFresh
<1>1. Init => TrancheInv
  BY InitTrancheInv
<1>2. BookInv /\ TrancheInv /\ [Next]_vars => TrancheInv'
  BY NextTrancheInv
<1>3. TrancheInv => TrancheFresh
  BY DEF TrancheInv
<1> QED BY <1>1, <1>2, <1>3, BookInvariant, PTL DEF Spec

-----------------------------------------------------------------------------
\* A step that is not a knockout leaves every history as it is, and one that
\* is appends a link and stores a later time.
LEMMA NextHistory ==
    ASSUME BookInv, TrancheInv, [Next]_vars
    PROVE  HistoryStep
<1>1. TypeOK
  BY DEF BookInv, WordInv
<1>2. CASE merkles' = merkles
  <2> SUFFICES ASSUME NEW key \in PivotKeys
               PROVE  /\ IsPrefix(merkles[key].root, merkles[key].root)
                      /\ merkles[key].time <= merkles[key].time
    BY <1>2 DEF HistoryStep
  <2>1. /\ merkles[key].root \in Seq([time : Times, mileage : FeeWords])
        /\ merkles[key].time \in Nat
    BY <1>1, TimesTyped
  <2> QED BY <2>1, PrefixSelf
<1>3. CASE \E b \in Ticks, g \in FeeSteps : SweepKnockout(b, g)
  <2> PICK b \in Ticks, g \in FeeSteps : SweepKnockout(b, g)
    BY <1>3
  <2> DEFINE key == <<sweep = "sell", b>>
             link == [time |-> merkles[key].time, mileage |-> merkles[key].mileage]
             Links == [time : Times, mileage : FeeWords]
  <2>1. /\ key \in PivotKeys /\ pivots[key].time # 0
        /\ merkles'[key].time = pivots[key].time
        /\ merkles'[key].root = Append(merkles[key].root, link)
        /\ \A other \in PivotKeys \ {key} : merkles'[other] = merkles[other]
    BY KnockoutCommits
  <2>2. link \in Links
    BY <1>1, <2>1 DEF TypeOK, IsMerkle
  <2> HIDE DEF key, link, Links
  <2> SUFFICES ASSUME NEW other \in PivotKeys
               PROVE  /\ IsPrefix(merkles[other].root, merkles'[other].root)
                      /\ merkles[other].time <= merkles'[other].time
    BY DEF HistoryStep
  <2>3. /\ merkles[other].root \in Seq(Links)
        /\ merkles[other].time \in Nat /\ pivots[other].time \in Nat
    BY <1>1, TimesTyped DEF Links
  <2>4. CASE other = key
    <3>1. merkles[key].time < pivots[key].time
      BY <2>1 DEF TrancheInv, TrancheFresh
    <3>2. IsPrefix(merkles[key].root, Append(merkles[key].root, link))
      BY <2>2, <2>3, <2>4, PrefixAppend
    <3>3. merkles[key].time <= merkles'[key].time
      BY <2>1, <2>3, <2>4, <3>1
    <3>4. IsPrefix(merkles[key].root, merkles'[key].root)
      BY <2>1, <3>2
    <3> QED BY <2>4, <3>3, <3>4
  <2>5. CASE other # key
    BY <2>1, <2>3, <2>5, PrefixSelf
  <2> QED BY <2>4, <2>5
<1>4. CASE Sideline
  BY <1>1, <1>2, <1>4, SidelineTimes
<1>5. CASE \E o \in Owners, k \in KoLocs, lots \in LotSizes :
             (\E bits \in KoBits : MintKnockout(o, k, lots, bits)) \/ BurnKnockout(o, k, lots)
  <2>1. merkles' = merkles
    <3>1. ASSUME NEW o, NEW k, NEW lots, NEW bits, MintKnockout(o, k, lots, bits)
          PROVE  merkles' = merkles
      BY <3>1 DEF MintKnockout
    <3>2. ASSUME NEW o, NEW k, NEW lots, BurnKnockout(o, k, lots)
          PROVE  merkles' = merkles
      BY <3>2 DEF BurnKnockout
    <3> QED BY <1>5, <3>1, <3>2
  <2> QED BY <1>2, <2>1
<1> QED BY <1>3, <1>4, <1>5, NextCases

\* The record of past knockouts is append-only: no sequence of operations
\* rewrites, drops or reorders a link that a holder may have to prove.
THEOREM HistoryAppends == Spec => HistoryGrows
<1>1. Init => TrancheInv
  BY InitTrancheInv
<1>2. BookInv /\ TrancheInv /\ [Next]_vars => TrancheInv'
  BY NextTrancheInv
<1>3. BookInv /\ TrancheInv /\ [Next]_vars => [HistoryStep]_vars
  BY NextHistory
<1> QED BY <1>1, <1>2, <1>3, BookInvariant, PTL DEF Spec, HistoryGrows

-----------------------------------------------------------------------------
\* A tranche that rests is bookmarked, so a swap meets it.
LEMMA RestingIsBookmarked ==
    ASSUME BookInv, NEW t \in Ticks, pivots[<<TRUE, t>>].time # 0
    PROVE  t \in census /\ HasKnockoutLiq(levels[t].bid)
<1>1. HasKnockoutLiq(levels[t].bid)
  BY DEF BookInv, WordInv, FlagMatchesPivot
<1>2. levels[t].bid # 0
  BY <1>1 DEF HasKnockoutLiq
<1> QED BY <1>1, <1>2 DEF BookInv, DepthInv, BookmarkCoversLots, IsActive

\* The price stays, and no tranche comes to rest on a bid above it.
LEMMA BidsUntouched ==
    ASSUME BidsNeverPassed, tick' = tick,
           \A t \in Ticks : pivots'[<<TRUE, t>>].time # 0 =>
               pivots[<<TRUE, t>>].time # 0 \/ t <= tick
    PROVE  BidsNeverPassed'
BY DEF BidsNeverPassed

\* A mint only opens a bid that starts below the price (SpreadOkay), and a
\* burn opens none.
LEMMA OrderBids ==
    ASSUME BookInv, BidsNeverPassed, NEW o \in Owners, NEW k \in KoLocs, NEW lots \in LotSizes,
           (\E bits \in KoBits : MintKnockout(o, k, lots, bits)) \/ BurnKnockout(o, k, lots)
    PROVE  BidsNeverPassed'
<1> DEFINE key == PivotKey(k)
<1>1. TypeOK /\ key \in PivotKeys /\ k \in KoLocations
  BY PivotEnds, LocsAssumption DEF BookInv, WordInv
<1>2. tick' = tick /\ SpreadOkay(k, tick, TRUE)
  BY DEF MintKnockout, BurnKnockout
<1>3. \A other \in PivotKeys : other # key => pivots'[other] = pivots[other]
  <2>1. CASE \E bits \in KoBits : MintKnockout(o, k, lots, bits)
    BY <1>1, <2>1 DEF MintKnockout, TypeOK
  <2>2. CASE BurnKnockout(o, k, lots)
    BY <1>1, <2>2 DEF BurnKnockout, TypeOK
  <2> QED BY <2>1, <2>2
<1>4. \A t \in Ticks : <<TRUE, t>> \in PivotKeys
  BY DEF PivotKeys
<1>5. \A t \in Ticks : <<TRUE, t>> = key => t <= tick
  <2> SUFFICES ASSUME NEW t \in Ticks, <<TRUE, t>> = key PROVE t <= tick
    OBVIOUS
  <2>1. k.isBid /\ t = k.lower
    BY DEF PivotKey, KnockoutTick
  <2>2. t < tick
    BY <1>2, <2>1 DEF SpreadOkay
  <2> QED BY <1>1, <2>2, TickAssumption DEF TypeOK, PriceTicks, Ticks
<1> HIDE DEF key
<1>6. \A t \in Ticks : pivots'[<<TRUE, t>>].time # 0 =>
          pivots[<<TRUE, t>>].time # 0 \/ t <= tick
  BY <1>3, <1>4, <1>5
<1> QED BY <1>2, <1>6, BidsUntouched

\* The last leg of a swap stops short of every bookmark, so of every bid.
LEMMA SweepEndBids ==
    ASSUME BookInv, BidsNeverPassed, NEW to \in PriceTicks, NEW g \in FeeSteps, SweepEnd(to, g)
    PROVE  BidsNeverPassed'
<1> SUFFICES ASSUME NEW t \in Ticks, pivots[<<TRUE, t>>].time # 0 PROVE t <= to
  BY DEF BidsNeverPassed, SweepEnd, knockoutVars
<1>1. t \in census /\ t <= tick
  BY RestingIsBookmarked DEF BidsNeverPassed
<1>2. tick \in Int /\ t \in Int /\ to \in Int
  BY TickAssumption DEF BookInv, WordInv, TypeOK, PriceTicks, Ticks
<1>3. CASE sweep = "buy"
  BY <1>1, <1>2, <1>3 DEF SweepEnd, ShortOfBump
<1>4. CASE sweep # "buy"
  BY <1>1, <1>2, <1>4 DEF SweepEnd, ShortOfBump, Ahead
<1> QED BY <1>3, <1>4

\* A crossing passes one bookmark.  A bid that rests there is knocked out.
LEMMA CrossingBids ==
    ASSUME BookInv, BidsNeverPassed, NEW b \in Ticks, NEW g \in FeeSteps,
           SweepCross(b, g) \/ SweepKnockout(b, g)
    PROVE  BidsNeverPassed'
<1>1. TypeOK /\ sweep \in {"buy", "sell"} /\ RollOver(b, g)
  BY DEF SweepCross, SweepKnockout, BookInv, WordInv, TypeOK
<1>2. tick \in Int /\ b \in Int
  BY <1>1, TickAssumption DEF TypeOK, PriceTicks, Ticks
<1>3. \A t \in Ticks : pivots'[<<TRUE, t>>].time # 0 => pivots[<<TRUE, t>>].time # 0
  <2>1. CASE SweepCross(b, g)
    BY <2>1 DEF SweepCross, knockoutVars
  <2>2. CASE SweepKnockout(b, g)
    <3>1. pivots' = [pivots EXCEPT ![<<sweep = "sell", b>>] = NoPivot]
      BY <2>2 DEF SweepKnockout
    <3> QED BY <1>1, <3>1 DEF TypeOK, NoPivot, PivotKeys
  <2> QED BY <2>1, <2>2
<1>4. CASE sweep = "buy"
  <2>1. tick' = b /\ tick < b
    BY <1>1, <1>4 DEF RollOver, FarSide, IsNextBump, Ahead
  <2> SUFFICES ASSUME NEW t \in Ticks, pivots[<<TRUE, t>>].time # 0 PROVE t <= b
    BY <1>3, <2>1 DEF BidsNeverPassed
  <2>2. t <= tick
    BY DEF BidsNeverPassed
  <2>3. t \in Int
    BY TickAssumption DEF Ticks
  <2> QED BY <1>2, <2>1, <2>2, <2>3
<1>5. CASE sweep = "sell"
  <2>1. tick' = b - 1 /\ \A c \in census : c <= tick => c <= b
    BY <1>1, <1>5 DEF RollOver, FarSide, IsNextBump, Ahead
  <2>2. pivots'[<<TRUE, b>>].time = 0
    <3>1. CASE SweepCross(b, g)
      BY <1>5, <3>1, RestingIsBookmarked DEF SweepCross, CrossFlag, knockoutVars
    <3>2. CASE SweepKnockout(b, g)
      <4>1. pivots' = [pivots EXCEPT ![<<TRUE, b>>] = NoPivot]
        BY <1>5, <3>2 DEF SweepKnockout
      <4>2. <<TRUE, b>> \in PivotKeys
        BY DEF PivotKeys
      <4> QED BY <1>1, <4>1, <4>2 DEF TypeOK, NoPivot
    <3> QED BY <3>1, <3>2
  <2> SUFFICES ASSUME NEW t \in Ticks, pivots'[<<TRUE, t>>].time # 0 PROVE t <= b - 1
    BY <2>1 DEF BidsNeverPassed
  <2>3. t \in census /\ t <= tick
    BY <1>3, RestingIsBookmarked DEF BidsNeverPassed
  <2>4. t \in Int
    BY TickAssumption DEF Ticks
  <2>5. t <= b /\ t # b
    BY <2>1, <2>2, <2>3
  <2> QED BY <1>2, <2>4, <2>5
<1> QED BY <1>1, <1>4, <1>5

\* One step of the pool, whichever it is.
LEMMA NextBids ==
    ASSUME BookInv, BidsNeverPassed, [Next]_vars
    PROVE  BidsNeverPassed'
<1>1. CASE \E o \in Owners, k \in KoLocs, lots \in LotSizes :
             (\E bits \in KoBits : MintKnockout(o, k, lots, bits)) \/ BurnKnockout(o, k, lots)
  BY <1>1, OrderBids
<1>2. CASE \E g \in FeeSteps : \/ \E t \in PriceTicks : SweepEnd(t, g)
                               \/ \E b \in Ticks : SweepCross(b, g) \/ SweepKnockout(b, g)
  BY <1>2, SweepEndBids, CrossingBids
<1>3. CASE RangeNext
  <2>1. pivots' = pivots /\ tick' = tick
    <3>1. ASSUME NEW o, NEW r, NEW lots, NEW offGrid, MintRange(o, r, lots, offGrid)
          PROVE  pivots' = pivots /\ tick' = tick
      BY <3>1 DEF MintRange, knockoutVars
    <3>2. ASSUME NEW o, NEW r, NEW lots, BurnRange(o, r, lots)
          PROVE  pivots' = pivots /\ tick' = tick
      BY <3>2 DEF BurnRange, knockoutVars
    <3>3. ASSUME NEW o, NEW r, HarvestRange(o, r)
          PROVE  pivots' = pivots /\ tick' = tick
      BY <3>3 DEF HarvestRange, knockoutVars, curveVars
    <3>4. ASSUME NEW o, NEW r, MarkRange(o, r)
          PROVE  pivots' = pivots /\ tick' = tick
      BY <3>4 DEF MarkRange, knockoutVars, curveVars
    <3> QED BY <1>3, <3>1, <3>2, <3>3, <3>4 DEF RangeNext
  <2> QED BY <2>1, BidsUntouched
<1>4. CASE \E o \in Owners, k \in KoLocs :
             \/ \E proven \in ProvableHistory(merkles[PivotKey(k)]) : ClaimKnockout(o, k, proven)
             \/ \E pivotTime \in Times : RecoverKnockout(o, k, pivotTime)
  <2>1. ASSUME NEW o, NEW k, NEW proven, ClaimKnockout(o, k, proven)
        PROVE  pivots' = pivots /\ tick' = tick
    BY <2>1 DEF ClaimKnockout, curveVars
  <2>2. ASSUME NEW o, NEW k, NEW pivotTime, RecoverKnockout(o, k, pivotTime)
        PROVE  pivots' = pivots /\ tick' = tick
    BY <2>2 DEF RecoverKnockout, curveVars
  <2> QED BY <1>4, <2>1, <2>2, BidsUntouched
<1>5. CASE PassTime \/ (\E dir \in {"buy", "sell"} : SweepBegin(dir)) \/ UNCHANGED vars
  <2>1. pivots' = pivots /\ tick' = tick
    BY <1>5 DEF PassTime, SweepBegin, knockoutVars, curveVars, vars
  <2> QED BY <2>1, BidsUntouched
<1> QED BY <1>1, <1>2, <1>3, <1>4, <1>5 DEF Next, KnockoutNext, SweepNext

\* No resting bid is ever left above the price: a sell meets every one of them
\* on its way and knocks it out.
THEOREM BidsKnockedOut == Spec => []BidsNeverPassed
<1>1. Init => BidsNeverPassed
  <2>1. ASSUME Init, NEW t \in Ticks PROVE pivots[<<TRUE, t>>].time = 0
    <3>1. <<TRUE, t>> \in PivotKeys /\ pivots = [k \in PivotKeys |-> NoPivot]
      BY <2>1 DEF PivotKeys, Init
    <3>2. pivots[<<TRUE, t>>] = NoPivot
      BY <3>1
    <3> QED BY <3>2 DEF NoPivot
  <2> QED BY <2>1 DEF BidsNeverPassed
<1>2. BookInv /\ BidsNeverPassed /\ [Next]_vars => BidsNeverPassed'
  BY NextBids
<1> QED BY <1>1, <1>2, BookInvariant, PTL DEF Spec

-----------------------------------------------------------------------------
(***************************************************************************)
(* Stakes: the lots of the positions that can still be burned, added up.   *)
(* A knockout position counts while its tranche rests.                     *)
(***************************************************************************)
IsLive(k) == k[3] # 0 /\ pivots[PivotKey(k[2])].time = k[3]
LiveLots == [k \in KoKeys |-> IF IsLive(k) THEN koPos[k].lots ELSE 0]

\* The stakes whose range is one of Z, a set of pairs of ticks.
Ranges == Ticks \X Ticks
Ends(k) == <<k[2].lower, k[2].upper>>
RangesIn(Z) == {k \in RangeKeys : Ends(k) \in Z}
KnockoutsIn(Z) == {k \in KoKeys : Ends(k) \in Z}
StakeIn(Z) ==
    SumFunctionOnSet(LotsOf(positions), RangesIn(Z))
    + SumFunctionOnSet(LiveLots, KnockoutsIn(Z))

RangesOver(t) == {z \in Ranges : z[1] <= t /\ t < z[2]}
RangesFrom(t) == {z \in Ranges : z[1] = t}
RangesTo(t) == {z \in Ranges : z[2] = t}

AtPivot(key) == {k \in KoKeys : PivotKey(k[2]) = key}

\* The stakes are what the pivots, the two sides of the levels and the depth
\* are made of; a tranche has one range, whatever locations share its pivot.
Backed == \A key \in PivotKeys : pivots[key].lots = SumFunctionOnSet(LiveLots, AtPivot(key))
OneRange ==
    \A k \in KoKeys : LiveLots[k] # 0 => TickRange(k[2]) = pivots[PivotKey(k[2])].width
NoneAtZero == \A k \in KoKeys : k[3] = 0 => koPos[k].lots = 0
Sides ==
    \A t \in Ticks :
        /\ LotsToLiquidity(levels[t].bid) = StakeIn(RangesFrom(t))
        /\ LotsToLiquidity(levels[t].ask) = StakeIn(RangesTo(t))
Depths == \A t \in Ticks : depth[t] = StakeIn(RangesOver(t))

TranchesBacked == Backed /\ OneRange /\ NoneAtZero /\ DeadTrancheRecoverable
StakeInv == TranchesBacked /\ Sides /\ Depths

-----------------------------------------------------------------------------
\* There are finitely many keys of positions.
LEMMA FiniteKeys == IsFiniteSet(RangeKeys) /\ IsFiniteSet(KoKeys)
<1>1. IsFiniteSet(Ranges)
  BY TickAssumption, FS_Interval, FS_Product DEF Ranges, Ticks
<1>2. IsFiniteSet(RangeLocs)
  <2> DEFINE f == [r \in RangeLocs |-> <<r.lower, r.upper>>]
  <2>1. f \in [RangeLocs -> Ranges]
    BY LocFacts DEF Ranges
  <2>2. \A r, s \in RangeLocs : f[r] = f[s] => r = s
    BY LocsAssumption DEF Locs
  <2>3. f \in Injection(RangeLocs, Ranges)
    BY <2>1, <2>2 DEF Injection, IsInjective
  <2> HIDE DEF f
  <2> QED BY <1>1, <2>3, FS_Injection
<1>3. IsFiniteSet(KoLocs)
  <2> DEFINE f == [k \in KoLocs |-> <<k.isBid, <<k.lower, k.upper>>>>]
  <2>1. f \in [KoLocs -> BOOLEAN \X Ranges]
    BY LocFacts DEF Ranges
  <2>2. \A j, k \in KoLocs : f[j] = f[k] => j = k
    BY LocsAssumption DEF KoLocations
  <2>3. f \in Injection(KoLocs, BOOLEAN \X Ranges)
    BY <2>1, <2>2 DEF Injection, IsInjective
  <2>4. IsFiniteSet(BOOLEAN \X Ranges)
    <3>1. IsFiniteSet({TRUE} \cup {FALSE})
      BY FS_Singleton, FS_Union
    <3>2. BOOLEAN = {TRUE} \cup {FALSE}
      OBVIOUS
    <3> QED BY <1>1, <3>1, <3>2, FS_Product
  <2> HIDE DEF f
  <2> QED BY <2>3, <2>4, FS_Injection
<1>4. IsFiniteSet(KoKeys)
  <2> DEFINE T == (Owners \X KoLocs) \X Times
             f == [k \in KoKeys |-> <<<<k[1], k[2]>>, k[3]>>]
  <2>1. f \in Injection(KoKeys, T)
    BY DEF KoKeys, Injection, IsInjective
  <2>2. IsFiniteSet(T)
    <3>1. IsFiniteSet(Times)
      BY BoundsAssumption, FS_Interval DEF Times
    <3>2. IsFiniteSet(Owners \X KoLocs)
      BY <1>3, OwnersAssumption, FS_Product
    <3> QED BY <3>1, <3>2, FS_Product
  <2> HIDE DEF f, T
  <2> QED BY <2>1, <2>2, FS_Injection
<1> QED BY <1>2, <1>4, OwnersAssumption, FS_Product DEF RangeKeys

\* What is summed up are natural numbers, over finite sets.
LEMMA StakesTyped ==
    ASSUME TypeOK
    PROVE  /\ \A k \in RangeKeys : /\ LotsOf(positions)[k] = positions[k].lots
                                   /\ positions[k].lots \in Nat
           /\ \A k \in KoKeys : /\ LotsOf(koPos)[k] = koPos[k].lots
                                /\ koPos[k].lots \in Nat
                                /\ LiveLots[k] = IF IsLive(k) THEN koPos[k].lots ELSE 0
                                /\ LiveLots[k] \in Nat
BY DEF TypeOK, Positions, KoPositions, LotsOf, LiveLots

LEMMA StakesTypedNext ==
    ASSUME TypeOK'
    PROVE  /\ \A k \in RangeKeys : /\ LotsOf(positions')[k] = positions'[k].lots
                                   /\ positions'[k].lots \in Nat
           /\ \A k \in KoKeys : /\ LotsOf(koPos')[k] = koPos'[k].lots
                                /\ koPos'[k].lots \in Nat
                                /\ LiveLots'[k] = IF IsLive(k)' THEN koPos'[k].lots ELSE 0
                                /\ LiveLots'[k] \in Nat
BY DEF TypeOK, Positions, KoPositions, LotsOf, LiveLots

LEMMA StakeSets ==
    /\ \A Z : /\ RangesIn(Z) \subseteq RangeKeys /\ IsFiniteSet(RangesIn(Z))
              /\ KnockoutsIn(Z) \subseteq KoKeys /\ IsFiniteSet(KnockoutsIn(Z))
    /\ \A key : AtPivot(key) \subseteq KoKeys /\ IsFiniteSet(AtPivot(key))
BY FiniteKeys, FS_Subset DEF RangesIn, KnockoutsIn, AtPivot

LEMMA StakeIsNat ==
    ASSUME TypeOK, NEW Z
    PROVE  StakeIn(Z) \in Nat
<1>1. SumFunctionOnSet(LotsOf(positions), RangesIn(Z)) \in Nat
  BY StakesTyped, StakeSets, SumIsNat
<1>2. SumFunctionOnSet(LiveLots, KnockoutsIn(Z)) \in Nat
  BY StakesTyped, StakeSets, SumIsNat
<1> QED BY <1>1, <1>2 DEF StakeIn

-----------------------------------------------------------------------------
(***************************************************************************)
(* What a step does to the stakes.                                         *)
(***************************************************************************)
\* In a step d lots join the stakes of the range [l, u) (or leave them).
StakesShift(l, u, d) ==
    \A Z \in SUBSET Ranges :
        StakeIn(Z)' = StakeIn(Z) + (IF <<l, u>> \in Z THEN d ELSE 0)

LEMMA RangeShifts ==
    ASSUME TypeOK, TypeOK', LiveLots' = LiveLots,
           NEW key \in RangeKeys, NEW d \in Int,
           positions'[key].lots = positions[key].lots + d,
           \A k \in RangeKeys \ {key} : positions'[k].lots = positions[k].lots
    PROVE  StakesShift(key[2].lower, key[2].upper, d)
<1> SUFFICES ASSUME NEW Z \in SUBSET Ranges
             PROVE  StakeIn(Z)' = StakeIn(Z) + (IF Ends(key) \in Z THEN d ELSE 0)
  BY DEF StakesShift, Ends
<1> DEFINE f == LotsOf(positions)
           g == LotsOf(positions')
<1>1. /\ \A k \in RangeKeys : f[k] \in Int /\ g[k] \in Int
      /\ \A k \in RangeKeys \ {key} : f[k] = g[k]
      /\ g[key] - f[key] = d
  BY StakesTyped, StakesTypedNext
<1>2. RangesIn(Z) \in SUBSET RangeKeys /\ (key \in RangesIn(Z) <=> Ends(key) \in Z)
  BY DEF RangesIn
<1>3. SumFunctionOnSet(f, RangesIn(Z)) \in Int
  BY <1>1, StakeSets, SumIsInt
<1>4. SumFunctionOnSet(LiveLots, KnockoutsIn(Z)) \in Int
  BY StakesTyped, StakeSets, SumIsInt
<1> HIDE DEF f, g
<1>5. SumFunctionOnSet(g, RangesIn(Z))
        = SumFunctionOnSet(f, RangesIn(Z)) + (IF Ends(key) \in Z THEN d ELSE 0)
  BY <1>1, <1>2, FiniteKeys, SumShifts
<1>6. StakeIn(Z) = SumFunctionOnSet(f, RangesIn(Z))
                     + SumFunctionOnSet(LiveLots, KnockoutsIn(Z))
  BY DEF StakeIn, f
<1>7. StakeIn(Z)' = SumFunctionOnSet(g, RangesIn(Z))
                     + SumFunctionOnSet(LiveLots, KnockoutsIn(Z))
  BY DEF StakeIn, g
<1> QED BY <1>3, <1>4, <1>5, <1>6, <1>7

\* One knockout position changes while its tranche rests.
LEMMA KnockoutShifts ==
    ASSUME TypeOK, TypeOK', positions' = positions,
           NEW key \in KoKeys, NEW d \in Int, LiveLots'[key] = LiveLots[key] + d,
           \A k \in KoKeys \ {key} : LiveLots'[k] = LiveLots[k]
    PROVE  /\ StakesShift(key[2].lower, key[2].upper, d)
           /\ \A at \in PivotKeys :
                 SumFunctionOnSet(LiveLots, AtPivot(at))'
                   = SumFunctionOnSet(LiveLots, AtPivot(at))
                       + (IF at = PivotKey(key[2]) THEN d ELSE 0)
<1> DEFINE f == LiveLots
           g == LiveLots'
           all(Z) == SumFunctionOnSet(LotsOf(positions), RangesIn(Z))
<1>1. /\ \A k \in KoKeys : f[k] \in Int /\ g[k] \in Int
      /\ \A k \in KoKeys \ {key} : f[k] = g[k]
      /\ g[key] - f[key] = d
  BY StakesTyped, StakesTypedNext
<1>2. ASSUME NEW S \in SUBSET KoKeys
      PROVE  /\ SumFunctionOnSet(f, S) \in Int
             /\ SumFunctionOnSet(g, S)
                  = SumFunctionOnSet(f, S) + (IF key \in S THEN d ELSE 0)
  <2>1. IsFiniteSet(S)
    BY FiniteKeys, FS_Subset
  <2> HIDE DEF f, g
  <2> QED BY <1>1, <2>1, FiniteKeys, SumShifts, SumIsInt
<1>3. ASSUME NEW Z \in SUBSET Ranges
      PROVE  StakeIn(Z)' = StakeIn(Z) + (IF Ends(key) \in Z THEN d ELSE 0)
  <2>1. KnockoutsIn(Z) \in SUBSET KoKeys /\ (key \in KnockoutsIn(Z) <=> Ends(key) \in Z)
    BY DEF KnockoutsIn
  <2>2. all(Z) \in Int
    BY StakesTyped, StakeSets, SumIsInt
  <2>3. StakeIn(Z) = all(Z) + SumFunctionOnSet(f, KnockoutsIn(Z))
    BY DEF StakeIn
  <2>4. StakeIn(Z)' = all(Z) + SumFunctionOnSet(g, KnockoutsIn(Z))
    BY DEF StakeIn
  <2>5. /\ SumFunctionOnSet(f, KnockoutsIn(Z)) \in Int
        /\ SumFunctionOnSet(g, KnockoutsIn(Z))
             = SumFunctionOnSet(f, KnockoutsIn(Z)) + (IF Ends(key) \in Z THEN d ELSE 0)
    BY <1>2, <2>1
  <2> HIDE DEF f, g, all
  <2> QED BY <2>2, <2>3, <2>4, <2>5
<1>4. ASSUME NEW at \in PivotKeys
      PROVE  SumFunctionOnSet(g, AtPivot(at))
               = SumFunctionOnSet(f, AtPivot(at))
                   + (IF at = PivotKey(key[2]) THEN d ELSE 0)
  <2>1. AtPivot(at) \in SUBSET KoKeys /\ (key \in AtPivot(at) <=> at = PivotKey(key[2]))
    BY DEF AtPivot
  <2> HIDE DEF f, g
  <2> QED BY <1>2, <2>1
<1> QED BY <1>3, <1>4 DEF StakesShift, Ends

\* The positions that rest in a tranche have its range.
LEMMA TrancheRange ==
    ASSUME TypeOK, OneRange, NEW key \in PivotKeys, NEW k \in AtPivot(key), LiveLots[k] # 0
    PROVE  Ends(k) = <<PivotLower(key, pivots[key].width), PivotUpper(key, pivots[key].width)>>
<1>1. k \in KoKeys /\ PivotKey(k[2]) = key
  BY DEF AtPivot
<1>2. k[2] \in KoLocs
  BY <1>1 DEF KoKeys
<1>3. TickRange(k[2]) = pivots[key].width
  BY <1>1 DEF OneRange
<1> QED BY <1>1, <1>2, <1>3, PivotEnds DEF Ends

\* A tranche is knocked out with all its positions.
LEMMA TrancheShifts ==
    ASSUME TypeOK, TypeOK', positions' = positions, Backed, OneRange,
           NEW key \in PivotKeys,
           \A k \in KoKeys : LiveLots'[k] = IF k \in AtPivot(key) THEN 0 ELSE LiveLots[k]
    PROVE  /\ StakesShift(PivotLower(key, pivots[key].width),
                          PivotUpper(key, pivots[key].width), -pivots[key].lots)
           /\ \A at \in PivotKeys :
                 SumFunctionOnSet(LiveLots, AtPivot(at))'
                   = IF at = key THEN 0 ELSE SumFunctionOnSet(LiveLots, AtPivot(at))
<1> DEFINE f == LiveLots
           g == LiveLots'
           all(Z) == SumFunctionOnSet(LotsOf(positions), RangesIn(Z))
           range == <<PivotLower(key, pivots[key].width), PivotUpper(key, pivots[key].width)>>
           lots == pivots[key].lots
           A == AtPivot(key)
<1>1. /\ \A k \in KoKeys : f[k] \in Nat /\ g[k] \in Nat
      /\ \A k \in KoKeys : g[k] = IF k \in A THEN 0 ELSE f[k]
      /\ A \in SUBSET KoKeys /\ IsFiniteSet(A) /\ lots = SumFunctionOnSet(f, A)
      /\ lots \in Nat
  <2>1. lots \in Nat
    BY DEF TypeOK, Pivots, LotWords
  <2> QED BY <2>1, StakesTyped, StakesTypedNext, StakeSets DEF Backed
<1>2. ASSUME NEW k \in A, Ends(k) # range
      PROVE  f[k] = 0
  BY <1>2, TrancheRange
<1>3. ASSUME NEW S \in SUBSET KoKeys
      PROVE  /\ SumFunctionOnSet(f, S \cap A) \in Int
             /\ SumFunctionOnSet(f, S \ A) \in Int
             /\ SumFunctionOnSet(f, S)
                  = SumFunctionOnSet(f, S \cap A) + SumFunctionOnSet(f, S \ A)
             /\ SumFunctionOnSet(g, S) = SumFunctionOnSet(f, S \ A)
  <2>1. IsFiniteSet(S) /\ IsFiniteSet(S \cap A) /\ IsFiniteSet(S \ A)
    BY FiniteKeys, FS_Subset
  <2>2. \A k \in S : f[k] \in Int /\ g[k] \in Int
    BY <1>1
  <2>3. /\ \A k \in S \cap A : g[k] = 0
        /\ \A k \in S \ A : g[k] = f[k]
    BY <1>1
  <2> HIDE DEF f, g, A
  <2>4. SumFunctionOnSet(f, S \cap A) \in Int /\ SumFunctionOnSet(f, S \ A) \in Int
    BY <2>1, <2>2, SumIsInt
  <2>5. SumFunctionOnSet(f, S)
          = SumFunctionOnSet(f, S \cap A) + SumFunctionOnSet(f, S \ A)
    BY ONLY <2>1, <2>2, SumSplits
  <2>6. SumFunctionOnSet(g, S)
          = SumFunctionOnSet(g, S \cap A) + SumFunctionOnSet(g, S \ A)
    BY ONLY <2>1, <2>2, SumSplits
  <2>7. SumFunctionOnSet(g, S \cap A) = 0
    BY ONLY <2>1, <2>3, SumOfZeros
  <2>8. SumFunctionOnSet(g, S \ A) = SumFunctionOnSet(f, S \ A)
    BY ONLY <2>1, <2>3, SumAgree
  <2> QED BY <2>4, <2>5, <2>6, <2>7, <2>8
<1>4. ASSUME NEW Z \in SUBSET Ranges
      PROVE  SumFunctionOnSet(f, KnockoutsIn(Z) \cap A) = IF range \in Z THEN lots ELSE 0
  <2> DEFINE K == KnockoutsIn(Z)
  <2>1. \A k \in KoKeys : k \in K <=> Ends(k) \in Z
    BY DEF KnockoutsIn
  <2>2. CASE range \in Z
    <3>1. SumFunctionOnSet(f, A)
            = SumFunctionOnSet(f, A \cap K) + SumFunctionOnSet(f, A \ K)
      <4>1. \A k \in A : f[k] \in Int
        BY <1>1
      <4> HIDE DEF f, A, K
      <4> QED BY <1>1, <4>1, SumSplits
    <3>2. SumFunctionOnSet(f, A \ K) = 0
      <4>1. \A k \in A \ K : f[k] = 0
        BY <1>1, <1>2, <2>1, <2>2
      <4>2. IsFiniteSet(A \ K)
        BY <1>1, FS_Subset
      <4> HIDE DEF f, A, K
      <4> QED BY <4>1, <4>2, SumOfZeros
    <3>3. A \cap K = K \cap A
      OBVIOUS
    <3>4. SumFunctionOnSet(f, K \cap A) \in Int
      BY <1>3, StakeSets
    <3>5. SumFunctionOnSet(f, K \cap A) = lots
      <4>1. lots = SumFunctionOnSet(f, A)
        BY <1>1
      <4>2. SumFunctionOnSet(f, A \cap K) = SumFunctionOnSet(f, K \cap A)
        BY <3>3
      <4> HIDE DEF f, A, K, lots
      <4> QED BY <3>1, <3>2, <3>4, <4>1, <4>2
    <3> QED BY <2>2, <3>5
  <2>3. CASE range \notin Z
    <3>1. \A k \in K \cap A : f[k] = 0
      BY <1>1, <1>2, <2>1, <2>3
    <3>2. IsFiniteSet(K \cap A)
      BY <1>1, FS_Subset
    <3>3. SumFunctionOnSet(f, K \cap A) = 0
      <4> HIDE DEF f, A, K
      <4> QED BY <3>1, <3>2, SumOfZeros
    <3> QED BY <2>3, <3>3
  <2> QED BY <2>2, <2>3
<1>5. ASSUME NEW Z \in SUBSET Ranges
      PROVE  StakeIn(Z)' = StakeIn(Z) + (IF range \in Z THEN -lots ELSE 0)
  <2> DEFINE K == KnockoutsIn(Z)
  <2>1. all(Z) \in Int
    BY StakesTyped, StakeSets, SumIsInt
  <2>2. StakeIn(Z) = all(Z) + SumFunctionOnSet(f, K)
    BY DEF StakeIn
  <2>3. StakeIn(Z)' = all(Z) + SumFunctionOnSet(g, K)
    BY DEF StakeIn
  <2>4. /\ SumFunctionOnSet(f, K \cap A) \in Int
        /\ SumFunctionOnSet(f, K \ A) \in Int
        /\ SumFunctionOnSet(f, K)
             = SumFunctionOnSet(f, K \cap A) + SumFunctionOnSet(f, K \ A)
        /\ SumFunctionOnSet(g, K) = SumFunctionOnSet(f, K \ A)
    BY <1>3, StakeSets
  <2>5. SumFunctionOnSet(f, K \cap A) = IF range \in Z THEN lots ELSE 0
    BY <1>4
  <2> HIDE DEF f, g, all, A, K, lots, range
  <2> QED BY <1>1, <2>1, <2>2, <2>3, <2>4, <2>5
<1>6. ASSUME NEW at \in PivotKeys
      PROVE  SumFunctionOnSet(g, AtPivot(at))
               = IF at = key THEN 0 ELSE SumFunctionOnSet(f, AtPivot(at))
  <2> DEFINE S == AtPivot(at)
  <2>1. IsFiniteSet(S) /\ S \in SUBSET KoKeys
    BY StakeSets
  <2>2. CASE at = key
    <3>1. \A k \in S : g[k] = 0
      BY <1>1, <2>2
    <3>2. SumFunctionOnSet(g, S) = 0
      <4> HIDE DEF g, S
      <4> QED BY <2>1, <3>1, SumOfZeros
    <3> QED BY <2>2, <3>2
  <2>3. CASE at # key
    <3>1. \A k \in S : g[k] = f[k]
      BY <1>1, <2>3 DEF AtPivot
    <3>2. SumFunctionOnSet(g, S) = SumFunctionOnSet(f, S)
      <4> HIDE DEF f, g, S
      <4> QED BY <2>1, <3>1, SumAgree
    <3> QED BY <2>3, <3>2
  <2> QED BY <2>2, <2>3
<1> QED BY <1>5, <1>6 DEF StakesShift

-----------------------------------------------------------------------------
(***************************************************************************)
(* The stakes in the terms of the properties.                              *)
(***************************************************************************)
LEMMA LiveSum ==
    ASSUME TypeOK, NEW S \in SUBSET KoKeys
    PROVE  SumFunctionOnSet(LiveLots, S)
             = SumFunctionOnSet(LotsOf(koPos), {k \in S : IsLive(k)})
<1> DEFINE L == {k \in S : IsLive(k)}
           f == LiveLots
           g == LotsOf(koPos)
<1>1. /\ IsFiniteSet(S) /\ IsFiniteSet(L) /\ IsFiniteSet(S \ L) /\ S \cap L = L
      /\ \A k \in S : f[k] \in Int
      /\ \A k \in L : f[k] = g[k]
      /\ \A k \in S \ L : f[k] = 0
  BY FiniteKeys, FS_Subset, StakesTyped
<1>2. SumFunctionOnSet(f, S) = SumFunctionOnSet(g, L)
  <2> HIDE DEF L, f, g
  <2>1. SumFunctionOnSet(f, S) = SumFunctionOnSet(f, L) + SumFunctionOnSet(f, S \ L)
    <3>1. SumFunctionOnSet(f, S)
            = SumFunctionOnSet(f, S \cap L) + SumFunctionOnSet(f, S \ L)
      BY ONLY <1>1, SumSplits
    <3> QED BY <1>1, <3>1
  <2>2. SumFunctionOnSet(f, S \ L) = 0
    BY <1>1, SumOfZeros
  <2>3. SumFunctionOnSet(f, L) = SumFunctionOnSet(g, L)
    BY <1>1, SumAgree
  <2>4. SumFunctionOnSet(f, L) \in Int
    <3>1. \A k \in L : f[k] \in Int
      BY <1>1
    <3> QED BY <1>1, <3>1, SumIsInt
  <2> QED BY <2>1, <2>2, <2>3, <2>4
<1> QED BY <1>2

LEMMA StakeOverIs ==
    ASSUME TypeOK, NEW t \in Ticks
    PROVE  StakeOver(t) = StakeIn(RangesOver(t))
<1> DEFINE Z == RangesOver(t)
<1>1. {k \in RangeKeys : Covers(k[2], t)} = RangesIn(Z)
  <2>1. \A k \in RangeKeys : Covers(k[2], t) <=> Ends(k) \in Z
    BY LocFacts DEF RangeKeys, Covers, RangesOver, Ranges, Ends
  <2> QED BY <2>1 DEF RangesIn
<1>2. LiveKnockouts(t) = {k \in KnockoutsIn(Z) : IsLive(k)}
  <2>1. \A k \in KoKeys : Covers(k[2], t) <=> Ends(k) \in Z
    BY LocFacts DEF KoKeys, Covers, RangesOver, Ranges, Ends
  <2> QED BY <2>1 DEF LiveKnockouts, KnockoutsIn, IsLive
<1>3. SumFunctionOnSet(LiveLots, KnockoutsIn(Z))
        = SumFunctionOnSet(LotsOf(koPos), LiveKnockouts(t))
  BY <1>2, LiveSum, StakeSets
<1> QED BY <1>1, <1>3 DEF StakeOver, StakeIn

\* The depth is what the positions stack, and a tranche is what they hold.
LEMMA StakesMeanIt ==
    ASSUME TypeOK, PivotShape, StakeInv
    PROVE  DepthIsPositions /\ PivotBacked
<1>1. DepthIsPositions
  BY StakeOverIs DEF DepthIsPositions, StakeInv, Depths
<1>2. ASSUME NEW key \in PivotKeys, pivots[key].time # 0
      PROVE  pivots[key].lots
               = SumFunctionOnSet(LotsOf(koPos), TrancheKeys(key, pivots[key].time))
  <2>1. {k \in AtPivot(key) : IsLive(k)} = TrancheKeys(key, pivots[key].time)
    BY <1>2 DEF AtPivot, IsLive, TrancheKeys
  <2> QED BY <2>1, LiveSum, StakeSets DEF StakeInv, TranchesBacked, Backed
<1> QED BY <1>1, <1>2 DEF PivotBacked

-----------------------------------------------------------------------------
(***************************************************************************)
(* The book follows the stakes.                                            *)
(***************************************************************************)
\* In a step d lots of the range [l, u) go onto the two levels and the depth.
SidesShift(l, u, d) ==
    \A t \in Ticks :
        /\ LotsToLiquidity(levels'[t].bid) = LotsToLiquidity(levels[t].bid) + BidLots(l, t, d)
        /\ LotsToLiquidity(levels'[t].ask) = LotsToLiquidity(levels[t].ask) + AskLots(u, t, d)

LEMMA BookFollows ==
    ASSUME TypeOK, Sides, Depths, NEW l \in Ticks, NEW u \in Ticks, NEW d \in Int,
           StakesShift(l, u, d), SidesShift(l, u, d), depth' = Stacked(depth, l, u, d)
    PROVE  Sides' /\ Depths'
<1>1. ASSUME NEW t \in Ticks
      PROVE  /\ RangesFrom(t) \in SUBSET Ranges /\ (<<l, u>> \in RangesFrom(t) <=> t = l)
             /\ RangesTo(t) \in SUBSET Ranges /\ (<<l, u>> \in RangesTo(t) <=> t = u)
             /\ RangesOver(t) \in SUBSET Ranges
             /\ <<l, u>> \in RangesOver(t) <=> l <= t /\ t < u
  BY DEF RangesFrom, RangesTo, RangesOver, Ranges
<1>2. ASSUME NEW t \in Ticks
      PROVE  /\ LotsToLiquidity(levels'[t].bid) = StakeIn(RangesFrom(t))'
             /\ LotsToLiquidity(levels'[t].ask) = StakeIn(RangesTo(t))'
  BY <1>1 DEF Sides, SidesShift, StakesShift, BidLots, AskLots
<1>3. ASSUME NEW t \in Ticks
      PROVE  depth'[t] = StakeIn(RangesOver(t))'
  <2>1. depth'[t] = IF l <= t /\ t < u THEN depth[t] + d ELSE depth[t]
    BY DEF Stacked
  <2>2. depth[t] = StakeIn(RangesOver(t)) /\ depth[t] \in Int
    BY DEF Depths, TypeOK
  <2> QED BY <1>1, <2>1, <2>2 DEF StakesShift
<1> QED BY <1>2, <1>3 DEF Sides, Depths

\* Nothing of it moves.
LEMMA BookStays ==
    ASSUME Sides, Depths, \A Z \in SUBSET Ranges : StakeIn(Z)' = StakeIn(Z), depth' = depth,
           \A t \in Ticks :
               /\ LotsToLiquidity(levels'[t].bid) = LotsToLiquidity(levels[t].bid)
               /\ LotsToLiquidity(levels'[t].ask) = LotsToLiquidity(levels[t].ask)
    PROVE  Sides' /\ Depths'
<1>1. ASSUME NEW t \in Ticks
      PROVE  /\ RangesFrom(t) \in SUBSET Ranges /\ RangesTo(t) \in SUBSET Ranges
             /\ RangesOver(t) \in SUBSET Ranges
  BY DEF RangesFrom, RangesTo, RangesOver
<1> QED BY <1>1 DEF Sides, Depths

\* Positions, pivots and histories are left alone.
LEMMA StakesUntouched ==
    ASSUME StakeInv, UNCHANGED <<positions, knockoutVars, depth>>,
           \A t \in Ticks :
               /\ LotsToLiquidity(levels'[t].bid) = LotsToLiquidity(levels[t].bid)
               /\ LotsToLiquidity(levels'[t].ask) = LotsToLiquidity(levels[t].ask)
    PROVE  StakeInv'
<1>1. LiveLots' = LiveLots
  BY DEF LiveLots, IsLive, knockoutVars
<1>2. \A Z \in SUBSET Ranges : StakeIn(Z)' = StakeIn(Z)
  BY <1>1 DEF StakeIn
<1>3. Sides' /\ Depths'
  BY <1>2, BookStays DEF StakeInv
<1>4. TranchesBacked'
  BY <1>1 DEF StakeInv, TranchesBacked, Backed, OneRange, NoneAtZero,
              DeadTrancheRecoverable, knockoutVars
<1> QED BY <1>3, <1>4 DEF StakeInv

LEMMA InitStakeInv == Init => StakeInv
<1> SUFFICES ASSUME Init PROVE StakeInv
  OBVIOUS
<1>1. TypeOK
  BY InitBookInv DEF BookInv, WordInv
<1>2. /\ \A k \in RangeKeys : LotsOf(positions)[k] = 0
      /\ \A k \in KoKeys : koPos[k].lots = 0 /\ LiveLots[k] = 0
  <2>1. /\ \A k \in RangeKeys : positions[k].lots = 0
        /\ \A k \in KoKeys : koPos[k].lots = 0
    BY DEF Init, NoPosition, NoKnockoutPos
  <2> QED BY <1>1, <2>1, StakesTyped
<1>3. ASSUME NEW Z PROVE StakeIn(Z) = 0
  <2>1. SumFunctionOnSet(LotsOf(positions), RangesIn(Z)) = 0
    BY <1>2, StakeSets, SumOfZeros
  <2>2. SumFunctionOnSet(LiveLots, KnockoutsIn(Z)) = 0
    BY <1>2, StakeSets, SumOfZeros
  <2> QED BY <2>1, <2>2 DEF StakeIn
<1>4. \A t \in Ticks : levels[t].bid = 0 /\ levels[t].ask = 0 /\ depth[t] = 0
  BY DEF Init, NoLevel
<1>5. Sides /\ Depths
  BY <1>3, <1>4 DEF Sides, Depths, LotsToLiquidity
<1>6. Backed
  <2>1. \A key \in PivotKeys : SumFunctionOnSet(LiveLots, AtPivot(key)) = 0
    BY <1>2, StakeSets, SumOfZeros
  <2>2. \A key \in PivotKeys : pivots[key].lots = 0
    BY DEF Init, NoPivot
  <2> QED BY <2>1, <2>2 DEF Backed
<1> QED BY <1>2, <1>5, <1>6
        DEF StakeInv, TranchesBacked, OneRange, NoneAtZero, DeadTrancheRecoverable

-----------------------------------------------------------------------------
(***************************************************************************)
(* The sides of the levels in a step.                                      *)
(***************************************************************************)
\* The liquidity of a level without its flags.
LEMMA SidesTyped ==
    ASSUME NEW lvls \in Books, NEW t \in Ticks
    PROVE  LotsToLiquidity(lvls[t].bid) \in Int /\ LotsToLiquidity(lvls[t].ask) \in Int
BY DEF Books, Levels, LotWords, LotsToLiquidity

\* Taking lots off both ends is adding their negation.
LEMMA SidesCut ==
    ASSUME levels \in Books, NEW l, NEW u, NEW lots \in Nat,
           \A t \in Ticks :
               /\ LotsToLiquidity(levels'[t].bid)
                    = LotsToLiquidity(levels[t].bid) - BidLots(l, t, lots)
               /\ LotsToLiquidity(levels'[t].ask)
                    = LotsToLiquidity(levels[t].ask) - AskLots(u, t, lots)
    PROVE  SidesShift(l, u, -lots)
<1> SUFFICES ASSUME NEW t \in Ticks
             PROVE  /\ LotsToLiquidity(levels'[t].bid)
                         = LotsToLiquidity(levels[t].bid) + BidLots(l, t, -lots)
                    /\ LotsToLiquidity(levels'[t].ask)
                         = LotsToLiquidity(levels[t].ask) + AskLots(u, t, -lots)
  BY DEF SidesShift
<1> QED BY SidesTyped DEF BidLots, AskLots

\* The positions in range orders change and nothing else of a stake.
LEMMA RangeStakes ==
    ASSUME TypeOK, TypeOK', StakeInv, UNCHANGED knockoutVars,
           NEW o \in Owners, NEW r \in RangeLocs, NEW d \in Int, NEW pos,
           positions' = [positions EXCEPT ![<<o, r>>] = pos],
           pos.lots = positions[<<o, r>>].lots + d,
           SidesShift(r.lower, r.upper, d), depth' = Stacked(depth, r.lower, r.upper, d)
    PROVE  StakeInv'
<1> DEFINE key == <<o, r>>
<1>1. LiveLots' = LiveLots
  BY DEF LiveLots, IsLive, knockoutVars
<1>2. TranchesBacked'
  BY <1>1 DEF StakeInv, TranchesBacked, Backed, OneRange, NoneAtZero,
              DeadTrancheRecoverable, knockoutVars
<1>3. key \in RangeKeys /\ key[2] = r
  BY DEF RangeKeys
<1>4. /\ positions'[key].lots = positions[key].lots + d
      /\ \A k \in RangeKeys \ {key} : positions'[k].lots = positions[k].lots
  BY <1>3 DEF TypeOK
<1>5. StakesShift(r.lower, r.upper, d)
  <2> HIDE DEF key
  <2> QED BY <1>1, <1>3, <1>4, RangeShifts
<1>6. Sides' /\ Depths'
  BY <1>5, LocFacts, BookFollows DEF StakeInv
<1> QED BY <1>2, <1>6 DEF StakeInv

\* A mint adds its lots to one position and to the two levels of its range.
LEMMA MintRangeStakes ==
    ASSUME BookInv, BookInv', StakeInv, NEW o \in Owners, NEW r \in RangeLocs,
           NEW lots \in LotSizes, NEW offGrid \in BOOLEAN, MintRange(o, r, lots, offGrid)
    PROVE  StakeInv'
<1> DEFINE l == r.lower
           u == r.upper
           pos == positions[<<o, r>>]
           clock == ClockAfterAdd(l, u, lots)
           new == [IncrementPosLiq(pos, lots, clock, now) EXCEPT !.atomic = @ \/ offGrid]
<1>1. l \in Ticks /\ u \in Ticks /\ l < u /\ lots \in Nat /\ lots % 2 = 0
  BY LocFacts
<1>2. TypeOK /\ TypeOK' /\ levels \in Books /\ tick \in Int /\ concGrowth \in FeeWords
  BY TickAssumption DEF BookInv, WordInv, TypeOK, Books, PriceTicks
<1>3. /\ AddBookFits(levels, l, u, lots)
      /\ levels' = AddBookLiq(levels, tick, l, u, lots, concGrowth)
      /\ depth' = Stacked(depth, l, u, lots)
      /\ positions' = [positions EXCEPT ![<<o, r>>] = new]
      /\ UNCHANGED knockoutVars
  BY StackIsStacked DEF MintRange, AddOrder
<1>4. SidesShift(l, u, lots)
  <2> HIDE DEF l, u
  <2> QED BY <1>1, <1>2, <1>3, AddBookFacts DEF SidesShift
<1>5. new.lots = pos.lots + lots
  <2>1. pos \in Positions
    BY <1>2 DEF TypeOK, RangeKeys
  <2>2. IncrementPosLiq(pos, lots, clock, now)
          = [pos EXCEPT !.lots = pos.lots + lots,
                        !.mileage = MintMileage(pos, lots, clock), !.stamp = now]
    BY DEF IncrementPosLiq
  <2> HIDE DEF pos, clock
  <2> QED BY <2>1, <2>2 DEF Positions
<1>6. lots \in Int
  BY <1>1
<1> HIDE DEF new
<1> QED BY <1>2, <1>3, <1>4, <1>5, <1>6, RangeStakes

\* A burn takes its lots off one position and off the two levels of its range.
LEMMA BurnRangeStakes ==
    ASSUME BookInv, BookInv', StakeInv, NEW o \in Owners, NEW r \in RangeLocs,
           NEW lots \in LotSizes, BurnRange(o, r, lots)
    PROVE  StakeInv'
<1> DEFINE l == r.lower
           u == r.upper
           pos == positions[<<o, r>>]
           new == DecrementLiq(pos, lots)
<1>1. l \in Ticks /\ u \in Ticks /\ l < u /\ lots \in Nat /\ lots % 2 = 0
  BY LocFacts
<1>2. TypeOK /\ TypeOK' /\ levels \in Books
  BY DEF BookInv, WordInv, TypeOK, Books
<1>3. /\ RemoveBookFits(levels, l, u, lots)
      /\ levels' = RemoveBookLiq(levels, l, u, lots)
      /\ depth' = Stacked(depth, l, u, -lots)
      /\ positions' = [positions EXCEPT ![<<o, r>>] = new]
      /\ pos.lots >= lots
      /\ UNCHANGED knockoutVars
  BY StackIsStacked DEF BurnRange, DecrementFits
<1>4. SidesShift(l, u, -lots)
  <2> HIDE DEF l, u
  <2> QED BY <1>1, <1>2, <1>3, RemoveBookFacts, SidesCut
<1>5. new.lots = pos.lots + (-lots)
  <2>1. pos \in Positions
    BY <1>2 DEF TypeOK, RangeKeys
  <2>2. pos.lots \in Nat
    BY <2>1 DEF Positions
  <2> HIDE DEF pos
  <2>3. CASE pos.lots > lots
    BY <1>1, <2>1, <2>2, <2>3 DEF DecrementLiq, Positions
  <2>4. CASE ~(pos.lots > lots)
    <3>1. pos.lots = lots
      BY <1>1, <1>3, <2>2, <2>4
    <3> QED BY <1>1, <2>4, <3>1 DEF DecrementLiq, NoPosition
  <2> QED BY <2>3, <2>4
<1>6. -lots \in Int
  BY <1>1
<1> HIDE DEF new
<1> QED BY <1>2, <1>3, <1>4, <1>5, <1>6, RangeStakes

\* A mark changes no lots.
LEMMA MarkRangeStakes ==
    ASSUME BookInv, BookInv', StakeInv, NEW o \in Owners, NEW r \in RangeLocs, MarkRange(o, r)
    PROVE  StakeInv'
<1> DEFINE l == r.lower
           u == r.upper
           pos == positions[<<o, r>>]
           new == MarkPosAtomic(pos)
<1>1. TypeOK /\ TypeOK' /\ levels \in Books /\ depth \in [Ticks -> Int]
  BY DEF BookInv, WordInv, TypeOK, Books
<1>2. /\ positions' = [positions EXCEPT ![<<o, r>>] = new]
      /\ levels' = levels /\ depth' = depth
      /\ UNCHANGED knockoutVars
  BY DEF MarkRange, bookVars
<1>3. SidesShift(l, u, 0)
  BY <1>1, <1>2, SidesTyped DEF SidesShift, BidLots, AskLots
<1>4. depth' = Stacked(depth, l, u, 0)
  BY <1>1, <1>2 DEF Stacked
<1>5. new.lots = pos.lots + 0
  <2>1. pos \in Positions
    BY <1>1 DEF TypeOK, RangeKeys
  <2> HIDE DEF pos
  <2> QED BY <2>1 DEF MarkPosAtomic, Positions
<1>6. 0 \in Int
  OBVIOUS
<1> HIDE DEF new
<1> QED BY <1>1, <1>2, <1>3, <1>4, <1>5, <1>6, RangeStakes

\* A harvest changes a mileage.
LEMMA HarvestRangeStakes ==
    ASSUME BookInv, BookInv', StakeInv, NEW o \in Owners, NEW r \in RangeLocs,
           HarvestRange(o, r)
    PROVE  StakeInv'
<1> DEFINE l == r.lower
           u == r.upper
           pos == positions[<<o, r>>]
           new == HarvestPosLiq(pos, Clock(l, u))
<1>1. TypeOK /\ TypeOK' /\ levels \in Books /\ depth \in [Ticks -> Int]
  BY DEF BookInv, WordInv, TypeOK, Books
<1>2. /\ positions' = [positions EXCEPT ![<<o, r>>] = new]
      /\ levels' = levels /\ depth' = depth
      /\ UNCHANGED knockoutVars
  BY DEF HarvestRange, bookVars
<1>3. SidesShift(l, u, 0)
  BY <1>1, <1>2, SidesTyped DEF SidesShift, BidLots, AskLots
<1>4. depth' = Stacked(depth, l, u, 0)
  BY <1>1, <1>2 DEF Stacked
<1>5. new.lots = pos.lots + 0
  <2>1. pos \in Positions
    BY <1>1 DEF TypeOK, RangeKeys
  <2> HIDE DEF pos
  <2> QED BY <2>1 DEF HarvestPosLiq, Positions
<1>6. 0 \in Int
  OBVIOUS
<1> HIDE DEF new
<1> QED BY <1>1, <1>2, <1>3, <1>4, <1>5, <1>6, RangeStakes

-----------------------------------------------------------------------------
(***************************************************************************)
(* Knockout orders.                                                        *)
(***************************************************************************)
\* The position `mine' of the tranche at `key' and the tranche itself change
\* by the same lots.
LEMMA TrancheMoves ==
    ASSUME TypeOK, TypeOK', TranchesBacked, UNCHANGED <<positions, merkles>>,
           NEW key \in PivotKeys, NEW mine \in AtPivot(key), NEW d \in Int,
           pivots'[key].lots = pivots[key].lots + d,
           \A at \in PivotKeys \ {key} : pivots'[at] = pivots[at],
           \A k \in KoKeys \ {mine} : koPos'[k].lots = koPos[k].lots,
           LiveLots'[mine] = LiveLots[mine] + d,
           LiveLots'[mine] = koPos'[mine].lots,
           \A k \in KoKeys \ {mine} : LiveLots'[k] = LiveLots[k],
           LiveLots'[mine] # 0 => TickRange(mine[2]) = pivots'[key].width,
           \A k \in AtPivot(key) \ {mine} :
               LiveLots[k] # 0 => pivots'[key].width = pivots[key].width
    PROVE  /\ TranchesBacked'
           /\ StakesShift(mine[2].lower, mine[2].upper, d)
<1>1. mine \in KoKeys /\ PivotKey(mine[2]) = key
  BY DEF AtPivot
<1>2. /\ StakesShift(mine[2].lower, mine[2].upper, d)
      /\ \A at \in PivotKeys :
            SumFunctionOnSet(LiveLots, AtPivot(at))'
              = SumFunctionOnSet(LiveLots, AtPivot(at)) + (IF at = key THEN d ELSE 0)
  BY <1>1, KnockoutShifts
<1>3. /\ \A k \in KoKeys : PivotKey(k[2]) \in PivotKeys
      /\ \A k \in KoKeys : k \in AtPivot(PivotKey(k[2]))
  BY PivotEnds DEF AtPivot, KoKeys
<1>4. ASSUME NEW at \in PivotKeys
      PROVE  pivots'[at].lots = SumFunctionOnSet(LiveLots, AtPivot(at))'
  <2>1. /\ pivots[at].lots = SumFunctionOnSet(LiveLots, AtPivot(at))
        /\ pivots[at].lots \in Int
    BY DEF TranchesBacked, Backed, TypeOK, Pivots, LotWords
  <2> QED BY <1>2, <2>1
<1>5. ASSUME NEW k \in KoKeys, LiveLots'[k] # 0
      PROVE  TickRange(k[2]) = pivots'[PivotKey(k[2])].width
  <2>1. CASE k = mine
    BY <1>1, <1>5, <2>1
  <2>2. CASE k # mine
    <3>1. LiveLots[k] # 0
      BY <1>5, <2>2
    <3>2. TickRange(k[2]) = pivots[PivotKey(k[2])].width
      BY <3>1 DEF TranchesBacked, OneRange
    <3>3. pivots'[PivotKey(k[2])].width = pivots[PivotKey(k[2])].width
      BY <1>3, <2>2, <3>1
    <3> QED BY <3>2, <3>3
  <2> QED BY <2>1, <2>2
<1>6. ASSUME NEW k \in KoKeys, k[3] = 0
      PROVE  koPos'[k].lots = 0
  <2>1. CASE k = mine
    BY <1>6, <2>1, StakesTypedNext DEF IsLive
  <2>2. CASE k # mine
    BY <1>6, <2>2 DEF TranchesBacked, NoneAtZero
  <2> QED BY <2>1, <2>2
<1>7. ASSUME NEW k \in KoKeys, koPos'[k].lots > 0, pivots'[PivotKey(k[2])].time # k[3]
      PROVE  /\ ConfirmPivotDead(merkles[PivotKey(k[2])], k[3])
             /\ \E link \in ProvableHistory(merkles[PivotKey(k[2])]) : link.time = k[3]
  <2>1. LiveLots'[k] = 0
    BY <1>7, StakesTypedNext DEF IsLive
  <2>2. k # mine
    BY <1>7, <2>1
  <2>3. koPos[k].lots > 0 /\ LiveLots[k] = 0
    BY <1>7, <2>1, <2>2
  <2>4. pivots[PivotKey(k[2])].time # k[3]
    BY <2>3, StakesTyped DEF IsLive, TranchesBacked, NoneAtZero
  <2> QED BY <2>3, <2>4 DEF TranchesBacked, DeadTrancheRecoverable
<1> QED BY <1>2, <1>4, <1>5, <1>6, <1>7
        DEF TranchesBacked, Backed, OneRange, NoneAtZero, DeadTrancheRecoverable

\* Nothing is left in a tranche that has no lots.
LEMMA EmptyTranche ==
    ASSUME TypeOK, Backed, NEW key \in PivotKeys, pivots[key].lots = 0
    PROVE  \A k \in AtPivot(key) : LiveLots[k] = 0
<1>1. /\ IsFiniteSet(AtPivot(key)) /\ \A k \in AtPivot(key) : LiveLots[k] \in Nat
      /\ SumFunctionOnSet(LiveLots, AtPivot(key)) = 0
  BY StakeSets, StakesTyped DEF Backed
<1>2. \A k \in AtPivot(key) : LiveLots[k] <= 0
  <2> DEFINE f == LiveLots
             A == AtPivot(key)
  <2> HIDE DEF f, A
  <2>1. \A k \in A : f[k] <= SumFunctionOnSet(f, A)
    BY <1>1, SumHolds DEF f, A
  <2> QED BY <1>1, <2>1 DEF f, A
<1> QED BY <1>1, <1>2

\* What a mint makes of the tranche: it joins the one that rests, or opens one
\* at a time for which nobody holds lots yet.
LEMMA MintKnockoutStakes ==
    ASSUME BookInv, BookInv', TrancheInv, StakeInv, NEW o \in Owners, NEW k \in KoLocs,
           NEW lots \in LotSizes, NEW bits \in KoBits, MintKnockout(o, k, lots, bits)
    PROVE  StakeInv'
<1> DEFINE l == k.lower
           u == k.upper
           key == PivotKey(k)
           fresh == pivots[key].lots = 0
           pivot == InjectPivot(pivots[key], k, lots, now)
           mine == <<o, k, pivot.time>>
           clock == ClockAfterAdd(l, u, lots)
           new == InsertPosition(koPos[mine], lots, clock, now)
           added == AddBookLiq(levels, tick, l, u, lots, concGrowth)
<1>1. /\ l \in Ticks /\ u \in Ticks /\ l < u /\ lots \in Nat /\ lots % 2 = 0
      /\ key \in PivotKeys /\ key \in BOOLEAN \X Ticks
  BY LocFacts, PivotEnds DEF PivotKeys
<1>2. /\ TypeOK /\ TypeOK' /\ levels \in Books /\ tick \in Int /\ concGrowth \in FeeWords
      /\ pivots \in [PivotKeys -> Pivots] /\ pivots[key] \in Pivots
      /\ now \in Times /\ now # 0 /\ koPos \in [KoKeys -> KoPositions]
  BY <1>1, TickAssumption DEF BookInv, WordInv, TypeOK, Books, PriceTicks, Times
<1>3. /\ AddBookFits(levels, l, u, lots)
      /\ pivots' = [pivots EXCEPT ![key] = pivot]
      /\ levels' = IF fresh THEN MarkPivot(added, key) ELSE added
      /\ koPos' = [koPos EXCEPT ![mine] = new]
      /\ depth' = Stacked(depth, l, u, lots)
      /\ UNCHANGED <<positions, merkles>>
      /\ IF fresh THEN merkles[key].time # now ELSE pivots[key].width = TickRange(k)
  BY StackIsStacked DEF MintKnockout, InjectFits, FreshenMerkle
<1>4. SidesShift(l, u, lots)
  <2>1. /\ added \in Books
        /\ \A t \in Ticks :
              /\ LotsToLiquidity(added[t].bid)
                   = LotsToLiquidity(levels[t].bid) + BidLots(l, t, lots)
              /\ LotsToLiquidity(added[t].ask)
                   = LotsToLiquidity(levels[t].ask) + AskLots(u, t, lots)
    <3> HIDE DEF l, u
    <3> QED BY <1>1, <1>2, <1>3, AddBookFacts
  <2>2. \A t \in Ticks :
           /\ LotsToLiquidity(levels'[t].bid) = LotsToLiquidity(added[t].bid)
           /\ LotsToLiquidity(levels'[t].ask) = LotsToLiquidity(added[t].ask)
    <3> HIDE DEF key, added, fresh
    <3> QED BY <1>1, <1>3, <2>1, MarkFacts
  <2> HIDE DEF added, l, u
  <2> QED BY <2>1, <2>2 DEF SidesShift
<1>5. /\ pivot.time # 0 /\ pivot.time \in Times /\ pivot.width = TickRange(k)
      /\ pivot.lots = pivots[key].lots + lots
      /\ IF fresh THEN pivot.time = now
                  ELSE pivot.time = pivots[key].time /\ pivot.width = pivots[key].width
  <2>1. CASE fresh
    <3>1. pivot = [lots |-> lots, time |-> now, width |-> TickRange(k)]
      BY <2>1 DEF InjectPivot
    <3> HIDE DEF pivot
    <3> QED BY <1>1, <1>2, <2>1, <3>1
  <2>2. CASE ~fresh
    <3>1. pivot = [pivots[key] EXCEPT !.lots = @ + lots]
      BY <2>2 DEF InjectPivot
    <3>2. pivots[key].time # 0
      BY <1>1, <2>2 DEF BookInv, WordInv, PivotShape
    <3> HIDE DEF pivot, key
    <3> QED BY <1>2, <1>3, <2>2, <3>1, <3>2 DEF Pivots
  <2> QED BY <2>1, <2>2
<1>6. /\ mine \in KoKeys /\ mine \in AtPivot(key) /\ mine[2] = k /\ mine[3] = pivot.time
  BY <1>5 DEF KoKeys, AtPivot
<1> HIDE DEF pivot, key, mine, new, l, u
<1>7. /\ pivots'[key] = pivot /\ \A at \in PivotKeys \ {key} : pivots'[at] = pivots[at]
      /\ koPos'[mine] = new /\ \A j \in KoKeys \ {mine} : koPos'[j] = koPos[j]
  BY <1>1, <1>2, <1>3, <1>6
<1>8. new.lots = koPos[mine].lots + lots
  BY DEF new, InsertPosition
\* Nobody holds lots in the tranche a mint opens.
<1>9. ASSUME fresh, NEW j \in AtPivot(key), j[3] = now
      PROVE  koPos[j].lots = 0
  <2>1. j \in KoKeys /\ PivotKey(j[2]) = key /\ koPos[j].lots \in Nat
    BY <1>2, StakesTyped DEF AtPivot
  <2>2. LiveLots[j] = 0
    BY <1>1, <1>2, <1>9, EmptyTranche DEF StakeInv, TranchesBacked
  <2>3. CASE pivots[key].time = now
    BY <1>2, <1>9, <2>1, <2>2, <2>3, StakesTyped DEF IsLive
  <2>4. CASE pivots[key].time # now
    <3> SUFFICES ASSUME koPos[j].lots > 0 PROVE FALSE
      BY <2>1
    <3>1. merkles[key].time >= now
      BY <1>9, <2>1, <2>4
         DEF StakeInv, TranchesBacked, DeadTrancheRecoverable, ConfirmPivotDead
    <3>2. merkles[key].time <= now
      BY <1>1 DEF TrancheInv, HistorySorted
    <3>3. merkles[key].time \in Nat /\ now \in Nat
      BY <1>1, <1>2, TimesTyped
    <3> QED BY <1>3, <1>9, <3>1, <3>2, <3>3
  <2> QED BY <2>3, <2>4
<1>10. ASSUME NEW j \in KoKeys
       PROVE  LiveLots'[j] = LiveLots[j] + (IF j = mine THEN lots ELSE 0)
  <2>1. /\ LiveLots[j] = IF IsLive(j) THEN koPos[j].lots ELSE 0
        /\ LiveLots'[j] = IF IsLive(j)' THEN koPos'[j].lots ELSE 0
        /\ koPos[j].lots \in Nat /\ PivotKey(j[2]) \in PivotKeys
    BY <1>2, StakesTyped, StakesTypedNext, PivotEnds DEF KoKeys
  <2>2. CASE PivotKey(j[2]) # key
    <3>1. j # mine /\ koPos'[j] = koPos[j]
      BY <1>6, <1>7, <2>2 DEF AtPivot
    <3>2. IsLive(j)' = IsLive(j)
      BY <1>7, <2>1, <2>2 DEF IsLive
    <3> QED BY <2>1, <3>1, <3>2
  <2>3. CASE PivotKey(j[2]) = key /\ ~fresh
    <3>1. IsLive(j)' = IsLive(j)
      BY <1>5, <1>7, <2>3 DEF IsLive
    <3>2. IsLive(mine)
      BY <1>5, <1>6, <2>3 DEF IsLive, AtPivot
    <3> QED BY <1>1, <1>7, <1>8, <2>1, <3>1, <3>2
  <2>4. CASE PivotKey(j[2]) = key /\ fresh
    <3>1. j \in AtPivot(key)
      BY <2>4 DEF AtPivot
    <3>2. LiveLots[j] = 0
      BY <1>1, <1>2, <2>4, <3>1, EmptyTranche DEF StakeInv, TranchesBacked
    <3>3. IsLive(j)' <=> j[3] = now
      BY <1>2, <1>5, <1>7, <2>4 DEF IsLive
    <3>4. mine[3] = now /\ koPos[mine].lots = 0
      BY <1>5, <1>6, <1>9, <2>4
    <3> QED BY <1>1, <1>7, <1>8, <1>9, <2>1, <2>4, <3>1, <3>2, <3>3, <3>4
  <2> QED BY <2>2, <2>3, <2>4
<1>11. /\ LiveLots'[mine] = LiveLots[mine] + lots
       /\ \A j \in KoKeys \ {mine} : LiveLots'[j] = LiveLots[j]
  BY <1>2, <1>6, <1>10, StakesTyped
<1>12. LiveLots'[mine] = koPos'[mine].lots
  <2>1. ASSUME NEW j \in KoKeys, j = mine
        PROVE  LiveLots'[j] = koPos'[j].lots
    <3>1. IsLive(j)'
      BY <1>5, <1>6, <1>7, <2>1 DEF IsLive, AtPivot
    <3> QED BY <1>2, <3>1, StakesTypedNext
  <2> QED BY <1>6, <2>1
<1>13. ASSUME NEW j \in AtPivot(key) \ {mine}, LiveLots[j] # 0
       PROVE  pivots'[key].width = pivots[key].width
  <2>1. ~fresh
    BY <1>1, <1>2, <1>13, EmptyTranche DEF StakeInv, TranchesBacked
  <2> QED BY <1>5, <1>7, <2>1
<1>14. /\ pivots'[key].lots = pivots[key].lots + lots
       /\ \A j \in KoKeys \ {mine} : koPos'[j].lots = koPos[j].lots
       /\ TickRange(mine[2]) = pivots'[key].width
       /\ lots \in Int
  BY <1>1, <1>5, <1>6, <1>7
<1>15. TranchesBacked' /\ StakesShift(mine[2].lower, mine[2].upper, lots)
  BY <1>1, <1>2, <1>3, <1>6, <1>7, <1>11, <1>12, <1>13, <1>14, TrancheMoves DEF StakeInv
<1>16. Sides' /\ Depths'
  <2>1. StakesShift(l, u, lots)
    BY <1>6, <1>15 DEF l, u
  <2> QED BY <1>1, <1>2, <1>3, <1>4, <1>14, <2>1, BookFollows DEF StakeInv
<1> QED BY <1>15, <1>16 DEF StakeInv

\* What a burn leaves of the tranche: its last lots close it, and they are the
\* last of every position in it.
LEMMA BurnKnockoutStakes ==
    ASSUME BookInv, BookInv', StakeInv, NEW o \in Owners, NEW k \in KoLocs,
           NEW lots \in LotSizes, BurnKnockout(o, k, lots)
    PROVE  StakeInv'
<1> DEFINE l == k.lower
           u == k.upper
           key == PivotKey(k)
           kills == lots = pivots[key].lots
           pivot == RecallPivot(pivots[key], lots)
           mine == <<o, k, pivots[key].time>>
           new == RemovePosition(koPos[mine], lots)
           mid == IF kills THEN UnmarkPivot(levels, key) ELSE levels
<1>1. /\ l \in Ticks /\ u \in Ticks /\ l < u /\ lots \in Nat /\ lots % 2 = 0
      /\ key \in PivotKeys /\ key \in BOOLEAN \X Ticks
  BY LocFacts, PivotEnds DEF PivotKeys
<1>2. /\ TypeOK /\ TypeOK' /\ levels \in Books
      /\ pivots \in [PivotKeys -> Pivots] /\ pivots[key] \in Pivots
      /\ koPos \in [KoKeys -> KoPositions]
  BY <1>1 DEF BookInv, WordInv, TypeOK, Books
<1>3. /\ lots <= pivots[key].lots /\ lots <= koPos[mine].lots
      /\ RemoveBookFits(mid, l, u, lots)
      /\ pivots' = [pivots EXCEPT ![key] = pivot]
      /\ levels' = RemoveBookLiq(mid, l, u, lots)
      /\ koPos' = [koPos EXCEPT ![mine] = new]
      /\ depth' = Stacked(depth, l, u, -lots)
      /\ UNCHANGED <<positions, merkles>>
  BY StackIsStacked DEF BurnKnockout
<1>4. SidesShift(l, u, -lots)
  <2>1. /\ mid \in Books
        /\ \A t \in Ticks :
              /\ LotsToLiquidity(mid[t].bid) = LotsToLiquidity(levels[t].bid)
              /\ LotsToLiquidity(mid[t].ask) = LotsToLiquidity(levels[t].ask)
    <3> HIDE DEF key, kills
    <3> QED BY <1>1, <1>2, UnmarkFacts
  <2>2. \A t \in Ticks :
           /\ LotsToLiquidity(levels'[t].bid) = LotsToLiquidity(mid[t].bid) - BidLots(l, t, lots)
           /\ LotsToLiquidity(levels'[t].ask) = LotsToLiquidity(mid[t].ask) - AskLots(u, t, lots)
    <3> HIDE DEF mid, l, u
    <3> QED BY <1>1, <1>3, <2>1, RemoveBookFacts
  <2> HIDE DEF mid, l, u
  <2> QED BY <1>1, <1>2, <2>1, <2>2, SidesCut
<1>5. /\ pivots[key].time \in Times /\ pivots[key].lots \in Nat
      /\ mine \in KoKeys /\ mine \in AtPivot(key) /\ mine[2] = k
      /\ mine[3] = pivots[key].time /\ koPos[mine].lots \in Nat
  <2>1. pivots[key].time \in Times /\ pivots[key].lots \in Nat
    BY <1>2, LotLimitAssumption DEF Pivots, LotWords
  <2>2. mine \in KoKeys /\ mine \in AtPivot(key)
    BY <2>1 DEF KoKeys, AtPivot
  <2> QED BY <1>2, <2>1, <2>2, StakesTyped
<1>6. /\ pivot.lots = pivots[key].lots + (-lots)
      /\ kills => pivot.time = 0
      /\ ~kills => pivot.time = pivots[key].time /\ pivot.width = pivots[key].width
  <2>1. CASE kills
    <3>1. pivot = NoPivot
      BY <2>1 DEF RecallPivot
    <3> HIDE DEF pivot, key
    <3> QED BY <1>1, <2>1, <3>1 DEF NoPivot
  <2>2. CASE ~kills
    <3>1. pivot = [pivots[key] EXCEPT !.lots = @ - lots]
      BY <2>2 DEF RecallPivot
    <3> HIDE DEF pivot, key
    <3> QED BY <1>1, <1>2, <1>5, <2>2, <3>1 DEF Pivots
  <2> QED BY <2>1, <2>2
<1>7. new.lots = koPos[mine].lots + (-lots)
  <2>1. koPos[mine] \in KoPositions
    BY <1>2, <1>5
  <2> HIDE DEF mine
  <2> QED BY <1>1, <1>5, <2>1 DEF RemovePosition, NoKnockoutPos, KoPositions
<1> HIDE DEF pivot, key, mine, new, l, u
<1>8. /\ pivots'[key] = pivot /\ \A at \in PivotKeys \ {key} : pivots'[at] = pivots[at]
      /\ koPos'[mine] = new /\ \A j \in KoKeys \ {mine} : koPos'[j] = koPos[j]
  BY <1>1, <1>2, <1>3, <1>5
<1>9. pivots[key].time = 0 => kills /\ lots = 0 /\ koPos[mine].lots = 0
  <2>1. pivots[key].time = 0 => pivots[key].lots = 0
    BY <1>1 DEF BookInv, WordInv, PivotShape
  <2>2. pivots[key].time = 0 => koPos[mine].lots = 0
    BY <1>5 DEF StakeInv, TranchesBacked, NoneAtZero
  <2> QED BY <1>1, <1>3, <1>5, <2>1, <2>2
<1>10. LiveLots[mine] = koPos[mine].lots
  <2>1. LiveLots[mine] = IF IsLive(mine) THEN koPos[mine].lots ELSE 0
    BY <1>2, <1>5, StakesTyped
  <2>2. IsLive(mine) <=> pivots[key].time # 0
    BY <1>5 DEF IsLive, AtPivot
  <2> QED BY <1>9, <2>1, <2>2
\* The last lots of the tranche are those of the position that is burned.
<1>11. ASSUME kills
       PROVE  koPos[mine].lots = lots /\ \A j \in AtPivot(key) \ {mine} : LiveLots[j] = 0
  <2> DEFINE f == LiveLots
             A == AtPivot(key)
             R == A \ {mine}
  <2>1. /\ IsFiniteSet(A) /\ IsFiniteSet(R) /\ mine \in A
        /\ \A j \in A : f[j] \in Nat
        /\ \A j \in R : f[j] \in Nat
        /\ SumFunctionOnSet(f, A) = lots
    <3>1. pivots[key].lots = SumFunctionOnSet(LiveLots, AtPivot(key))
      BY <1>1 DEF StakeInv, TranchesBacked, Backed
    <3>2. \A j \in A : f[j] \in Nat
      BY <1>2, StakesTyped, StakeSets
    <3> QED BY <1>5, <1>11, <3>1, <3>2, StakeSets, FS_Subset
  <2>2. f[mine] = koPos[mine].lots
    BY <1>10
  <2> HIDE DEF f, A, R
  <2>3. SumFunctionOnSet(f, A) = f[mine] + SumFunctionOnSet(f, R)
    <3>1. \A j \in A : f[j] \in Int
      BY <2>1
    <3> QED BY <2>1, <3>1, SumTakesOff DEF R
  <2>4. SumFunctionOnSet(f, R) \in Nat
    BY <2>1, SumIsNat
  <2>5. koPos[mine].lots = lots /\ SumFunctionOnSet(f, R) = 0
    BY <1>1, <1>3, <1>5, <2>1, <2>2, <2>3, <2>4
  <2>6. \A j \in R : f[j] <= 0
    <3>1. \A j \in R : f[j] <= SumFunctionOnSet(f, R)
      BY <2>1, SumHolds
    <3> QED BY <2>5, <3>1
  <2>7. \A j \in R : f[j] = 0
    BY <2>1, <2>6
  <2> QED BY <2>5, <2>7 DEF f, A, R
<1>12. ASSUME NEW j \in KoKeys
       PROVE  LiveLots'[j] = LiveLots[j] + (IF j = mine THEN -lots ELSE 0)
  <2>1. /\ LiveLots[j] = IF IsLive(j) THEN koPos[j].lots ELSE 0
        /\ LiveLots'[j] = IF IsLive(j)' THEN koPos'[j].lots ELSE 0
        /\ koPos[j].lots \in Nat /\ PivotKey(j[2]) \in PivotKeys
    BY <1>2, StakesTyped, StakesTypedNext, PivotEnds DEF KoKeys
  <2>2. CASE PivotKey(j[2]) # key
    <3>1. j # mine /\ koPos'[j] = koPos[j]
      BY <1>5, <1>8, <2>2 DEF AtPivot
    <3>2. IsLive(j)' = IsLive(j)
      BY <1>8, <2>1, <2>2 DEF IsLive
    <3> QED BY <2>1, <3>1, <3>2
  <2>3. CASE PivotKey(j[2]) = key /\ ~kills
    <3>1. IsLive(j)' = IsLive(j)
      BY <1>6, <1>8, <2>3 DEF IsLive
    <3>2. IsLive(mine)
      BY <1>5, <1>9, <2>3 DEF IsLive, AtPivot
    <3> QED BY <1>1, <1>7, <1>8, <2>1, <3>1, <3>2
  <2>4. CASE PivotKey(j[2]) = key /\ kills
    <3>1. ~IsLive(j)'
      BY <1>6, <1>8, <2>4 DEF IsLive
    <3>2. LiveLots'[j] = 0
      BY <2>1, <3>1
    <3>3. CASE j = mine
      BY <1>1, <1>10, <1>11, <2>4, <3>2, <3>3
    <3>4. CASE j # mine
      BY <1>11, <2>4, <3>2, <3>4 DEF AtPivot
    <3> QED BY <3>3, <3>4
  <2> QED BY <2>2, <2>3, <2>4
<1>13. /\ LiveLots'[mine] = LiveLots[mine] + (-lots)
       /\ \A j \in KoKeys \ {mine} : LiveLots'[j] = LiveLots[j]
  BY <1>2, <1>5, <1>12, StakesTyped
<1>14. LiveLots'[mine] = koPos'[mine].lots
  BY <1>7, <1>8, <1>10, <1>13
<1>15. LiveLots'[mine] # 0 => TickRange(mine[2]) = pivots'[key].width
  <2> SUFFICES ASSUME LiveLots'[mine] # 0
               PROVE  TickRange(mine[2]) = pivots'[key].width
    OBVIOUS
  <2>1. ~kills
    BY <1>1, <1>10, <1>11, <1>13
  <2>2. koPos[mine].lots # 0
    BY <1>1, <1>3, <1>5, <1>10, <1>13
  <2>3. TickRange(mine[2]) = pivots[key].width
    BY <1>5, <1>10, <2>2 DEF StakeInv, TranchesBacked, OneRange, AtPivot
  <2> QED BY <1>6, <1>8, <2>1, <2>3
<1>16. ASSUME NEW j \in AtPivot(key) \ {mine}, LiveLots[j] # 0
       PROVE  pivots'[key].width = pivots[key].width
  <2>1. ~kills
    BY <1>11, <1>16
  <2> QED BY <1>6, <1>8, <2>1
<1>17. /\ pivots'[key].lots = pivots[key].lots + (-lots)
       /\ \A j \in KoKeys \ {mine} : koPos'[j].lots = koPos[j].lots
       /\ -lots \in Int
  BY <1>1, <1>6, <1>8
<1>18. TranchesBacked' /\ StakesShift(mine[2].lower, mine[2].upper, -lots)
  <2> DEFINE d == -lots
  <2> HIDE DEF d
  <2>1. /\ d \in Int /\ LiveLots'[mine] = LiveLots[mine] + d
        /\ pivots'[key].lots = pivots[key].lots + d
    BY <1>13, <1>17 DEF d
  <2>2. TranchesBacked' /\ StakesShift(mine[2].lower, mine[2].upper, d)
    BY <1>1, <1>2, <1>3, <1>5, <1>8, <1>13, <1>14, <1>15, <1>16, <1>17, <2>1, TrancheMoves
       DEF StakeInv
  <2> QED BY <2>2 DEF d
<1>19. Sides' /\ Depths'
  <2>1. StakesShift(l, u, -lots)
    BY <1>5, <1>18 DEF l, u
  <2> QED BY <1>1, <1>2, <1>3, <1>4, <1>17, <2>1, BookFollows DEF StakeInv
<1> QED BY <1>18, <1>19 DEF StakeInv

\* A position is closed that no longer rests.
LEMMA ClosedStakes ==
    ASSUME TypeOK, TypeOK', StakeInv, NEW mine \in KoKeys, ~IsLive(mine),
           koPos' = [koPos EXCEPT ![mine] = NoKnockoutPos],
           UNCHANGED <<bookVars, positions, pivots, merkles, depth>>
    PROVE  StakeInv'
<1>1. /\ koPos'[mine].lots = 0
      /\ \A k \in KoKeys \ {mine} : koPos'[k] = koPos[k]
  BY DEF TypeOK, NoKnockoutPos
<1>2. \A k \in KoKeys : LiveLots'[k] = LiveLots[k]
  <2> SUFFICES ASSUME NEW k \in KoKeys PROVE LiveLots'[k] = LiveLots[k]
    OBVIOUS
  <2>1. IsLive(k)' = IsLive(k)
    BY DEF IsLive
  <2> QED BY <1>1, <2>1, StakesTyped, StakesTypedNext
<1>3. LiveLots' = LiveLots
  BY <1>2 DEF LiveLots
<1>4. \A Z \in SUBSET Ranges : StakeIn(Z)' = StakeIn(Z)
  BY <1>3 DEF StakeIn
<1>5. Sides' /\ Depths'
  BY <1>4, BookStays DEF StakeInv, bookVars
<1>6. Backed' /\ OneRange'
  BY <1>3 DEF StakeInv, TranchesBacked, Backed, OneRange
<1>7. NoneAtZero'
  BY <1>1 DEF StakeInv, TranchesBacked, NoneAtZero
<1>8. DeadTrancheRecoverable'
  <2> SUFFICES ASSUME NEW k \in KoKeys, koPos'[k].lots > 0, pivots[PivotKey(k[2])].time # k[3]
               PROVE  /\ ConfirmPivotDead(merkles[PivotKey(k[2])], k[3])
                      /\ \E link \in ProvableHistory(merkles[PivotKey(k[2])]) : link.time = k[3]
    BY DEF DeadTrancheRecoverable
  <2>1. k # mine
    BY <1>1
  <2>2. koPos[k].lots > 0
    BY <1>1, <2>1
  <2> QED BY <2>2 DEF StakeInv, TranchesBacked, DeadTrancheRecoverable
<1> QED BY <1>5, <1>6, <1>7, <1>8 DEF StakeInv, TranchesBacked

\* Only the positions of a tranche that was knocked out can be claimed.
LEMMA ClaimKnockoutStakes ==
    ASSUME BookInv, BookInv', TrancheInv, StakeInv, NEW o \in Owners, NEW k \in KoLocs,
           NEW proven \in ProvableHistory(merkles[PivotKey(k)]), ClaimKnockout(o, k, proven)
    PROVE  StakeInv'
<1> DEFINE key == PivotKey(k)
           mine == <<o, k, proven.time>>
<1>1. TypeOK /\ TypeOK' /\ key \in PivotKeys
  BY PivotEnds DEF BookInv, WordInv
<1>2. proven.time \in Times /\ (proven.time = merkles[key].time
                                  \/ proven \in ToSet(merkles[key].root))
  <2>1. /\ merkles[key].root \in Seq([time : Times, mileage : FeeWords])
        /\ merkles[key].time \in Times
    BY <1>1 DEF TypeOK, IsMerkle
  <2>2. ToSet(merkles[key].root) \subseteq [time : Times, mileage : FeeWords]
    <3> DEFINE Links == [time : Times, mileage : FeeWords]
               root == merkles[key].root
    <3> HIDE DEF Links, root
    <3>1. root \in Seq(Links)
      BY <2>1 DEF Links, root
    <3>2. ToSet(root) \subseteq Links
      BY <3>1, ToSetIn
    <3> QED BY <3>2 DEF Links, root
  <2> QED BY <2>1, <2>2 DEF ProvableHistory
<1>3. mine \in KoKeys
  BY <1>2 DEF KoKeys
<1>4. ~IsLive(mine)
  <2> SUFFICES ASSUME pivots[key].time # 0, pivots[key].time = proven.time PROVE FALSE
    BY DEF IsLive
  <2>1. merkles[key].time < pivots[key].time
    BY <1>1 DEF TrancheInv, TrancheFresh
  <2>2. proven \in ToSet(merkles[key].root) => proven.time < pivots[key].time
    BY <1>1 DEF TrancheInv, TrancheFresh
  <2>3. merkles[key].time \in Nat /\ pivots[key].time \in Nat
    BY <1>1, TimesTyped
  <2> HIDE DEF key
  <2> QED BY <1>2, <2>1, <2>2, <2>3
<1>5. /\ koPos' = [koPos EXCEPT ![mine] = NoKnockoutPos]
      /\ UNCHANGED <<bookVars, positions, pivots, merkles, depth>>
  BY DEF ClaimKnockout
<1> HIDE DEF mine
<1> QED BY <1>1, <1>3, <1>4, <1>5, ClosedStakes

\* Nor can the positions of one that rests be recovered.
LEMMA RecoverKnockoutStakes ==
    ASSUME BookInv, BookInv', TrancheInv, StakeInv, NEW o \in Owners, NEW k \in KoLocs,
           NEW pivotTime \in Times, RecoverKnockout(o, k, pivotTime)
    PROVE  StakeInv'
<1> DEFINE key == PivotKey(k)
           mine == <<o, k, pivotTime>>
<1>1. TypeOK /\ TypeOK' /\ key \in PivotKeys
  BY PivotEnds DEF BookInv, WordInv
<1>2. mine \in KoKeys
  BY DEF KoKeys
<1>3. ~IsLive(mine)
  <2> SUFFICES ASSUME pivots[key].time # 0, pivots[key].time = pivotTime PROVE FALSE
    BY DEF IsLive
  <2>1. merkles[key].time < pivots[key].time
    BY <1>1 DEF TrancheInv, TrancheFresh
  <2>2. merkles[key].time >= pivots[key].time
    BY DEF RecoverKnockout, ConfirmPivotDead
  <2>3. merkles[key].time \in Nat /\ pivots[key].time \in Nat
    BY <1>1, TimesTyped
  <2> HIDE DEF key
  <2> QED BY <2>1, <2>2, <2>3
<1>4. /\ koPos' = [koPos EXCEPT ![mine] = NoKnockoutPos]
      /\ UNCHANGED <<bookVars, positions, pivots, merkles, depth>>
  BY DEF RecoverKnockout
<1> HIDE DEF mine
<1> QED BY <1>1, <1>2, <1>3, <1>4, ClosedStakes

\* A knockout takes the lots of the tranche off the book with the positions
\* that held them, and files its time where they prove it from.
LEMMA SweepKnockoutStakes ==
    ASSUME BookInv, BookInv', TrancheInv, StakeInv, NEW b \in Ticks, NEW g \in FeeSteps,
           SweepKnockout(b, g)
    PROVE  StakeInv'
<1> DEFINE key == <<sweep = "sell", b>>
           lots == pivots[key].lots
           l == PivotLower(key, pivots[key].width)
           u == PivotUpper(key, pivots[key].width)
           flipped == CrossLevel(levels, b, concGrowth + g)
           crossed == UnmarkPivot(flipped, key)
           link == [time |-> merkles[key].time, mileage |-> merkles[key].mileage]
<1>1. /\ key \in PivotKeys /\ pivots[key].time # 0
      /\ merkles'[key].time = pivots[key].time
      /\ merkles'[key].root = Append(merkles[key].root, link)
      /\ \A other \in PivotKeys \ {key} : merkles'[other] = merkles[other]
      /\ pivots' = [pivots EXCEPT ![key] = NoPivot]
  BY KnockoutCommits
<1>2. /\ LegFees(g)
      /\ RemoveBookFits(crossed, l, u, lots)
      /\ levels' = RemoveBookLiq(crossed, l, u, lots)
      /\ depth' = Stacked(depth, l, u, -lots)
      /\ positions' = positions /\ koPos' = koPos
  BY StackIsStacked DEF SweepKnockout, RollOver
<1>3. /\ TypeOK /\ TypeOK' /\ levels \in Books /\ concGrowth + g \in FeeWords
      /\ pivots \in [PivotKeys -> Pivots] /\ pivots[key] \in Pivots
      /\ key \in BOOLEAN \X Ticks
  BY <1>1, <1>2, SweepTypes DEF BookInv, WordInv, TypeOK, PivotKeys
<1>4. levels[b].odo <= concGrowth + g
  <2>1. levels[b].odo <= concGrowth
    BY DEF BookInv, WordInv, OdometerBounded
  <2>2. levels[b].odo \in Nat
    BY <1>3, FeeWordAssumption DEF Books, Levels, FeeWords
  <2>3. concGrowth \in Nat /\ concGrowth <= concGrowth + g /\ g \in Nat
    BY <1>2, SweepTypes
  <2> QED BY <2>1, <2>2, <2>3
<1>5. /\ lots \in Nat /\ lots % 2 = 0 /\ l \in Ticks /\ u \in Ticks /\ l < u
  <2>1. lots \in Nat /\ pivots[key].width \in Nat
    BY <1>3, LotLimitAssumption DEF Pivots, LotWords
  <2>2. lots % 2 = 0 /\ PivotRangeOkay(key)
    BY <1>1 DEF BookInv, WordInv, PivotShape
  <2>3. b \in Int /\ MinTick <= b /\ b <= MaxTick
    BY TickAssumption DEF Ticks
  <2>4. l \in Ticks /\ u \in Ticks /\ l < u
    <3> DEFINE width == pivots[key].width
    <3>1. width \in Nat /\ width > 0
      BY <2>1, <2>2 DEF PivotRangeOkay
    <3>2. l >= MinTick /\ u <= MaxTick
      BY <2>2 DEF PivotRangeOkay
    <3> HIDE DEF width
    <3>3. \/ l = b /\ u = b + width
          \/ l = b - width /\ u = b
      BY DEF PivotLower, PivotUpper, width
    <3> HIDE DEF l, u
    <3> QED BY <2>3, <3>1, <3>2, <3>3, TickAssumption DEF Ticks
  <2> QED BY <2>1, <2>2, <2>4
<1>6. SidesShift(l, u, -lots)
  <2>1. /\ flipped \in Books
        /\ \A t \in Ticks :
              /\ LotsToLiquidity(flipped[t].bid) = LotsToLiquidity(levels[t].bid)
              /\ LotsToLiquidity(flipped[t].ask) = LotsToLiquidity(levels[t].ask)
    BY <1>3, <1>4, CrossFacts
  <2>2. /\ crossed \in Books
        /\ \A t \in Ticks :
              /\ LotsToLiquidity(crossed[t].bid) = LotsToLiquidity(flipped[t].bid)
              /\ LotsToLiquidity(crossed[t].ask) = LotsToLiquidity(flipped[t].ask)
    <3> HIDE DEF flipped, key
    <3> QED BY <1>3, <2>1, UnmarkFacts
  <2>3. \A t \in Ticks :
           /\ LotsToLiquidity(levels'[t].bid)
                = LotsToLiquidity(crossed[t].bid) - BidLots(l, t, lots)
           /\ LotsToLiquidity(levels'[t].ask)
                = LotsToLiquidity(crossed[t].ask) - AskLots(u, t, lots)
    <3> HIDE DEF crossed, l, u, lots
    <3> QED BY <1>2, <1>5, <2>2, RemoveBookFacts
  <2> HIDE DEF crossed, flipped, l, u, lots
  <2> QED BY <1>3, <1>5, <2>1, <2>2, <2>3, SidesCut
<1> HIDE DEF key, lots, l, u, link
<1>7. /\ pivots'[key] = NoPivot /\ \A at \in PivotKeys \ {key} : pivots'[at] = pivots[at]
  BY <1>1, <1>3
<1>8. \A j \in KoKeys : PivotKey(j[2]) \in PivotKeys
  BY PivotEnds DEF KoKeys
<1>9. ASSUME NEW j \in KoKeys
      PROVE  LiveLots'[j] = IF j \in AtPivot(key) THEN 0 ELSE LiveLots[j]
  <2>1. /\ LiveLots[j] = IF IsLive(j) THEN koPos[j].lots ELSE 0
        /\ LiveLots'[j] = IF IsLive(j)' THEN koPos'[j].lots ELSE 0
    BY <1>3, StakesTyped, StakesTypedNext
  <2>2. CASE PivotKey(j[2]) = key
    <3>1. ~IsLive(j)'
      BY <1>7, <2>2 DEF IsLive, NoPivot
    <3> QED BY <2>1, <2>2, <3>1 DEF AtPivot
  <2>3. CASE PivotKey(j[2]) # key
    <3>1. IsLive(j)' = IsLive(j)
      BY <1>7, <1>8, <2>3 DEF IsLive
    <3> QED BY <1>2, <2>1, <2>3, <3>1 DEF AtPivot
  <2> QED BY <2>2, <2>3
<1>10. /\ StakesShift(l, u, -lots)
       /\ \A at \in PivotKeys :
             SumFunctionOnSet(LiveLots, AtPivot(at))'
               = IF at = key THEN 0 ELSE SumFunctionOnSet(LiveLots, AtPivot(at))
  BY <1>1, <1>2, <1>3, <1>9, TrancheShifts DEF StakeInv, TranchesBacked, l, u, lots
<1>11. Sides' /\ Depths'
  <2>1. -lots \in Int
    BY <1>5
  <2> DEFINE d == -lots
  <2> HIDE DEF d
  <2>2. d \in Int /\ StakesShift(l, u, d) /\ SidesShift(l, u, d) /\ depth' = Stacked(depth, l, u, d)
    BY <1>2, <1>6, <1>10, <2>1 DEF d
  <2> QED BY <1>3, <1>5, <2>2, BookFollows DEF StakeInv
<1>12. Backed'
  <2> SUFFICES ASSUME NEW at \in PivotKeys
               PROVE  pivots'[at].lots = SumFunctionOnSet(LiveLots, AtPivot(at))'
    BY DEF Backed
  <2>1. pivots[at].lots = SumFunctionOnSet(LiveLots, AtPivot(at))
    BY DEF StakeInv, TranchesBacked, Backed
  <2> QED BY <1>7, <1>10, <2>1 DEF NoPivot
<1>13. OneRange'
  <2> SUFFICES ASSUME NEW j \in KoKeys, LiveLots'[j] # 0
               PROVE  TickRange(j[2]) = pivots'[PivotKey(j[2])].width
    BY DEF OneRange
  <2>1. j \notin AtPivot(key) /\ LiveLots[j] # 0
    BY <1>9
  <2>2. pivots'[PivotKey(j[2])] = pivots[PivotKey(j[2])]
    BY <1>7, <1>8, <2>1 DEF AtPivot
  <2> QED BY <2>1, <2>2 DEF StakeInv, TranchesBacked, OneRange
<1>14. NoneAtZero'
  BY <1>2 DEF StakeInv, TranchesBacked, NoneAtZero
\* What could be proved before can be, and the tranche itself from now on.
<1>15. ProvableHistory(merkles'[key])
         = ProvableHistory(merkles[key])
             \cup {[time |-> merkles'[key].time, mileage |-> merkles'[key].mileage]}
  <2>1. link \in [time : Times, mileage : FeeWords]
    BY <1>1, <1>3 DEF link, TypeOK, IsMerkle
  <2>2. ToSet(Append(merkles[key].root, link)) = ToSet(merkles[key].root) \cup {link}
    <3> DEFINE Links == [time : Times, mileage : FeeWords]
               root == merkles[key].root
    <3>1. root \in Seq(Links) /\ link \in Links
      BY <1>1, <1>3, <2>1, TimesTyped
    <3> HIDE DEF Links, root
    <3>2. ToSet(Append(root, link)) = ToSet(root) \cup {link}
      BY <3>1, ToSetAppend
    <3> QED BY <3>2 DEF root
  <2>3. ToSet(merkles'[key].root) = ToSet(merkles[key].root) \cup {link}
    BY <1>1, <2>2
  <2> QED BY <2>3 DEF ProvableHistory, link
<1>16. DeadTrancheRecoverable'
  <2> SUFFICES ASSUME NEW j \in KoKeys, koPos[j].lots > 0, pivots'[PivotKey(j[2])].time # j[3]
               PROVE  /\ ConfirmPivotDead(merkles'[PivotKey(j[2])], j[3])
                      /\ \E x \in ProvableHistory(merkles'[PivotKey(j[2])]) : x.time = j[3]
    BY <1>2 DEF DeadTrancheRecoverable
  <2>1. j[3] \in Nat
    BY BoundsAssumption DEF KoKeys, Times
  <2>2. CASE PivotKey(j[2]) # key
    <3>1. /\ pivots'[PivotKey(j[2])] = pivots[PivotKey(j[2])]
          /\ merkles'[PivotKey(j[2])] = merkles[PivotKey(j[2])]
      BY <1>1, <1>7, <1>8, <2>2
    <3>2. pivots[PivotKey(j[2])].time # j[3]
      BY <3>1
    <3>3. /\ ConfirmPivotDead(merkles[PivotKey(j[2])], j[3])
          /\ \E x \in ProvableHistory(merkles[PivotKey(j[2])]) : x.time = j[3]
      BY <3>2 DEF StakeInv, TranchesBacked, DeadTrancheRecoverable
    <3> QED BY <3>1, <3>3
  <2>3. CASE PivotKey(j[2]) = key /\ pivots[key].time = j[3]
    <3>1. merkles'[key].time = j[3]
      BY <1>1, <2>3
    <3>2. ConfirmPivotDead(merkles'[key], j[3])
      BY <2>1, <3>1 DEF ConfirmPivotDead
    <3>3. [time |-> merkles'[key].time, mileage |-> merkles'[key].mileage]
            \in ProvableHistory(merkles'[key])
      BY DEF ProvableHistory
    <3>4. \E x \in ProvableHistory(merkles'[key]) : x.time = j[3]
      BY <3>1, <3>3
    <3> QED BY <2>3, <3>2, <3>4
  <2>4. CASE PivotKey(j[2]) = key /\ pivots[key].time # j[3]
    <3>1. /\ ConfirmPivotDead(merkles[key], j[3])
          /\ \E x \in ProvableHistory(merkles[key]) : x.time = j[3]
      BY <2>4 DEF StakeInv, TranchesBacked, DeadTrancheRecoverable
    <3>2. merkles[key].time < pivots[key].time
      BY <1>1 DEF TrancheInv, TrancheFresh
    <3>3. merkles[key].time \in Nat /\ pivots[key].time \in Nat
      BY <1>1, <1>3, TimesTyped
    <3>4. merkles'[key].time >= j[3]
      BY <1>1, <2>1, <3>1, <3>2, <3>3 DEF ConfirmPivotDead
    <3> QED BY <1>15, <2>4, <3>1, <3>4 DEF ConfirmPivotDead
  <2> QED BY <2>2, <2>3, <2>4
<1> QED BY <1>11, <1>12, <1>13, <1>14, <1>16 DEF StakeInv, TranchesBacked

\* The other steps of a swap and of the clock move no stake.
LEMMA SweepStakes ==
    ASSUME BookInv, StakeInv, NEW g \in FeeSteps,
           \/ \E t \in PriceTicks : SweepEnd(t, g)
           \/ \E b \in Ticks : SweepCross(b, g)
    PROVE  StakeInv'
<1>1. CASE \E t \in PriceTicks : SweepEnd(t, g)
  <2>1. UNCHANGED <<levels, positions, knockoutVars, depth>>
    BY <1>1 DEF SweepEnd, bookVars
  <2> QED BY <2>1, StakesUntouched
<1>2. CASE \E b \in Ticks : SweepCross(b, g)
  <2> PICK b \in Ticks : SweepCross(b, g)
    BY <1>2
  <2>1. /\ LegFees(g) /\ levels' = CrossLevel(levels, b, concGrowth + g)
        /\ UNCHANGED <<positions, knockoutVars, depth>>
    BY DEF SweepCross, RollOver
  <2>2. levels \in Books /\ concGrowth + g \in FeeWords
    BY <2>1, SweepTypes
  <2>3. levels[b].odo <= concGrowth + g
    <3>1. levels[b].odo <= concGrowth
      BY DEF BookInv, WordInv, OdometerBounded
    <3>2. levels[b].odo \in Nat
      BY <2>2, FeeWordAssumption DEF Books, Levels, FeeWords
    <3>3. concGrowth \in Nat /\ concGrowth <= concGrowth + g /\ g \in Nat
      BY <2>1, SweepTypes
    <3> QED BY <3>1, <3>2, <3>3
  <2>4. \A t \in Ticks :
           /\ LotsToLiquidity(levels'[t].bid) = LotsToLiquidity(levels[t].bid)
           /\ LotsToLiquidity(levels'[t].ask) = LotsToLiquidity(levels[t].ask)
    BY <2>1, <2>2, <2>3, CrossFacts
  <2> QED BY <2>1, <2>4, StakesUntouched
<1> QED BY <1>1, <1>2

\* One step of the pool keeps the stakes.
LEMMA NextStakeInv ==
    ASSUME BookInv, BookInv', TrancheInv, StakeInv, [Next]_vars
    PROVE  StakeInv'
<1>1. ASSUME NEW o \in Owners, NEW r \in RangeLocs,
             \/ \E lots \in LotSizes, offGrid \in BOOLEAN : MintRange(o, r, lots, offGrid)
             \/ MarkRange(o, r)
             \/ \E lots \in LotSizes : BurnRange(o, r, lots)
             \/ HarvestRange(o, r)
      PROVE  StakeInv'
  BY <1>1, MintRangeStakes, MarkRangeStakes, BurnRangeStakes, HarvestRangeStakes
<1>2. ASSUME NEW o \in Owners, NEW k \in KoLocs,
             \/ \E lots \in LotSizes, bits \in KoBits : MintKnockout(o, k, lots, bits)
             \/ \E lots \in LotSizes : BurnKnockout(o, k, lots)
             \/ \E proven \in ProvableHistory(merkles[PivotKey(k)]) :
                   ClaimKnockout(o, k, proven)
             \/ \E pivotTime \in Times : RecoverKnockout(o, k, pivotTime)
      PROVE  StakeInv'
  BY <1>2, MintKnockoutStakes, BurnKnockoutStakes, ClaimKnockoutStakes, RecoverKnockoutStakes
<1>3. CASE PassTime \/ (\E dir \in {"buy", "sell"} : SweepBegin(dir)) \/ UNCHANGED vars
  <2>1. UNCHANGED <<levels, positions, knockoutVars, depth>>
    BY <1>3 DEF PassTime, SweepBegin, vars, bookVars, knockoutVars
  <2> QED BY <2>1, StakesUntouched
<1>4. ASSUME NEW g \in FeeSteps,
             \/ \E t \in PriceTicks : SweepEnd(t, g)
             \/ \E b \in Ticks : SweepCross(b, g) \/ SweepKnockout(b, g)
      PROVE  StakeInv'
  BY <1>4, SweepStakes, SweepKnockoutStakes
<1> QED BY <1>1, <1>2, <1>3, <1>4
        DEF Next, RangeNext, KnockoutNext, SweepNext

-----------------------------------------------------------------------------
\* The whole invariant of the pool.
PoolInv == BookInv /\ TrancheInv /\ StakeInv

LEMMA NextPoolInv == PoolInv /\ [Next]_vars => PoolInv'
<1>1. BookInv /\ [Next]_vars => BookInv'
  BY NextBookInv
<1>2. BookInv /\ TrancheInv /\ [Next]_vars => TrancheInv'
  BY NextTrancheInv
<1>3. BookInv /\ BookInv' /\ TrancheInv /\ StakeInv /\ [Next]_vars => StakeInv'
  BY NextStakeInv
<1> QED BY <1>1, <1>2, <1>3 DEF PoolInv

\* The words, the book, the tranches and the positions of a pool stay in step
\* through every command and at every iteration of a swap.
THEOREM PoolInvariant == Spec => []PoolInv
<1>1. Init => PoolInv
  BY InitBookInv, InitTrancheInv, InitStakeInv DEF PoolInv
<1> QED BY <1>1, NextPoolInv, PTL DEF Spec

\* Nobody's lots are left behind on the book or counted twice: the depth over
\* every tick is the sum of the positions that can still be burned, at every
\* iteration of a swap.
THEOREM PositionsStacked == Spec => []DepthIsPositions
<1>1. PoolInv => DepthIsPositions
  BY StakesMeanIt DEF PoolInv, BookInv, WordInv
<1> QED BY <1>1, PoolInvariant, PTL

\* A pivot holds exactly the lots of the positions in its tranche, so that a
\* knockout takes off the book what their owners can claim.
THEOREM PivotsBacked == Spec => []PivotBacked
<1>1. PoolInv => PivotBacked
  BY StakesMeanIt DEF PoolInv, BookInv, WordInv
<1> QED BY <1>1, PoolInvariant, PTL

\* The owner of a position whose tranche no longer rests can recover it, and
\* claim it with a proof from the history, for ever.
THEOREM DeadTranchesRecoverable == Spec => []DeadTrancheRecoverable
<1>1. PoolInv => DeadTrancheRecoverable
  BY DEF PoolInv, StakeInv, TranchesBacked
<1> QED BY <1>1, PoolInvariant, PTL

-----------------------------------------------------------------------------
(***************************************************************************)
(* Crossing a level never reverts.                                         *)
(***************************************************************************)
\* What a tranche holds is part of any stake that takes in its range.
LEMMA TrancheCovered ==
    ASSUME TypeOK, Backed, OneRange, NEW key \in PivotKeys, NEW Z,
           <<PivotLower(key, pivots[key].width), PivotUpper(key, pivots[key].width)>> \in Z
    PROVE  pivots[key].lots <= StakeIn(Z)
<1> DEFINE f == LiveLots
           A == AtPivot(key)
           K == KnockoutsIn(Z)
           lots == pivots[key].lots
           all == SumFunctionOnSet(LotsOf(positions), RangesIn(Z))
<1>1. /\ IsFiniteSet(A) /\ IsFiniteSet(K) /\ IsFiniteSet(A \cap K) /\ IsFiniteSet(A \ K)
      /\ A \cap K \in SUBSET K
      /\ \A k \in A : f[k] \in Nat
      /\ \A k \in K : f[k] \in Nat
      /\ lots = SumFunctionOnSet(f, A)
  BY StakeSets, StakesTyped, FS_Subset DEF Backed
<1>2. \A k \in A \ K : f[k] = 0
  BY TrancheRange DEF AtPivot, KnockoutsIn
<1>3. all \in Nat
  BY StakesTyped, StakeSets, SumIsNat
<1>4. StakeIn(Z) = all + SumFunctionOnSet(f, K)
  BY DEF StakeIn
<1> HIDE DEF f, A, K, all, lots
<1>5. SumFunctionOnSet(f, A) = SumFunctionOnSet(f, A \cap K) + SumFunctionOnSet(f, A \ K)
  <2>1. \A k \in A : f[k] \in Int
    BY <1>1
  <2> QED BY <1>1, <2>1, SumSplits
<1>6. SumFunctionOnSet(f, A \ K) = 0
  BY <1>1, <1>2, SumOfZeros
<1>7. SumFunctionOnSet(f, A \cap K) <= SumFunctionOnSet(f, K)
  BY <1>1, SumCovers
<1>8. SumFunctionOnSet(f, K) \in Nat /\ SumFunctionOnSet(f, A \cap K) \in Nat
  <2>1. \A k \in A \cap K : f[k] \in Nat
    BY <1>1
  <2> QED BY <1>1, <2>1, SumIsNat
<1>9. lots <= StakeIn(Z)
  BY <1>1, <1>3, <1>4, <1>5, <1>6, <1>7, <1>8
<1> QED BY <1>9 DEF lots

\* The two levels of a resting tranche hold its lots, also without the flag.
LEMMA TrancheComesOff ==
    ASSUME BookInv, StakeInv, NEW key \in PivotKeys, pivots[key].time # 0
    PROVE  /\ PivotRangeOkay(key)
           /\ RemoveBookFits(UnmarkPivot(levels, key), PivotLower(key, pivots[key].width),
                             PivotUpper(key, pivots[key].width), pivots[key].lots)
<1> DEFINE l == PivotLower(key, pivots[key].width)
           u == PivotUpper(key, pivots[key].width)
           lots == pivots[key].lots
           plain == UnmarkPivot(levels, key)
<1>1. TypeOK /\ levels \in Books /\ key \in BOOLEAN \X Ticks /\ PivotRangeOkay(key)
  BY DEF BookInv, WordInv, TypeOK, Books, PivotKeys, PivotShape
<1>2. l \in Ticks /\ u \in Ticks
  <2> DEFINE b == key[2]
             width == pivots[key].width
  <2>1. /\ b \in Int /\ MinTick <= b /\ b <= MaxTick
        /\ width \in Nat /\ width > 0 /\ l >= MinTick /\ u <= MaxTick
    BY <1>1, TickAssumption DEF PivotRangeOkay, TypeOK, Pivots, Ticks
  <2>2. \/ l = b /\ u = b + width
        \/ l = b - width /\ u = b
    BY DEF PivotLower, PivotUpper
  <2> HIDE DEF b, width, l, u
  <2> QED BY <2>1, <2>2, TickAssumption DEF Ticks
<1>3. /\ plain \in Books
      /\ \A t \in Ticks :
            /\ LotsToLiquidity(plain[t].bid) = LotsToLiquidity(levels[t].bid)
            /\ LotsToLiquidity(plain[t].ask) = LotsToLiquidity(levels[t].ask)
  BY <1>1, UnmarkFacts
<1>4. lots <= StakeIn(RangesFrom(l)) /\ lots <= StakeIn(RangesTo(u))
  <2>1. <<l, u>> \in RangesFrom(l) /\ <<l, u>> \in RangesTo(u)
    <3> HIDE DEF l, u
    <3> QED BY <1>2 DEF RangesFrom, RangesTo, Ranges
  <2> QED BY <1>1, <2>1, TrancheCovered DEF StakeInv, TranchesBacked
<1> HIDE DEF l, u, plain
<1>5. lots <= LotsToLiquidity(plain[l].bid) /\ lots <= LotsToLiquidity(plain[u].ask)
  BY <1>2, <1>3, <1>4 DEF StakeInv, Sides
<1>6. ASSUME NEW word \in LotWords, lots <= LotsToLiquidity(word)
      PROVE  lots <= word
  <2>1. word \in Nat /\ lots \in Nat
    BY <1>1, LotLimitAssumption DEF LotWords, TypeOK, Pivots
  <2> HIDE DEF lots
  <2> QED BY <1>6, <2>1 DEF LotsToLiquidity
<1>7. plain[l].bid \in LotWords /\ plain[u].ask \in LotWords
  BY <1>2, <1>3 DEF Books, Levels
<1>8. RemoveBookFits(plain, l, u, lots)
  <2>1. lots <= plain[l].bid /\ lots <= plain[u].ask
    BY <1>5, <1>6, <1>7
  <2> QED BY <2>1 DEF RemoveBookFits, MinusLotsFits
<1> QED BY <1>1, <1>8 DEF l, u, plain

\* Between the price and the next bump nothing is stacked or taken off, so the
\* curve holds at the bump what the depth says, on its far side too.
LEMMA BumpCovered ==
    ASSUME BookInv, StakeInv, NEW buy \in BOOLEAN, NEW b \in census,
           IF buy THEN tick < b ELSE b <= tick,
           \A c \in census : (IF buy THEN tick < c ELSE c <= tick)
                                => IF buy THEN b <= c ELSE c <= b
    PROVE  concLiq + CrossDelta(levels, b, buy) >= 0
<1> USE DEF BookInv, WordInv, DepthInv
<1>1. /\ b \in Ticks /\ tick \in Ticks /\ tick \in Int /\ concLiq = depth[tick]
      /\ levels \in Books /\ depth \in [Ticks -> Int] /\ b \in Int
  BY TickAssumption DEF TypeOK, PriceTicks, Ticks, ActiveLiquidity, Books
<1>2. \A t \in Ticks : depth[t] \in Nat
  BY StakeIsNat DEF StakeInv, Depths
<1>3. NetBump(levels, b) = depth[b] - DepthBelow(b) /\ DepthBelow(b) \in Nat
  <2>1. DepthBelow(b) \in Nat
    <3>1. b # MinTick => b - 1 \in Ticks
      BY <1>1, TickAssumption DEF Ticks
    <3> QED BY <1>2, <3>1 DEF DepthBelow
  <2> QED BY <1>1, <2>1 DEF BookMatchesDepth
<1>4. CASE buy
  <2>1. b - 1 \in Ticks /\ b # MinTick /\ tick <= b - 1
    BY <1>1, <1>4, TickAssumption DEF Ticks
  <2>2. \A v \in Ticks : (tick < v /\ v <= b - 1) => ~IsActive(levels[v])
    BY <1>1, <1>4, TickAssumption DEF BookmarkCoversLots, Ticks
  <2>3. depth[tick] = depth[b - 1]
    BY <1>1, <2>1, <2>2 DEF DepthFlat, Flat
  <2>4. DepthBelow(b) = depth[tick]
    BY <2>1, <2>3 DEF DepthBelow
  <2>5. concLiq + NetBump(levels, b) = depth[b]
    BY <1>1, <1>2, <1>3, <2>4
  <2> QED BY <1>1, <1>2, <1>4, <2>5 DEF CrossDelta
<1>5. CASE ~buy
  <2>1. \A v \in Ticks : (b < v /\ v <= tick) => ~IsActive(levels[v])
    BY <1>1, <1>5, TickAssumption DEF BookmarkCoversLots, Ticks
  <2>2. depth[b] = depth[tick]
    BY <1>1, <1>5, <2>1 DEF DepthFlat, Flat
  <2>3. concLiq - NetBump(levels, b) = DepthBelow(b)
    BY <1>1, <1>2, <1>3, <2>2
  <2>4. concLiq \in Int /\ NetBump(levels, b) \in Int
    BY <1>1, <1>2, <1>3
  <2> QED BY <1>3, <1>5, <2>3, <2>4 DEF CrossDelta
<1> QED BY <1>4, <1>5

\* Wherever a swap may go next, the crossing is arithmetically possible: no
\* order can be left on the book that a swap reverts on, in either direction.
THEOREM CrossingsFit == Spec => []CrossingNeverReverts
<1>1. PoolInv => CrossingNeverReverts
  <2> SUFFICES ASSUME PoolInv PROVE CrossingNeverReverts
    OBVIOUS
  <2> USE DEF PoolInv
  <2>1. ASSUME NEW buy \in BOOLEAN, NEW b \in census, CrossFlag(levels, b, buy)
        PROVE  pivots[<<~buy, b>>].time # 0 /\ <<~buy, b>> \in PivotKeys
    <3>1. b \in Ticks
      BY DEF BookInv, WordInv, TypeOK
    <3>2. CASE buy
      BY <2>1, <3>1, <3>2 DEF CrossFlag, BookInv, WordInv, FlagMatchesPivot, PivotKeys
    <3>3. CASE ~buy
      BY <2>1, <3>1, <3>3 DEF CrossFlag, BookInv, WordInv, FlagMatchesPivot, PivotKeys
    <3> QED BY <3>2, <3>3
  <2>2. ASSUME NEW buy \in BOOLEAN, NEW b \in census,
               b \in {c \in census : IF buy THEN tick < c ELSE c <= tick},
               \A c \in {x \in census : IF buy THEN tick < x ELSE x <= tick} :
                   IF buy THEN b <= c ELSE c <= b
        PROVE  concLiq + CrossDelta(levels, b, buy) >= 0
    BY <2>2, BumpCovered
  <2> QED BY <2>1, <2>2, TrancheComesOff DEF CrossingNeverReverts
<1> QED BY <1>1, PoolInvariant, PTL

-----------------------------------------------------------------------------
(***************************************************************************)
(* The pool implements the liquidity profile.                              *)
(***************************************************************************)
ProfileIsDepth ==
    /\ [t \in Ticks |-> StakeOver(t)] = depth
    /\ \A t \in Ticks : depth[t] \in Nat

LEMMA StakesAreDepth == PoolInv => ProfileIsDepth
<1> SUFFICES ASSUME PoolInv PROVE ProfileIsDepth
  OBVIOUS
<1>1. TypeOK /\ StakeInv /\ depth \in [Ticks -> Int]
  BY DEF PoolInv, BookInv, WordInv, TypeOK
<1>2. [t \in Ticks |-> StakeOver(t)] = depth
  BY <1>1, StakeOverIs DEF StakeInv, Depths
<1>3. \A t \in Ticks : depth[t] \in Nat
  BY <1>1, StakeIsNat DEF StakeInv, Depths
<1> QED BY <1>2, <1>3 DEF ProfileIsDepth

\* What a step may do to the depth, the price and the liquidity of the curve.
Shown == <<depth, tick, concLiq>>
ShownQuantities == {q \in LotWords : IsLotSize(q)}

SuppliesDepth(l, u, lots) ==
    /\ tick' = tick
    /\ depth' = Stacked(depth, l, u, lots)
    /\ concLiq' = depth'[tick]

WithdrawsDepth(l, u, lots) ==
    /\ tick' = tick
    /\ depth' = Stacked(depth, l, u, -lots)
    /\ concLiq' = depth'[tick]

KnocksOutDepth(l, u, lots) ==
    /\ tick' = l - 1 \/ tick' = u
    /\ tick' \in Ticks
    /\ depth' = Stacked(depth, l, u, -lots)
    /\ concLiq' = depth[tick']

MovesPrice ==
    /\ tick' \in Ticks
    /\ depth' = depth
    /\ concLiq' = depth[tick']

DepthStep ==
    \/ UNCHANGED Shown
    \/ MovesPrice
    \/ \E l, u \in Ticks :
          /\ l < u
          /\ \E lots \in ShownQuantities :
                \/ SuppliesDepth(l, u, lots)
                \/ WithdrawsDepth(l, u, lots)
                \/ KnocksOutDepth(l, u, lots)

\* A command that lays or cuts an order supplies or withdraws its lots.
LEMMA OrderDepth ==
    ASSUME TypeOK, ActiveLiquidity', NEW l \in Ticks, NEW u \in Ticks, l < u,
           NEW lots \in LotSizes, tick' = tick,
           \/ depth' = Stack(l, u, lots)
           \/ depth' = Stack(l, u, -lots)
    PROVE  DepthStep
<1>1. lots \in ShownQuantities
  BY SizesAssumption, LotLimitAssumption DEF ShownQuantities, LotWords, IsLotSize
<1>2. concLiq' = depth'[tick]
  BY DEF ActiveLiquidity
<1>3. SuppliesDepth(l, u, lots) \/ WithdrawsDepth(l, u, lots)
  BY <1>2, StackIsStacked DEF SuppliesDepth, WithdrawsDepth
<1> QED BY <1>1, <1>3 DEF DepthStep

\* A knockout takes the range of its tranche off behind the price.
LEMMA KnockoutDepth ==
    ASSUME BookInv, NEW b \in Ticks, NEW g \in FeeSteps, SweepKnockout(b, g)
    PROVE  DepthStep
<1> DEFINE key == <<sweep = "sell", b>>
           lots == pivots[key].lots
           width == pivots[key].width
           l == PivotLower(key, width)
           u == PivotUpper(key, width)
<1>1. /\ key \in PivotKeys /\ pivots[key].time # 0
      /\ sweep \in {"buy", "sell"} /\ RollOver(b, g)
      /\ depth' = Stacked(depth, l, u, -lots)
  BY KnockoutCommits, StackIsStacked DEF SweepKnockout, BookInv, WordInv, TypeOK
<1>2. /\ tick' \in PriceTicks /\ concLiq' = depth[tick']
      /\ tick' = IF sweep = "buy" THEN b ELSE b - 1
  BY <1>1, RollOverActive
<1>3. /\ lots \in LotWords /\ width \in Nat /\ lots % 2 = 0 /\ PivotRangeOkay(key)
  BY <1>1 DEF BookInv, WordInv, TypeOK, Pivots, PivotShape
<1>4. lots \in ShownQuantities
  BY <1>3, LotLimitAssumption DEF ShownQuantities, LotWords, IsLotSize
<1>5. b \in Int /\ MinTick <= b /\ b <= MaxTick /\ MinTick \in Int /\ MaxTick \in Int
  BY TickAssumption DEF Ticks
<1>6. width > 0 /\ l >= MinTick /\ u <= MaxTick
  BY <1>3 DEF PivotRangeOkay
<1>7. IF sweep = "sell" THEN l = b /\ u = b + width ELSE l = b - width /\ u = b
  BY DEF PivotLower, PivotUpper
<1> HIDE DEF key, lots, width, l, u
<1>8. l \in Ticks /\ u \in Ticks /\ l < u
  BY <1>3, <1>5, <1>6, <1>7 DEF Ticks
<1>9. tick' = l - 1 \/ tick' = u
  BY <1>1, <1>2, <1>7
<1>10. tick' \in Ticks
  BY <1>2, TickAssumption DEF PriceTicks, Ticks
<1>11. KnocksOutDepth(l, u, lots)
  BY <1>1, <1>2, <1>9, <1>10 DEF KnocksOutDepth
<1> QED BY <1>4, <1>8, <1>11 DEF DepthStep

LEMMA NextDepth ==
    ASSUME BookInv, BookInv', [Next]_vars
    PROVE  DepthStep
<1>1. TypeOK /\ TypeOK' /\ ActiveLiquidity /\ ActiveLiquidity'
  BY DEF BookInv, WordInv, DepthInv
<1>2. ASSUME NEW o \in Owners, NEW r \in RangeLocs,
             \/ \E lots \in LotSizes, offGrid \in BOOLEAN : MintRange(o, r, lots, offGrid)
             \/ MarkRange(o, r)
             \/ \E lots \in LotSizes : BurnRange(o, r, lots)
             \/ HarvestRange(o, r)
      PROVE  DepthStep
  <2>1. r.lower \in Ticks /\ r.upper \in Ticks /\ r.lower < r.upper
    BY LocFacts
  <2>2. ASSUME NEW lots \in LotSizes, NEW offGrid \in BOOLEAN, MintRange(o, r, lots, offGrid)
        PROVE  DepthStep
    <3>1. tick' = tick /\ depth' = Stack(r.lower, r.upper, lots)
      BY <2>2 DEF MintRange, AddOrder
    <3> QED BY <1>1, <2>1, <3>1, OrderDepth
  <2>3. ASSUME NEW lots \in LotSizes, BurnRange(o, r, lots)
        PROVE  DepthStep
    <3>1. tick' = tick /\ depth' = Stack(r.lower, r.upper, -lots)
      BY <2>3 DEF BurnRange
    <3> QED BY <1>1, <2>1, <3>1, OrderDepth
  <2>4. CASE HarvestRange(o, r)
    BY <2>4 DEF HarvestRange, curveVars, DepthStep, Shown
  <2>5. CASE MarkRange(o, r)
    BY <2>5 DEF MarkRange, curveVars, DepthStep, Shown
  <2> QED BY <1>2, <2>2, <2>3, <2>4, <2>5
<1>3. ASSUME NEW o \in Owners, NEW k \in KoLocs,
             \/ \E lots \in LotSizes, bits \in KoBits : MintKnockout(o, k, lots, bits)
             \/ \E lots \in LotSizes : BurnKnockout(o, k, lots)
             \/ \E proven \in ProvableHistory(merkles[PivotKey(k)]) :
                   ClaimKnockout(o, k, proven)
             \/ \E pivotTime \in Times : RecoverKnockout(o, k, pivotTime)
      PROVE  DepthStep
  <2>1. k.lower \in Ticks /\ k.upper \in Ticks /\ k.lower < k.upper
    BY LocFacts
  <2>2. ASSUME NEW lots \in LotSizes, NEW bits \in KoBits, MintKnockout(o, k, lots, bits)
        PROVE  DepthStep
    <3>1. tick' = tick /\ depth' = Stack(k.lower, k.upper, lots)
      BY <2>2 DEF MintKnockout
    <3> QED BY <1>1, <2>1, <3>1, OrderDepth
  <2>3. ASSUME NEW lots \in LotSizes, BurnKnockout(o, k, lots)
        PROVE  DepthStep
    <3>1. tick' = tick /\ depth' = Stack(k.lower, k.upper, -lots)
      BY <2>3 DEF BurnKnockout
    <3> QED BY <1>1, <2>1, <3>1, OrderDepth
  <2>4. ASSUME NEW proven, ClaimKnockout(o, k, proven) PROVE DepthStep
    BY <2>4 DEF ClaimKnockout, curveVars, DepthStep, Shown
  <2>5. ASSUME NEW pivotTime, RecoverKnockout(o, k, pivotTime) PROVE DepthStep
    BY <2>5 DEF RecoverKnockout, curveVars, DepthStep, Shown
  <2> QED BY <1>3, <2>2, <2>3, <2>4, <2>5
<1>4. CASE PassTime \/ (\E dir \in {"buy", "sell"} : SweepBegin(dir)) \/ UNCHANGED vars
  BY <1>4 DEF PassTime, SweepBegin, vars, curveVars, DepthStep, Shown
<1>5. ASSUME NEW g \in FeeSteps,
             \/ \E t \in PriceTicks : SweepEnd(t, g)
             \/ \E b \in Ticks : SweepCross(b, g) \/ SweepKnockout(b, g)
      PROVE  DepthStep
  <2>1. ASSUME depth' = depth PROVE DepthStep
    <3>1. tick' \in Ticks
      BY <1>1, TickAssumption DEF TypeOK, PriceTicks, Ticks
    <3>2. concLiq' = depth[tick']
      BY <1>1, <2>1 DEF ActiveLiquidity
    <3> QED BY <2>1, <3>1, <3>2 DEF MovesPrice, DepthStep
  <2>2. ASSUME NEW t \in PriceTicks, SweepEnd(t, g) PROVE DepthStep
    BY <2>1, <2>2 DEF SweepEnd
  <2>3. ASSUME NEW b \in Ticks, SweepCross(b, g) PROVE DepthStep
    BY <2>1, <2>3 DEF SweepCross
  <2> QED BY <1>5, <2>2, <2>3, KnockoutDepth
<1> QED BY <1>2, <1>3, <1>4, <1>5 DEF Next, RangeNext, KnockoutNext, SweepNext

\* A step on the depth is a step of the profile.
LEMMA DepthIsProfile ==
    ASSUME ProfileIsDepth, ProfileIsDepth', depth' \in [Ticks -> Int], DepthStep
    PROVE  [Profile!Step]_(Profile!profileVars)
<1> DEFINE held == [t \in Ticks |-> StakeOver(t)]
<1>1. held = depth /\ held' = depth'
  BY DEF ProfileIsDepth
<1>2. \A t \in Ticks : depth[t] \in Nat /\ depth'[t] \in Nat
  BY DEF ProfileIsDepth
<1>3. \A l, u, lots : Profile!Laid(l, u, lots) = Stacked(depth, l, u, lots)
  BY <1>1 DEF Profile!Laid, Profile!Covers, Profile!Ticks, Ticks, Stacked
<1>4. ASSUME NEW l \in Ticks, NEW u \in Ticks, NEW lots \in ShownQuantities,
             depth' = Stacked(depth, l, u, -lots)
      PROVE  \A t \in Ticks : Profile!Covers(l, u, t) => lots <= held[t]
  <2> SUFFICES ASSUME NEW t \in Ticks, l <= t, t < u PROVE lots <= depth[t]
    BY <1>1 DEF Profile!Covers
  <2>1. depth'[t] = depth[t] + (-lots)
    BY <1>4 DEF Stacked
  <2>2. lots \in Nat
    BY LotLimitAssumption DEF ShownQuantities, LotWords
  <2> QED BY <1>2, <2>1, <2>2
<1>5. CASE UNCHANGED Shown
  BY <1>1, <1>5 DEF Shown, Profile!profileVars
<1>6. CASE MovesPrice
  BY <1>1, <1>6 DEF MovesPrice, Profile!Step, Profile!Move, Profile!Ticks, Ticks
<1>7. ASSUME NEW l \in Ticks, NEW u \in Ticks, l < u, NEW lots \in ShownQuantities,
             \/ SuppliesDepth(l, u, lots)
             \/ WithdrawsDepth(l, u, lots)
             \/ KnocksOutDepth(l, u, lots)
      PROVE  Profile!Step
  <2>1. CASE SuppliesDepth(l, u, lots)
    <3>1. Profile!Supply(l, u, lots)
      BY <1>1, <1>3, <2>1 DEF SuppliesDepth, Profile!Supply
    <3> QED BY <1>7, <3>1 DEF Profile!Step, Profile!Ticks, Ticks, ShownQuantities
  <2>2. CASE WithdrawsDepth(l, u, lots)
    <3>1. Profile!Withdraw(l, u, lots)
      BY <1>1, <1>3, <1>4, <2>2 DEF WithdrawsDepth, Profile!Withdraw, Profile!Ticks, Ticks
    <3> QED BY <1>7, <3>1 DEF Profile!Step, Profile!Ticks, Ticks, ShownQuantities
  <2>3. CASE KnocksOutDepth(l, u, lots)
    <3>1. Profile!KnockOut(l, u, lots)
      BY <1>1, <1>3, <1>4, <2>3 DEF KnocksOutDepth, Profile!KnockOut, Profile!Ticks, Ticks
    <3> QED BY <1>7, <3>1 DEF Profile!Step, Profile!Ticks, Ticks, ShownQuantities
  <2> QED BY <1>7, <2>1, <2>2, <2>3
<1> QED BY <1>5, <1>6, <1>7 DEF DepthStep

\* The pool implements the liquidity profile: seen through its positions, its
\* price and the liquidity of its curve, every operation and every iteration
\* of a swap supplies, withdraws, moves the price or knocks out an order.
THEOREM PoolImplementsProfile == Spec => ImplementsProfile
<1>1. Init => Profile!Empty
  <2> SUFFICES ASSUME Init PROVE Profile!Empty
    OBVIOUS
  <2>1. ProfileIsDepth
    BY InitBookInv, InitTrancheInv, InitStakeInv, StakesAreDepth DEF PoolInv
  <2>2. tick \in Ticks
    BY SettingsAssumption, TickAssumption DEF Init, Ticks
  <2> QED BY <2>1, <2>2 DEF Init, ProfileIsDepth, Profile!Empty, Profile!Ticks, Ticks
<1>2. PoolInv => ProfileIsDepth
  BY StakesAreDepth
<1>3. PoolInv /\ PoolInv' /\ ProfileIsDepth /\ ProfileIsDepth' /\ [Next]_vars
        => [Profile!Step]_(Profile!profileVars)
  <2> SUFFICES ASSUME PoolInv, PoolInv', ProfileIsDepth, ProfileIsDepth', [Next]_vars
               PROVE  [Profile!Step]_(Profile!profileVars)
    OBVIOUS
  <2>1. depth' \in [Ticks -> Int]
    BY DEF PoolInv, BookInv, WordInv, TypeOK
  <2>2. DepthStep
    BY NextDepth DEF PoolInv
  <2> QED BY <2>1, <2>2, DepthIsProfile
<1> QED BY <1>1, <1>2, <1>3, PoolInvariant, PTL DEF Spec, ImplementsProfile, Profile!Promise

-----------------------------------------------------------------------------
(***************************************************************************)
(* The ledger of rewards.                                                  *)
(***************************************************************************)
\* What is due to a position covers what its lots would earn from its mileage
\* up to a reading of the clock.
Meets(due, lots, clock, mileage) == due >= 0 /\ lots * (clock - mileage) <= due

LEMMA TimesSum ==
    ASSUME NEW a \in Int, NEW x \in Int, NEW y \in Int
    PROVE  /\ a * (x + y) = (a * x) + (a * y)
           /\ a * (x - y) = (a * x) - (a * y)
           /\ (x + y) * a = (x * a) + (y * a)
           /\ (x - y) * a = (x * a) - (y * a)
           /\ a * x \in Int /\ x * a \in Int
OBVIOUS

LEMMA TimesOrder ==
    ASSUME NEW a \in Nat, NEW x \in Int, NEW y \in Int, x <= y
    PROVE  a * x <= a * y
OBVIOUS

\* The clock moves by what is earned in the step, or falls back a turn.
LEMMA MeetsGrowth ==
    ASSUME NEW due \in Int, NEW lots \in Nat, NEW clock \in Int, NEW mileage \in Int,
           Meets(due, lots, clock, mileage),
           NEW growth \in Nat, NEW reading \in Int, reading <= clock + growth
    PROVE  Meets(due + (lots * growth), lots, reading, mileage)
<1> DEFINE gap == clock - mileage
           new == reading - mileage
<1>1. gap \in Int /\ new \in Int /\ new <= gap + growth /\ gap + growth \in Int
  OBVIOUS
<1>2. lots * gap <= due /\ due >= 0
  BY DEF Meets
<1> HIDE DEF gap, new
<1>3. lots * new <= lots * (gap + growth)
  BY <1>1, TimesOrder
<1>4. lots * (gap + growth) = (lots * gap) + (lots * growth)
  BY <1>1, TimesSum
<1>5. lots * growth \in Nat /\ lots * gap \in Int /\ lots * new \in Int
  BY <1>1
<1>6. lots * new <= due + (lots * growth) /\ due + (lots * growth) >= 0
  BY <1>1, <1>2, <1>3, <1>4, <1>5
<1> QED BY <1>6 DEF Meets, new

\* Lots that join at the current reading: the blend is never below the mean.
LEMMA BlendAbove ==
    ASSUME NEW x \in Nat, NEW lx \in Nat, NEW y \in Nat, NEW ly \in Nat \ {0}
    PROVE  /\ BlendMileage(x, lx, y, ly) \in Nat
           /\ (lx * x) + (ly * y) <= (lx + ly) * BlendMileage(x, lx, y, ly)
<1>1. ASSUME NEW m \in Nat, NEW w \in Nat, NEW d \in Nat \ {0}
      PROVE  /\ CalcBlend(m, w, d) \in Nat
             /\ m * w <= d * (CalcBlend(m, w, d) + 1)
  <2>1. m * w \in Nat
    OBVIOUS
  <2>2. ASSUME NEW p \in Nat PROVE p \div d \in Nat /\ p <= d * ((p \div d) + 1)
    OBVIOUS
  <2> QED BY <2>1, <2>2 DEF CalcBlend
<1>2. CASE lx = 0 \/ x = y
  <2>1. BlendMileage(x, lx, y, ly) = y
    BY <1>2 DEF BlendMileage
  <2>2. (lx + ly) * y = (lx * y) + (ly * y)
    BY TimesSum
  <2>3. lx * x = lx * y
    BY <1>2
  <2> QED BY <2>1, <2>2, <2>3
<1>3. CASE lx # 0 /\ x # y
  <2> DEFINE d == lx + ly
             bx == CalcBlend(x, lx, d)
             by == CalcBlend(y, ly, d)
  <2>1. d \in Nat \ {0}
    OBVIOUS
  <2>2. /\ bx \in Nat /\ x * lx <= d * (bx + 1)
        /\ by \in Nat /\ y * ly <= d * (by + 1)
    BY <2>1, <1>1
  <2>3. BlendMileage(x, lx, y, ly) = bx + 1 + by + 1
    BY <1>3 DEF BlendMileage
  <2> HIDE DEF d, bx, by
  <2>4. d * ((bx + 1) + (by + 1)) = (d * (bx + 1)) + (d * (by + 1))
    BY <2>1, <2>2, TimesSum
  <2>5. bx + 1 + by + 1 = (bx + 1) + (by + 1) /\ bx + 1 + by + 1 \in Nat
    BY <2>2
  <2>6. lx * x = x * lx /\ ly * y = y * ly /\ x * lx \in Nat /\ y * ly \in Nat
    OBVIOUS
  <2>7. d * (bx + 1) \in Nat /\ d * (by + 1) \in Nat
    BY <2>1, <2>2
  <2>8. (lx * x) + (ly * y) <= d * (bx + 1 + by + 1)
    BY <2>2, <2>4, <2>5, <2>6, <2>7
  <2> QED BY <2>3, <2>5, <2>8 DEF d
<1> QED BY <1>2, <1>3

LEMMA MeetsMint ==
    ASSUME NEW due \in Int, NEW lots \in Nat, NEW clock \in Nat, NEW mileage \in Nat,
           NEW more \in Nat, Meets(due, lots, clock, mileage)
    PROVE  Meets(due, lots + more, clock, BlendMileage(clock, more, mileage, lots))
<1>1. CASE lots = 0
  <2>1. BlendMileage(clock, more, mileage, lots) = clock
    BY <1>1 DEF BlendMileage
  <2>2. (lots + more) * (clock - clock) = 0
    OBVIOUS
  <2> QED BY <2>1, <2>2 DEF Meets
<1>2. CASE lots # 0
  <2> DEFINE blend == BlendMileage(clock, more, mileage, lots)
             all == more + lots
  <2>1. blend \in Nat /\ (more * clock) + (lots * mileage) <= all * blend
    BY <1>2, BlendAbove
  <2>2. all \in Nat /\ lots + more = all
    OBVIOUS
  <2>3. /\ all * clock = (more * clock) + (lots * clock)
        /\ lots * (clock - mileage) = (lots * clock) - (lots * mileage)
        /\ more * clock \in Int /\ lots * clock \in Int /\ lots * mileage \in Int
    BY TimesSum
  <2> HIDE DEF blend, all
  <2>4. all * (clock - blend) = (all * clock) - (all * blend) /\ all * blend \in Int
    BY <2>1, <2>2, TimesSum
  <2>5. all * (clock - blend) <= lots * (clock - mileage)
    BY <2>1, <2>3, <2>4
  <2>6. all * (clock - blend) \in Int /\ lots * (clock - mileage) \in Int
    BY <2>3, <2>4
  <2>7. all * (clock - blend) <= due /\ due >= 0
    BY <2>5, <2>6 DEF Meets
  <2> QED BY <2>2, <2>7 DEF Meets, blend
<1> QED BY <1>1, <1>2

\* A payment is no more than what is due, and leaves the rest covered.
LEMMA MeetsPayment ==
    ASSUME NEW due \in Int, NEW lots \in Nat, NEW clock \in Int, NEW mileage \in Int,
           Meets(due, lots, clock, mileage), NEW less \in Nat, less <= lots
    PROVE  /\ less * DeltaRewardsRate(clock, mileage) \in Nat
           /\ less * DeltaRewardsRate(clock, mileage) <= due
           /\ Meets(due - (less * DeltaRewardsRate(clock, mileage)), lots - less, clock, mileage)
<1> DEFINE rate == DeltaRewardsRate(clock, mileage)
           gap == clock - mileage
           rest == lots - less
<1>1. gap \in Int /\ rest \in Nat /\ lots = rest + less
  OBVIOUS
<1>2. rate \in Nat /\ (rate # 0 => rate <= gap) /\ (gap > 0 => rate <= gap) /\ (gap <= 0 => rate = 0)
  BY DEF DeltaRewardsRate
<1>3. due >= 0 /\ lots * gap <= due
  BY DEF Meets
<1> HIDE DEF rate, gap, rest
<1>4. lots * gap = (rest * gap) + (less * gap)
  BY <1>1, TimesSum
<1>5. /\ less * rate \in Nat /\ rest * gap \in Int /\ less * gap \in Int
  BY <1>1, <1>2
<1>6. CASE gap <= 0
  <2>1. less * rate = 0
    BY <1>2, <1>6
  <2>2. rest * gap <= rest * 0
    BY <1>1, <1>6, TimesOrder
  <2>3. rest * gap <= 0
    BY <1>1, <2>2
  <2>4. rest * gap <= due - (less * rate) /\ due - (less * rate) >= 0 /\ less * rate <= due
    BY <1>3, <1>5, <2>1, <2>3
  <2> QED BY <1>5, <2>4 DEF Meets, rate, gap, rest
<1>7. CASE gap > 0
  <2>1. less * rate <= less * gap
    BY <1>1, <1>2, <1>7, TimesOrder
  <2>2. rest * gap >= 0
    BY <1>1, <1>7
  <2>3. rest * gap <= due - (less * rate) /\ due - (less * rate) >= 0 /\ less * rate <= due
    BY <1>3, <1>4, <1>5, <2>1, <2>2
  <2> QED BY <1>5, <2>3 DEF Meets, rate, gap, rest
<1> QED BY <1>1, <1>6, <1>7

-----------------------------------------------------------------------------
(***************************************************************************)
(* The inductive invariant of the ledger.  It bounds the plain difference  *)
(* of clock and mileage, which may be negative, rather than what a burn    *)
(* would pay: a clock that falls back a turn or a blend that is rounded up *)
(* lowers the difference, and lots that wait below zero are not yet paid.  *)
(***************************************************************************)
ClockOn(k) == Clock(k[2].lower, k[2].upper)

RangeMet(k) == Meets(owed[k], positions[k].lots, ClockOn(k), positions[k].mileage)

\* A tranche that rests earns by the clock, one that is gone by its commitment.
LiveMet(k) == IsLive(k) => Meets(owed[k], koPos[k].lots, ClockOn(k), koPos[k].mileage)
DeadMet(k) ==
    (~IsLive(k) /\ koPos[k].lots > 0) =>
        \A proven \in ProvableHistory(merkles[PivotKey(k[2])]) :
            proven.time = k[3] => Meets(owed[k], koPos[k].lots, proven.mileage, koPos[k].mileage)
KnockoutMet(k) == owed[k] >= 0 /\ LiveMet(k) /\ DeadMet(k)

AllMet == (\A k \in RangeKeys : RangeMet(k)) /\ (\A k \in KoKeys : KnockoutMet(k))
LedgerTyped == owed \in [RangeKeys \cup KoKeys -> Int] /\ skewed \in BOOLEAN
LedgerInv == LedgerTyped /\ (~skewed => AllMet)

-----------------------------------------------------------------------------
\* A key is of one kind.
LEMMA KeyKinds == \A k \in KoKeys : k \notin RangeKeys
<1> SUFFICES ASSUME NEW k \in KoKeys, k \in RangeKeys PROVE FALSE
  OBVIOUS
<1>1. Len(k) = 3
  BY DEF KoKeys
<1>2. Len(k) = 2
  BY DEF RangeKeys
<1> QED BY <1>1, <1>2

\* The range of a key is on the grid.
LEMMA KeyRange ==
    ASSUME NEW k \in RangeKeys \cup KoKeys
    PROVE  k[2].lower \in Ticks /\ k[2].upper \in Ticks /\ k[2].lower < k[2].upper
<1>1. CASE k \in RangeKeys
  BY <1>1, LocFacts DEF RangeKeys
<1>2. CASE k \in KoKeys
  BY <1>2, LocFacts DEF KoKeys
<1> QED BY <1>1, <1>2

\* The boundaries of a stake hold its lots, so nobody sets them up again.
StakesRest ==
    /\ \A k \in RangeKeys :
          positions[k].lots > 0 => RestsOn(levels, k[2].lower, k[2].upper)
    /\ \A k \in KoKeys :
          LiveLots[k] > 0 => RestsOn(levels, k[2].lower, k[2].upper)

LEMMA StakeCounts ==
    ASSUME TypeOK, NEW Z
    PROVE  /\ \A k \in RangesIn(Z) : positions[k].lots <= StakeIn(Z)
           /\ \A k \in KnockoutsIn(Z) : LiveLots[k] <= StakeIn(Z)
<1> DEFINE f == LotsOf(positions)
           h == LiveLots
           A == RangesIn(Z)
           B == KnockoutsIn(Z)
<1>1. /\ IsFiniteSet(A) /\ IsFiniteSet(B) /\ A \subseteq RangeKeys /\ B \subseteq KoKeys
      /\ \A k \in A : f[k] \in Nat /\ f[k] = positions[k].lots
      /\ \A k \in B : h[k] \in Nat
      /\ StakeIn(Z) = SumFunctionOnSet(f, A) + SumFunctionOnSet(h, B)
  BY StakeSets, StakesTyped DEF StakeIn
<1> HIDE DEF f, h, A, B
<1>2. SumFunctionOnSet(f, A) \in Nat /\ SumFunctionOnSet(h, B) \in Nat
  BY <1>1, SumIsNat
<1>3. /\ \A k \in A : f[k] <= SumFunctionOnSet(f, A)
      /\ \A k \in B : h[k] <= SumFunctionOnSet(h, B)
  BY <1>1, SumHolds
<1>4. /\ \A k \in A : f[k] <= StakeIn(Z)
      /\ \A k \in B : h[k] <= StakeIn(Z)
  BY <1>1, <1>2, <1>3
<1> QED BY <1>1, <1>4 DEF A, B, h

LEMMA StakesRestOn == BookInv /\ StakeInv => StakesRest
<1> SUFFICES ASSUME BookInv, StakeInv PROVE StakesRest
  OBVIOUS
<1>1. TypeOK /\ levels \in Books
  BY DEF BookInv, WordInv, TypeOK, Books
<1>2. ASSUME NEW k \in RangeKeys \cup KoKeys, NEW lots \in Nat, lots > 0,
             lots <= StakeIn(RangesFrom(k[2].lower)), lots <= StakeIn(RangesTo(k[2].upper))
      PROVE  RestsOn(levels, k[2].lower, k[2].upper)
  <2> DEFINE l == k[2].lower
             u == k[2].upper
  <2>1. l \in Ticks /\ u \in Ticks
    BY KeyRange
  <2>2. /\ lots <= LotsToLiquidity(levels[l].bid)
        /\ lots <= LotsToLiquidity(levels[u].ask)
    BY <1>2, <2>1 DEF StakeInv, Sides
  <2>3. LotsToLiquidity(0) = 0
    BY DEF LotsToLiquidity
  <2> HIDE DEF l, u
  <2>4. levels[l].bid # 0 /\ levels[u].ask # 0
    BY <1>2, <2>2, <2>3
  <2> QED BY <2>4 DEF RestsOn, IsActive, l, u
<1>3. ASSUME NEW k \in RangeKeys \cup KoKeys
      PROVE  /\ k \in RangeKeys => /\ k \in RangesIn(RangesFrom(k[2].lower))
                                   /\ k \in RangesIn(RangesTo(k[2].upper))
             /\ k \in KoKeys => /\ k \in KnockoutsIn(RangesFrom(k[2].lower))
                                /\ k \in KnockoutsIn(RangesTo(k[2].upper))
  BY KeyRange DEF RangesIn, KnockoutsIn, RangesFrom, RangesTo, Ranges, Ends
<1>4. ASSUME NEW k \in RangeKeys, positions[k].lots > 0
      PROVE  RestsOn(levels, k[2].lower, k[2].upper)
  <2>1. positions[k].lots \in Nat
    BY <1>1, StakesTyped
  <2>2. /\ positions[k].lots <= StakeIn(RangesFrom(k[2].lower))
        /\ positions[k].lots <= StakeIn(RangesTo(k[2].upper))
    BY <1>1, <1>3, StakeCounts
  <2> QED BY <1>2, <1>4, <2>1, <2>2
<1>5. ASSUME NEW k \in KoKeys, LiveLots[k] > 0
      PROVE  RestsOn(levels, k[2].lower, k[2].upper)
  <2>1. LiveLots[k] \in Nat
    BY <1>1, StakesTyped
  <2>2. /\ LiveLots[k] <= StakeIn(RangesFrom(k[2].lower))
        /\ LiveLots[k] <= StakeIn(RangesTo(k[2].upper))
    BY <1>1, <1>3, StakeCounts
  <2> QED BY <1>2, <1>5, <2>1, <2>2
<1> QED BY <1>4, <1>5 DEF StakesRest

LEMMA StakesRestNext == BookInv' /\ StakeInv' => StakesRest'
BY StakesRestOn, PTL

-----------------------------------------------------------------------------
\* The clock of a range is a mileage word.
LEMMA ClockIsWord ==
    BookInv => \A l, u \in Ticks : Clock(l, u) \in FeeWords
<1> SUFFICES ASSUME BookInv, NEW l \in Ticks, NEW u \in Ticks
             PROVE  Clock(l, u) \in FeeWords
  OBVIOUS
<1>1. levels \in Books /\ tick \in Int /\ concGrowth \in FeeWords
  BY TickAssumption DEF BookInv, WordInv, TypeOK, Books, PriceTicks
<1> QED BY <1>1, ClockWord DEF Clock

ClocksAreWords == \A l, u \in Ticks : Clock(l, u) \in FeeWords

LEMMA ClockIsWordNext == BookInv' => ClocksAreWords'
<1>1. BookInv => ClocksAreWords
  BY ClockIsWord DEF ClocksAreWords
<1> QED BY <1>1, PTL

\* A circular step ahead is the plain one, or a turn less.
LEMMA StepAhead ==
    ASSUME NEW a \in FeeWords, NEW b \in FeeWords, NEW g \in FeeWords, (b - a) % FeeWord = g
    PROVE  b <= a + g /\ (g = 0 => b = a)
<1> DEFINE d == b - a
<1>1. d \in Int /\ -FeeWord < d /\ d < FeeWord
  BY FeeWordAssumption DEF FeeWords
<1>2. d % FeeWord = IF d < 0 THEN d + FeeWord ELSE d
  <2> HIDE DEF d
  <2> QED BY <1>1, WordTurn
<1> QED BY <1>1, <1>2, FeeWordAssumption DEF FeeWords

\* While both boundaries of a range rest, its clock gains no more than the
\* growth booked in range.
LEMMA ClockGains ==
    ASSUME BookInv, BookInv', [Next]_vars, ~SkipsFlip,
           NEW l \in Ticks, NEW u \in Ticks, l < u,
           RestsOn(levels, l, u), RestsOn(levels', l, u)
    PROVE  /\ Clock(l, u)' <= Clock(l, u) + GrowthInRange(l, u)
           /\ GrowthInRange(l, u) = 0 => Clock(l, u)' = Clock(l, u)
<1>1. Clock(l, u) \in FeeWords /\ Clock(l, u)' \in FeeWords
  BY ClockIsWord, ClockIsWordNext DEF ClocksAreWords
<1>2. ClockAdvance(l, u) = (Clock(l, u)' - Clock(l, u)) % FeeWord
  BY DEF ClockAdvance, Clock, ClockFeeOdometer, PivotFeeBelow
<1>3. ClockAdvance(l, u) = GrowthInRange(l, u)
  BY NextClock
<1>4. GrowthInRange(l, u) \in FeeWords
  BY <1>1, <1>2, <1>3, WordDifference, FeeWordAssumption DEF FeeWords
<1> QED BY <1>1, <1>2, <1>3, <1>4, StepAhead

LEMMA GrowthIsNat ==
    ASSUME TypeOK, TypeOK', [Next]_vars, NEW l, NEW u
    PROVE  GrowthInRange(l, u) \in Nat
<1>1. concGrowth \in Int /\ concGrowth' \in Int
  BY FeeWordAssumption DEF TypeOK, FeeWords
<1>2. concGrowth <= concGrowth'
  BY NextGrowth
<1>3. concGrowth' - concGrowth \in Nat
  <2>1. ASSUME NEW x \in Int, NEW y \in Int, x <= y
        PROVE  y - x \in Nat
    BY <2>1
  <2> QED BY <1>1, <1>2, <2>1
<1> QED BY <1>3 DEF GrowthInRange

-----------------------------------------------------------------------------
(***************************************************************************)
(* A stake whose lots and mileage a step leaves alone.                     *)
(***************************************************************************)
\* Without lots, all that is asked of the ledger is not to be in the red.
LEMMA MeetsNothing ==
    ASSUME NEW due \in Int, NEW clock \in Int, NEW mileage \in Int
    PROVE  Meets(due, 0, clock, mileage) <=> due >= 0
BY DEF Meets

LEMMA StakeTypes ==
    ASSUME BookInv
    PROVE  /\ \A k \in RangeKeys : /\ positions[k].lots \in Nat /\ positions[k].mileage \in Nat
                                   /\ ClockOn(k) \in Nat
           /\ \A k \in KoKeys : /\ koPos[k].lots \in Nat /\ koPos[k].mileage \in Nat
                                /\ ClockOn(k) \in Nat
<1>1. TypeOK
  BY DEF BookInv, WordInv
<1>2. \A k \in RangeKeys \cup KoKeys : ClockOn(k) \in FeeWords
  BY ClockIsWord, KeyRange DEF ClockOn
<1>3. FeeWords \subseteq Nat
  BY FeeWordAssumption DEF FeeWords
<1>4. \A k \in RangeKeys : positions[k].mileage \in FeeWords
  BY <1>1 DEF TypeOK, Positions
<1>5. \A k \in KoKeys : koPos[k].mileage \in FeeWords
  BY <1>1 DEF TypeOK, KoPositions
<1> QED BY <1>1, <1>2, <1>3, <1>4, <1>5, StakesTyped

StakesTypes ==
    /\ \A k \in RangeKeys : /\ positions[k].lots \in Nat /\ positions[k].mileage \in Nat
                            /\ ClockOn(k) \in Nat
    /\ \A k \in KoKeys : /\ koPos[k].lots \in Nat /\ koPos[k].mileage \in Nat
                         /\ ClockOn(k) \in Nat

LEMMA StakeTypesNext == BookInv' => StakesTypes'
<1>1. BookInv => StakesTypes
  BY StakeTypes DEF StakesTypes
<1> QED BY <1>1, PTL

\* While the history of its pivot stands still, a tranche that holds lots
\* neither comes to rest nor goes: times would be drawn twice.
LEMMA StatusStays ==
    ASSUME PoolInv, PoolInv', merkles' = merkles, NEW k \in KoKeys,
           koPos[k].lots > 0, koPos'[k].lots > 0
    PROVE  IsLive(k)' <=> IsLive(k)
<1> DEFINE key == PivotKey(k[2])
<1>1. k[3] # 0 /\ k[3] \in Nat
  <2>1. k[3] \in Times
    BY DEF KoKeys
  <2> QED BY <2>1, BoundsAssumption DEF PoolInv, StakeInv, TranchesBacked, NoneAtZero, Times
<1>2. key \in PivotKeys
  BY PivotEnds DEF KoKeys
<1>3. /\ pivots[key].time \in Nat /\ merkles[key].time \in Nat
      /\ pivots[key].time # k[3] => merkles[key].time >= k[3]
      /\ pivots[key].time # 0 => merkles[key].time < pivots[key].time
  <2>1. TypeOK
    BY DEF PoolInv, BookInv, WordInv
  <2>2. pivots[key].time \in Nat /\ merkles[key].time \in Nat
    BY <1>2, <2>1, TimesTyped
  <2>3. pivots[key].time # k[3] => merkles[key].time >= k[3]
    BY DEF PoolInv, StakeInv, TranchesBacked, DeadTrancheRecoverable, ConfirmPivotDead
  <2>4. pivots[key].time # 0 => merkles[key].time < pivots[key].time
    BY <1>2 DEF PoolInv, TrancheInv, TrancheFresh
  <2> QED BY <2>2, <2>3, <2>4
<1>4. /\ pivots'[key].time # k[3] => merkles[key].time >= k[3]
      /\ pivots'[key].time # 0 => merkles[key].time < pivots'[key].time
  BY <1>2 DEF PoolInv, StakeInv, TranchesBacked, DeadTrancheRecoverable, ConfirmPivotDead,
              TrancheInv, TrancheFresh
<1> HIDE DEF key
<1>5. pivots'[key].time = k[3] <=> pivots[key].time = k[3]
  BY <1>1, <1>3, <1>4
<1> QED BY <1>1, <1>5 DEF IsLive, key

\* The clock of a stake on the book gains no more than the growth in range.
LEMMA StakeClock ==
    ASSUME PoolInv, PoolInv', [Next]_vars, ~SkipsFlip, NEW k \in RangeKeys \cup KoKeys,
           k \in RangeKeys => positions[k].lots > 0 /\ positions'[k].lots > 0,
           k \in KoKeys => /\ koPos[k].lots > 0 /\ koPos'[k].lots > 0
                          /\ IsLive(k) /\ IsLive(k)'
    PROVE  LET growth == GrowthInRange(k[2].lower, k[2].upper) IN
           /\ ClockOn(k)' <= ClockOn(k) + growth
           /\ growth = 0 => ClockOn(k)' = ClockOn(k)
<1> DEFINE l == k[2].lower
           u == k[2].upper
<1>1. BookInv /\ BookInv' /\ StakesRest /\ StakesRest'
  BY StakesRestOn, StakesRestNext DEF PoolInv
<1>2. l \in Ticks /\ u \in Ticks /\ l < u
  BY KeyRange
<1>3. RestsOn(levels, l, u) /\ RestsOn(levels', l, u)
  <2>1. CASE k \in RangeKeys
    BY <1>1, <2>1 DEF StakesRest
  <2>2. CASE k \in KoKeys
    <3>1. LiveLots[k] > 0 /\ LiveLots'[k] > 0
      BY <2>2 DEF LiveLots
    <3> QED BY <1>1, <2>2, <3>1 DEF StakesRest
  <2> QED BY <2>1, <2>2
<1>4. /\ Clock(l, u)' <= Clock(l, u) + GrowthInRange(l, u)
      /\ GrowthInRange(l, u) = 0 => Clock(l, u)' = Clock(l, u)
  BY <1>1, <1>2, <1>3, ClockGains
<1> QED BY <1>4 DEF ClockOn

-----------------------------------------------------------------------------
(***************************************************************************)
(* The operations on positions.  None of them moves the counter, so the    *)
(* clock of every stake stands still.                                      *)
(***************************************************************************)
OrderStep ==
    /\ PoolInv /\ PoolInv'
    /\ [Next]_vars /\ ~SkipsFlip
    /\ UNCHANGED <<concGrowth, merkles>>

LEMMA NoGrowth ==
    ASSUME PoolInv, concGrowth' = concGrowth, NEW l, NEW u
    PROVE  GrowthInRange(l, u) = 0
<1>1. concGrowth \in Int
  BY FeeWordAssumption DEF PoolInv, BookInv, WordInv, TypeOK, FeeWords
<1> QED BY <1>1 DEF GrowthInRange

LEMMA ClockStands ==
    ASSUME OrderStep, NEW k \in RangeKeys \cup KoKeys,
           k \in RangeKeys => positions[k].lots > 0 /\ positions'[k].lots > 0,
           k \in KoKeys => /\ koPos[k].lots > 0 /\ koPos'[k].lots > 0
                          /\ IsLive(k) /\ IsLive(k)'
    PROVE  ClockOn(k)' = ClockOn(k)
<1>1. GrowthInRange(k[2].lower, k[2].upper) = 0
  BY NoGrowth DEF OrderStep
<1> QED BY <1>1, StakeClock DEF OrderStep

LEMMA RangeStays ==
    ASSUME OrderStep, NEW k \in RangeKeys, owed[k] \in Int, RangeMet(k),
           owed'[k] = owed[k], positions'[k] = positions[k]
    PROVE  RangeMet(k)'
<1>1. StakesTypes /\ StakesTypes'
  BY StakeTypes, StakeTypesNext DEF OrderStep, PoolInv, StakesTypes
<1>2. CASE positions[k].lots = 0
  <2>1. owed[k] >= 0
    BY DEF RangeMet, Meets
  <2>2. /\ ClockOn(k)' \in Int /\ positions'[k].mileage \in Int /\ owed'[k] \in Int
        /\ owed'[k] >= 0
    BY <1>1, <2>1 DEF StakesTypes
  <2>3. Meets(owed'[k], 0, ClockOn(k)', positions'[k].mileage)
    BY <2>2, MeetsNothing
  <2> QED BY <1>2, <2>3 DEF RangeMet, Meets
<1>3. CASE positions[k].lots # 0
  <2>1. k \notin KoKeys
    BY KeyKinds
  <2>2. positions[k].lots > 0 /\ positions'[k].lots > 0
    BY <1>1, <1>3 DEF StakesTypes
  <2>3. ClockOn(k)' = ClockOn(k)
    BY <2>1, <2>2, ClockStands
  <2> QED BY <2>3 DEF RangeMet, Meets
<1> QED BY <1>2, <1>3

\* A tranche position without lots asks for nothing.
LEMMA KnockoutEmpty ==
    ASSUME StakesTypes, NEW k \in KoKeys, owed[k] \in Nat, koPos[k].lots = 0
    PROVE  KnockoutMet(k)
<1>1. ClockOn(k) \in Int /\ koPos[k].mileage \in Int /\ owed[k] \in Int /\ owed[k] >= 0
  BY DEF StakesTypes
<1>2. Meets(owed[k], koPos[k].lots, ClockOn(k), koPos[k].mileage)
  BY <1>1, MeetsNothing
<1> QED BY <1>1, <1>2 DEF KnockoutMet, LiveMet, DeadMet

LEMMA KnockoutEmptyNext ==
    ASSUME StakesTypes', NEW k \in KoKeys, owed'[k] \in Nat, koPos'[k].lots = 0
    PROVE  KnockoutMet(k)'
<1>1. ClockOn(k)' \in Int /\ koPos'[k].mileage \in Int /\ owed'[k] \in Int /\ owed'[k] >= 0
  BY DEF StakesTypes
<1>2. Meets(owed'[k], 0, ClockOn(k)', koPos'[k].mileage)
  BY <1>1, MeetsNothing
<1> QED BY <1>1, <1>2 DEF KnockoutMet, LiveMet, DeadMet, Meets

LEMMA KnockoutStays ==
    ASSUME OrderStep, NEW k \in KoKeys, owed[k] \in Int, KnockoutMet(k),
           owed'[k] = owed[k], koPos'[k] = koPos[k]
    PROVE  KnockoutMet(k)'
<1>1. StakesTypes /\ StakesTypes' /\ owed[k] >= 0
  BY StakeTypes, StakeTypesNext DEF OrderStep, PoolInv, StakesTypes, KnockoutMet
<1>2. CASE koPos[k].lots = 0
  BY <1>1, <1>2, KnockoutEmptyNext
<1>3. CASE koPos[k].lots # 0
  <2>1. koPos[k].lots > 0 /\ koPos'[k].lots > 0 /\ k \notin RangeKeys
    BY <1>1, <1>3, KeyKinds DEF StakesTypes
  <2>2. IsLive(k)' <=> IsLive(k)
    BY <2>1, StatusStays DEF OrderStep
  <2>3. CASE IsLive(k)
    <3>1. ClockOn(k)' = ClockOn(k)
      BY <2>1, <2>2, <2>3, ClockStands
    <3> QED BY <1>1, <2>2, <2>3, <3>1 DEF KnockoutMet, LiveMet, DeadMet, Meets
  <2>4. CASE ~IsLive(k)
    BY <1>1, <2>2, <2>4 DEF KnockoutMet, LiveMet, DeadMet, Meets, OrderStep
  <2> QED BY <2>3, <2>4
<1> QED BY <1>2, <1>3

\* An operation that settles the stakes in `touched' settles them all.
LEMMA Settles ==
    ASSUME OrderStep, LedgerInv, NEW touched \in SUBSET (RangeKeys \cup KoKeys),
           skewed' = skewed, owed' \in [RangeKeys \cup KoKeys -> Int],
           \A k \in (RangeKeys \cup KoKeys) \ touched : owed'[k] = owed[k],
           \A k \in RangeKeys \ touched : positions'[k] = positions[k],
           \A k \in KoKeys \ touched : koPos'[k] = koPos[k],
           ~skewed => /\ \A k \in RangeKeys \cap touched : RangeMet(k)'
                      /\ \A k \in KoKeys \cap touched : KnockoutMet(k)'
    PROVE  LedgerInv'
<1>1. LedgerTyped'
  BY DEF LedgerInv, LedgerTyped
<1>2. ASSUME ~skewed PROVE AllMet'
  <2>1. AllMet /\ \A k \in RangeKeys \cup KoKeys : owed[k] \in Int
    BY <1>2 DEF LedgerInv, LedgerTyped
  <2>2. ASSUME NEW k \in RangeKeys PROVE RangeMet(k)'
    <3>1. CASE k \in touched
      BY <1>2, <3>1
    <3>2. CASE k \notin touched
      <4>1. owed[k] \in Int /\ RangeMet(k) /\ owed'[k] = owed[k] /\ positions'[k] = positions[k]
        BY <2>1, <3>2 DEF AllMet
      <4> QED BY <4>1, RangeStays
    <3> QED BY <3>1, <3>2
  <2>3. ASSUME NEW k \in KoKeys PROVE KnockoutMet(k)'
    <3>1. CASE k \in touched
      BY <1>2, <3>1
    <3>2. CASE k \notin touched
      <4>1. owed[k] \in Int /\ KnockoutMet(k) /\ owed'[k] = owed[k] /\ koPos'[k] = koPos[k]
        BY <2>1, <3>2 DEF AllMet
      <4> QED BY <4>1, KnockoutStays
    <3> QED BY <3>1, <3>2
  <2> QED BY <2>2, <2>3 DEF AllMet
<1> QED BY <1>1, <1>2 DEF LedgerInv

\* What the ledger books for one stake, the others left alone.
LEMMA OweOne ==
    ASSUME LedgerInv, NEW key \in RangeKeys \cup KoKeys, NEW due \in Int,
           Owe(key, due)
    PROVE  /\ skewed' = skewed /\ owed' \in [RangeKeys \cup KoKeys -> Int]
           /\ owed'[key] = due
           /\ \A k \in (RangeKeys \cup KoKeys) \ {key} : owed'[k] = owed[k]
<1>1. owed \in [RangeKeys \cup KoKeys -> Int] /\ due \in Int
  BY DEF LedgerInv, LedgerTyped
<1>2. owed' = [owed EXCEPT ![key] = due] /\ skewed' = skewed
  BY DEF Owe
<1> QED BY <1>1, <1>2

\* Lots that join a range order blend in at the current clock.
LEMMA MintRangeLedger ==
    ASSUME OrderStep, LedgerInv, NEW o \in Owners, NEW r \in RangeLocs, NEW lots \in LotSizes,
           NEW offGrid \in BOOLEAN, MintRange(o, r, lots, offGrid), UNCHANGED ledgerVars
    PROVE  LedgerInv'
<1> DEFINE key == <<o, r>>
           pos == positions[key]
           clock == ClockAfterAdd(r.lower, r.upper, lots)
           old == IF pos.lots > 0 THEN pos.mileage ELSE 0
<1>1. key \in RangeKeys /\ key[2] = r
  BY DEF RangeKeys
<1>2. StakesTypes /\ StakesTypes' /\ lots \in Nat
  BY StakeTypes, StakeTypesNext, LocFacts DEF OrderStep, PoolInv, StakesTypes
<1>3. positions \in [RangeKeys -> Positions]
  BY DEF OrderStep, PoolInv, BookInv, WordInv, TypeOK
<1>4. positions' = [positions EXCEPT ![key] =
                       [IncrementPosLiq(pos, lots, clock, now) EXCEPT !.atomic = @ \/ offGrid]]
  BY DEF MintRange
<1>5. ClockOn(key)' = clock
  <2>1. /\ levels' = AddBookLiq(levels, tick, r.lower, r.upper, lots, concGrowth)
        /\ tick' = tick /\ concGrowth' = concGrowth
    BY DEF MintRange, AddOrder
  <2>2. ClockOn(key) = Clock(r.lower, r.upper)
    BY DEF ClockOn
  <2>3. ClockOn(key)' = ClockFeeOdometer(levels', tick', r.lower, r.upper, concGrowth')
    BY DEF ClockOn, Clock, ClockFeeOdometer, PivotFeeBelow
  <2> QED BY <2>1, <2>3 DEF ClockAfterAdd
<1>6. /\ positions'[key].lots = pos.lots + lots
      /\ positions'[key].mileage = BlendMileage(clock, lots, old, pos.lots)
      /\ \A k \in RangeKeys \ {key} : positions'[k] = positions[k]
  <2> HIDE DEF key, clock
  <2>1. pos \in Positions
    BY <1>1, <1>3
  <2> HIDE DEF pos
  <2>2. positions'[key] = [IncrementPosLiq(pos, lots, clock, now) EXCEPT !.atomic = @ \/ offGrid]
    BY <1>1, <1>3, <1>4
  <2>3. \A k \in RangeKeys \ {key} : positions'[k] = positions[k]
    BY <1>3, <1>4
  <2> QED BY <2>1, <2>2, <2>3 DEF IncrementPosLiq, MintMileage, Positions
<1>7. /\ koPos' = koPos /\ skewed' = skewed /\ owed' = owed
      /\ owed \in [RangeKeys \cup KoKeys -> Int]
  BY DEF MintRange, knockoutVars, ledgerVars, LedgerInv, LedgerTyped
<1> HIDE DEF key
<1>8. ASSUME ~skewed PROVE RangeMet(key)'
  <2>1. /\ clock \in Nat /\ pos.lots \in Nat /\ old \in Nat /\ owed[key] \in Int
        /\ pos.mileage \in Nat /\ positions'[key].lots \in Nat
    BY <1>1, <1>2, <1>5, <1>7 DEF StakesTypes
  <2>2. Meets(owed[key], pos.lots, ClockOn(key), pos.mileage)
    BY <1>1, <1>8 DEF LedgerInv, AllMet, RangeMet
  <2>3. Meets(owed[key], pos.lots, clock, old)
    <3>1. CASE pos.lots = 0
      BY <2>1, <2>2, <3>1, MeetsNothing DEF Meets
    <3>2. CASE pos.lots # 0
      <4>1. pos.lots > 0 /\ positions'[key].lots > 0 /\ key \notin KoKeys
        BY <1>1, <1>2, <1>6, <2>1, <3>2, KeyKinds
      <4>2. ClockOn(key)' = ClockOn(key)
        BY <1>1, <4>1, ClockStands
      <4> QED BY <1>5, <2>2, <4>1, <4>2
    <3> QED BY <3>1, <3>2
  <2> HIDE DEF pos, clock, old
  <2>4. Meets(owed[key], pos.lots + lots, clock, BlendMileage(clock, lots, old, pos.lots))
    BY <1>2, <2>1, <2>3, MeetsMint
  <2> QED BY <1>5, <1>6, <1>7, <2>4 DEF RangeMet, Meets
<1> QED BY <1>1, <1>6, <1>7, <1>8, Settles, KeyKinds

\* What a burn pays is taken off what is owed; a position that goes leaves nothing.
LEMMA BurnRangeLedger ==
    ASSUME OrderStep, LedgerInv, NEW o \in Owners, NEW r \in RangeLocs, NEW lots \in LotSizes,
           BurnRange(o, r, lots), Pay(<<o, r>>, lots * RangeRate(<<o, r>>))
    PROVE  LedgerInv'
<1> DEFINE key == <<o, r>>
           pos == positions[key]
           rate == DeltaRewardsRate(ClockOn(key), pos.mileage)
           due == IF positions'[key].lots = 0 THEN 0 ELSE owed[key] - (lots * rate)
<1>1. key \in RangeKeys /\ key[2] = r
  BY DEF RangeKeys
<1>2. StakesTypes /\ StakesTypes' /\ lots \in Nat
  BY StakeTypes, StakeTypesNext, LocFacts DEF OrderStep, PoolInv, StakesTypes
<1>3. positions \in [RangeKeys -> Positions]
  BY DEF OrderStep, PoolInv, BookInv, WordInv, TypeOK
<1>4. /\ positions' = [positions EXCEPT ![key] = DecrementLiq(pos, lots)]
      /\ pos.lots >= lots
  BY DEF BurnRange, DecrementFits
<1>5. Owe(key, due)
  BY <1>1 DEF Pay, LotsAfter, RangeRate, ClockOn
<1>6. koPos' = koPos /\ owed \in [RangeKeys \cup KoKeys -> Int]
  BY DEF BurnRange, knockoutVars, LedgerInv, LedgerTyped
<1> HIDE DEF key
<1>7. /\ positions'[key] = IF pos.lots > lots THEN [pos EXCEPT !.lots = @ - lots] ELSE NoPosition
      /\ \A k \in RangeKeys \ {key} : positions'[k] = positions[k]
      /\ pos \in Positions
  BY <1>1, <1>3, <1>4 DEF DecrementLiq
<1>8. /\ pos.lots \in Nat /\ pos.mileage \in Nat /\ ClockOn(key) \in Nat /\ owed[key] \in Int
      /\ positions'[key].lots \in Nat /\ positions'[key].mileage \in Nat
      /\ ClockOn(key)' \in Nat
  BY <1>1, <1>2, <1>6 DEF StakesTypes
<1>9. positions'[key].lots # 0 => /\ positions'[key].lots = pos.lots - lots
                                  /\ positions'[key].mileage = pos.mileage
                                  /\ pos.lots > 0
  <2> HIDE DEF pos
  <2> QED BY <1>2, <1>7, <1>8 DEF Positions, NoPosition
<1>10. rate \in Nat /\ lots * rate \in Nat
  <2>1. rate \in Nat
    <3> HIDE DEF pos
    <3> QED BY <1>8 DEF DeltaRewardsRate
  <2> HIDE DEF rate
  <2> QED BY <1>2, <2>1
<1>11. due \in Int
  <2> HIDE DEF rate
  <2>1. lots * rate \in Int
    BY <1>10
  <2> DEFINE paid == lots * rate
  <2> HIDE DEF paid
  <2>2. paid \in Int
    BY <2>1 DEF paid
  <2>3. owed[key] - paid \in Int
    BY <1>8, <2>2
  <2> QED BY <2>3 DEF paid
<1>12. /\ skewed' = skewed /\ owed' \in [RangeKeys \cup KoKeys -> Int]
       /\ owed'[key] = due
       /\ \A k \in (RangeKeys \cup KoKeys) \ {key} : owed'[k] = owed[k]
  BY <1>1, <1>5, <1>11, OweOne
<1>13. ASSUME ~skewed PROVE RangeMet(key)'
  <2>1. Meets(owed[key], pos.lots, ClockOn(key), pos.mileage)
    BY <1>1, <1>13 DEF LedgerInv, AllMet, RangeMet
  <2>2. CASE positions'[key].lots = 0
    <3>1. Meets(0, 0, ClockOn(key)', positions'[key].mileage)
      BY <1>8, MeetsNothing
    <3> QED BY <1>12, <2>2, <3>1 DEF RangeMet, Meets
  <2>3. CASE positions'[key].lots # 0
    <3>1. ClockOn(key)' = ClockOn(key)
      <4>1. positions'[key].lots > 0 /\ pos.lots > 0 /\ key \notin KoKeys
        BY <1>1, <1>8, <1>9, <2>3, KeyKinds
      <4> QED BY <1>1, <4>1, ClockStands
    <3> HIDE DEF pos
    <3>2. Meets(owed[key] - (lots * rate), pos.lots - lots, ClockOn(key), pos.mileage)
      BY <1>2, <1>4, <1>8, <2>1, MeetsPayment
    <3> QED BY <1>9, <1>12, <2>3, <3>1, <3>2 DEF RangeMet, Meets
  <2> QED BY <2>2, <2>3
<1> QED BY <1>1, <1>6, <1>7, <1>12, <1>13, Settles, KeyKinds

\* A mark leaves lots, mileage and ledger alone.
LEMMA MarkRangeLedger ==
    ASSUME OrderStep, LedgerInv, NEW o \in Owners, NEW r \in RangeLocs, MarkRange(o, r),
           UNCHANGED ledgerVars
    PROVE  LedgerInv'
<1> DEFINE key == <<o, r>>
           pos == positions[key]
<1>1. key \in RangeKeys /\ positions \in [RangeKeys -> Positions]
  BY DEF RangeKeys, OrderStep, PoolInv, BookInv, WordInv, TypeOK
<1>2. positions' = [positions EXCEPT ![key] = MarkPosAtomic(pos)]
  BY DEF MarkRange
<1>3. /\ koPos' = koPos /\ owed' = owed /\ skewed' = skewed
      /\ owed \in [RangeKeys \cup KoKeys -> Int] /\ skewed \in BOOLEAN
      /\ UNCHANGED <<levels, tick, concGrowth, pivots, merkles>>
  BY DEF MarkRange, bookVars, curveVars, knockoutVars, ledgerVars, LedgerInv, LedgerTyped
<1> HIDE DEF key
<1>4. \A k \in RangeKeys :
          /\ positions'[k].lots = positions[k].lots
          /\ positions'[k].mileage = positions[k].mileage
  BY <1>1, <1>2 DEF MarkPosAtomic, Positions
<1>5. \A k : ClockOn(k)' = ClockOn(k)
  BY <1>3 DEF ClockOn, Clock, ClockFeeOdometer, PivotFeeBelow
<1>6. \A k \in KoKeys : IsLive(k)' <=> IsLive(k)
  BY <1>3 DEF IsLive
<1>7. ASSUME NEW k \in RangeKeys, RangeMet(k) PROVE RangeMet(k)'
  BY <1>3, <1>4, <1>5, <1>7 DEF RangeMet, Meets
<1>8. ASSUME NEW k \in KoKeys, KnockoutMet(k) PROVE KnockoutMet(k)'
  BY <1>3, <1>5, <1>6, <1>8 DEF KnockoutMet, LiveMet, DeadMet, Meets
<1> QED BY <1>3, <1>7, <1>8 DEF LedgerInv, LedgerTyped, AllMet

\* A harvest starts the mileage afresh and settles what is owed.
LEMMA HarvestRangeLedger ==
    ASSUME OrderStep, LedgerInv, NEW o \in Owners, NEW r \in RangeLocs, HarvestRange(o, r),
           IF Clock(r.lower, r.upper) > positions[<<o, r>>].mileage
           THEN Owe(<<o, r>>, 0) ELSE UNCHANGED ledgerVars
    PROVE  LedgerInv'
<1> DEFINE key == <<o, r>>
           pos == positions[key]
<1>1. key \in RangeKeys /\ key[2] = r /\ ClockOn(key) = Clock(r.lower, r.upper)
  BY DEF RangeKeys, ClockOn
<1>2. StakesTypes /\ StakesTypes'
  BY StakeTypes, StakeTypesNext DEF OrderStep, PoolInv, StakesTypes
<1>3. positions \in [RangeKeys -> Positions]
  BY DEF OrderStep, PoolInv, BookInv, WordInv, TypeOK
<1>4. positions' = [positions EXCEPT ![key] = HarvestPosLiq(pos, ClockOn(key))]
  BY <1>1 DEF HarvestRange
<1>5. koPos' = koPos /\ owed \in [RangeKeys \cup KoKeys -> Int]
  BY DEF HarvestRange, knockoutVars, LedgerInv, LedgerTyped
<1>6. IF ClockOn(key) > pos.mileage THEN Owe(key, 0) ELSE UNCHANGED ledgerVars
  BY <1>1
<1>7. UNCHANGED <<levels, tick, concGrowth>>
  BY DEF HarvestRange, bookVars, curveVars
<1>8. ClockOn(key)' = ClockOn(key)
  BY <1>7 DEF ClockOn, Clock, ClockFeeOdometer, PivotFeeBelow
<1> HIDE DEF key
<1>9. /\ positions'[key] = HarvestPosLiq(pos, ClockOn(key)) /\ pos \in Positions
      /\ \A k \in RangeKeys \ {key} : positions'[k] = positions[k]
  BY <1>1, <1>3, <1>4
<1>10. CASE ClockOn(key) > pos.mileage
  <2>1. /\ skewed' = skewed /\ owed' \in [RangeKeys \cup KoKeys -> Int]
        /\ owed'[key] = 0
        /\ \A k \in (RangeKeys \cup KoKeys) \ {key} : owed'[k] = owed[k]
    <3>1. Owe(key, 0) /\ 0 \in Int
      BY <1>6, <1>10
    <3> QED BY <1>1, <3>1, OweOne
  <2>2. positions'[key].lots = pos.lots /\ positions'[key].mileage = ClockOn(key)
    <3> HIDE DEF pos
    <3> QED BY <1>9, <1>10 DEF HarvestPosLiq, Positions
  <2>3. pos.lots \in Nat /\ ClockOn(key) \in Nat
    BY <1>1, <1>2 DEF StakesTypes
  <2>4. Meets(0, pos.lots, ClockOn(key), ClockOn(key))
    <3> HIDE DEF pos
    <3> QED BY <2>3 DEF Meets
  <2>5. RangeMet(key)'
    BY <1>8, <2>1, <2>2, <2>4 DEF RangeMet, Meets
  <2> QED BY <1>1, <1>5, <1>9, <2>1, <2>5, Settles, KeyKinds
<1>11. CASE ~(ClockOn(key) > pos.mileage)
  <2>1. positions'[key] = positions[key]
    BY <1>9, <1>11 DEF HarvestPosLiq
  <2>2. \A k \in RangeKeys : positions'[k] = positions[k]
    BY <1>9, <2>1
  <2>3. owed' = owed /\ skewed' = skewed
    BY <1>6, <1>11 DEF ledgerVars
  <2>4. {} \in SUBSET (RangeKeys \cup KoKeys) /\ \A k : k \notin {}
    OBVIOUS
  <2> QED BY <1>5, <2>2, <2>3, <2>4, Settles
<1> QED BY <1>10, <1>11

\* The marking of a pivot does not touch the odometers.
LEMMA MarkedClock ==
    ASSUME NEW lvls \in Books, NEW key \in BOOLEAN \X Ticks, NEW cur, NEW fee,
           NEW l \in Ticks, NEW u \in Ticks
    PROVE  ClockFeeOdometer(MarkPivot(lvls, key), cur, l, u, fee)
             = ClockFeeOdometer(lvls, cur, l, u, fee)
<1> DEFINE marked == MarkPivot(lvls, key)
<1>1. marked[l].odo = lvls[l].odo /\ marked[u].odo = lvls[u].odo
  BY MarkPoint
<1> HIDE DEF marked
<1>2. ClockFeeOdometer(marked, cur, l, u, fee) = ClockFeeOdometer(lvls, cur, l, u, fee)
  BY <1>1 DEF ClockFeeOdometer, PivotFeeBelow
<1> QED BY <1>2 DEF marked

\* Lots that join a tranche blend in at the current clock, and it rests.
LEMMA MintKnockoutLedger ==
    ASSUME OrderStep, LedgerInv, NEW o \in Owners, NEW k \in KoLocs, NEW lots \in LotSizes,
           NEW bits \in KoBits, MintKnockout(o, k, lots, bits), UNCHANGED ledgerVars
    PROVE  LedgerInv'
<1> DEFINE l == k.lower
           u == k.upper
           key == PivotKey(k)
           pivot == InjectPivot(pivots[key], k, lots, now)
           clock == ClockAfterAdd(l, u, lots)
           added == AddBookLiq(levels, tick, l, u, lots, concGrowth)
<1>0. PICK mine : mine = <<o, k, pivot.time>>
  OBVIOUS
<1> DEFINE pos == koPos[mine]
<1>1. /\ l \in Ticks /\ u \in Ticks /\ l < u /\ lots \in Nat /\ lots % 2 = 0
      /\ key \in PivotKeys /\ key \in BOOLEAN \X Ticks
  BY LocFacts, PivotEnds DEF PivotKeys
<1>2. /\ TypeOK /\ levels \in Books /\ tick \in Int /\ concGrowth \in FeeWords
      /\ pivots \in [PivotKeys -> Pivots] /\ pivots[key] \in Pivots
      /\ now \in Times /\ now # 0 /\ koPos \in [KoKeys -> KoPositions]
  BY <1>1, TickAssumption
     DEF OrderStep, PoolInv, BookInv, WordInv, TypeOK, Books, PriceTicks, Times
<1>3. /\ AddBookFits(levels, l, u, lots)
      /\ pivots' = [pivots EXCEPT ![key] = pivot]
      /\ levels' = added \/ levels' = MarkPivot(added, key)
      /\ koPos' = [koPos EXCEPT ![mine] = InsertPosition(pos, lots, clock, now)]
      /\ UNCHANGED <<tick, concGrowth, positions>>
  BY <1>0 DEF MintKnockout
<1>4. /\ StakesTypes /\ StakesTypes' /\ owed' = owed /\ skewed' = skewed
      /\ owed \in [RangeKeys \cup KoKeys -> Int]
  BY StakeTypes, StakeTypesNext
     DEF OrderStep, PoolInv, StakesTypes, ledgerVars, LedgerInv, LedgerTyped
<1>5. pivot.time # 0 /\ pivot.time \in Times
  <2>1. CASE pivots[key].lots = 0
    <3>1. pivot = [lots |-> lots, time |-> now, width |-> TickRange(k)]
      BY <2>1 DEF InjectPivot
    <3> HIDE DEF pivot
    <3> QED BY <1>2, <3>1
  <2>2. CASE pivots[key].lots # 0
    <3>1. pivot = [pivots[key] EXCEPT !.lots = @ + lots]
      BY <2>2 DEF InjectPivot
    <3>2. pivots[key].time # 0
      BY <1>1, <2>2 DEF OrderStep, PoolInv, BookInv, WordInv, PivotShape
    <3> HIDE DEF pivot, key
    <3> QED BY <1>2, <3>1, <3>2 DEF Pivots
  <2> QED BY <2>1, <2>2
<1>6. mine \in KoKeys /\ mine[2] = k /\ mine[3] = pivot.time
  BY <1>0, <1>5 DEF KoKeys
<1>7. ClockOn(mine)' = clock
  <2>1. added \in Books
    <3> HIDE DEF l, u
    <3> QED BY <1>1, <1>2, <1>3, AddBookPoint
  <2>2. ClockOn(mine)' = ClockFeeOdometer(levels', tick, l, u, concGrowth)
    BY <1>3, <1>6 DEF ClockOn, Clock, ClockFeeOdometer, PivotFeeBelow
  <2>3. clock = ClockFeeOdometer(added, tick, l, u, concGrowth)
    BY DEF ClockAfterAdd
  <2> HIDE DEF added, clock, key, l, u
  <2> QED BY <1>1, <1>3, <2>1, <2>2, <2>3, MarkedClock
<1> HIDE DEF pivot, key, l, u
<1>8. /\ pivots'[key].time = pivot.time
      /\ koPos'[mine] = InsertPosition(pos, lots, clock, now)
      /\ \A j \in KoKeys \ {mine} : koPos'[j] = koPos[j]
  BY <1>1, <1>2, <1>3, <1>6
<1>9. /\ koPos'[mine].lots = pos.lots + lots
      /\ koPos'[mine].mileage = BlendMileage(clock, lots, pos.mileage, pos.lots)
  BY <1>8 DEF InsertPosition
<1>10. IsLive(mine)'
  BY <1>5, <1>6, <1>8 DEF IsLive, key
<1>11. ASSUME ~skewed PROVE KnockoutMet(mine)'
  <2>1. /\ clock \in Nat /\ pos.lots \in Nat /\ pos.mileage \in Nat /\ owed[mine] \in Int
        /\ ClockOn(mine) \in Nat
    BY <1>4, <1>6, <1>7 DEF StakesTypes
  <2>2. KnockoutMet(mine)
    BY <1>6, <1>11 DEF LedgerInv, AllMet
  <2>3. Meets(owed[mine], pos.lots, clock, pos.mileage)
    <3>1. CASE pos.lots = 0
      <4>1. owed[mine] >= 0
        BY <2>2 DEF KnockoutMet
      <4> HIDE DEF pos, clock
      <4>2. Meets(owed[mine], 0, clock, pos.mileage)
        BY <2>1, <4>1, MeetsNothing
      <4> QED BY <3>1, <4>2
    <3>2. CASE pos.lots # 0
      <4>1. pos.lots > 0 /\ koPos'[mine].lots > 0 /\ mine \notin RangeKeys
        BY <1>1, <1>6, <1>9, <2>1, <3>2, KeyKinds
      <4>2. IsLive(mine)
        BY <1>6, <1>10, <4>1, StatusStays DEF OrderStep
      <4>3. ClockOn(mine)' = ClockOn(mine)
        BY <1>6, <1>10, <4>1, <4>2, ClockStands
      <4> QED BY <1>7, <2>2, <4>2, <4>3 DEF KnockoutMet, LiveMet
    <3> QED BY <3>1, <3>2
  <2> HIDE DEF pos, clock
  <2>4. Meets(owed[mine], pos.lots + lots, clock, BlendMileage(clock, lots, pos.mileage, pos.lots))
    BY <1>1, <2>1, <2>3, MeetsMint
  <2>5. owed'[mine] >= 0
    BY <1>4, <2>2 DEF KnockoutMet
  <2>6. LiveMet(mine)'
    BY <1>4, <1>7, <1>9, <2>4 DEF LiveMet, Meets
  <2>7. DeadMet(mine)'
    BY <1>10 DEF DeadMet
  <2> QED BY <2>5, <2>6, <2>7 DEF KnockoutMet
<1>12. mine \notin RangeKeys
  BY <1>6, KeyKinds
<1> QED BY <1>3, <1>4, <1>6, <1>8, <1>11, <1>12, Settles

\* What a burn pays is taken off what is owed to the tranche that rests.
LEMMA BurnKnockoutLedger ==
    ASSUME OrderStep, LedgerInv, NEW o \in Owners, NEW k \in KoLocs, NEW lots \in LotSizes,
           BurnKnockout(o, k, lots),
           LET key == <<o, k, pivots[PivotKey(k)].time>> IN Pay(key, lots * KnockoutRate(key))
    PROVE  LedgerInv'
<1>0. PICK mine : mine = <<o, k, pivots[PivotKey(k)].time>>
  OBVIOUS
<1> DEFINE pos == koPos[mine]
           rate == DeltaRewardsRate(ClockOn(mine), pos.mileage)
           due == IF koPos'[mine].lots = 0 THEN 0 ELSE owed[mine] - (lots * rate)
<1>1. PivotKey(k) \in PivotKeys /\ lots \in Nat
  BY PivotEnds, LocFacts
<1>2. /\ koPos \in [KoKeys -> KoPositions] /\ pivots[PivotKey(k)].time \in Times
      /\ StakesTypes /\ StakesTypes' /\ owed \in [RangeKeys \cup KoKeys -> Int]
  BY <1>1, StakeTypes, StakeTypesNext
     DEF OrderStep, PoolInv, BookInv, WordInv, TypeOK, Pivots, StakesTypes, LedgerInv, LedgerTyped
<1>3. /\ mine \in KoKeys /\ mine[2] = k /\ mine[3] = pivots[PivotKey(k)].time
      /\ mine \notin RangeKeys
  BY <1>0, <1>2, KeyKinds DEF KoKeys
<1>4. /\ koPos' = [koPos EXCEPT ![mine] = RemovePosition(pos, lots)] /\ lots <= pos.lots
      /\ positions' = positions
  BY <1>0 DEF BurnKnockout
<1>5. Owe(mine, due)
  BY <1>0, <1>3 DEF Pay, LotsAfter, KnockoutRate, ClockOn
<1>6. /\ koPos'[mine] = IF lots = pos.lots THEN NoKnockoutPos ELSE [pos EXCEPT !.lots = @ - lots]
      /\ \A j \in KoKeys \ {mine} : koPos'[j] = koPos[j]
      /\ pos \in KoPositions
  BY <1>2, <1>3, <1>4 DEF RemovePosition
<1>7. /\ pos.lots \in Nat /\ pos.mileage \in Nat /\ ClockOn(mine) \in Nat /\ owed[mine] \in Int
      /\ koPos'[mine].lots \in Nat /\ koPos'[mine].mileage \in Nat /\ ClockOn(mine)' \in Nat
  BY <1>2, <1>3 DEF StakesTypes
<1>8. koPos'[mine].lots # 0 => /\ koPos'[mine].lots = pos.lots - lots
                               /\ koPos'[mine].mileage = pos.mileage
                               /\ pos.lots > 0 /\ koPos'[mine].lots > 0
  <2> HIDE DEF pos
  <2> QED BY <1>1, <1>4, <1>6, <1>7 DEF KoPositions, NoKnockoutPos
<1>9. rate \in Nat /\ lots * rate \in Nat
  <2>1. rate \in Nat
    <3> HIDE DEF pos
    <3> QED BY <1>7 DEF DeltaRewardsRate
  <2> HIDE DEF rate
  <2> QED BY <1>1, <2>1
<1>10. due \in Int
  <2> HIDE DEF rate
  <2> DEFINE paid == lots * rate
  <2>1. paid \in Int
    BY <1>9
  <2> HIDE DEF paid
  <2>2. owed[mine] - paid \in Int
    BY <1>7, <2>1
  <2> QED BY <2>2 DEF paid
<1>11. /\ skewed' = skewed /\ owed' \in [RangeKeys \cup KoKeys -> Int]
       /\ owed'[mine] = due
       /\ \A j \in (RangeKeys \cup KoKeys) \ {mine} : owed'[j] = owed[j]
  BY <1>3, <1>5, <1>10, OweOne
<1>12. ASSUME ~skewed PROVE KnockoutMet(mine)'
  <2>1. CASE koPos'[mine].lots = 0
    <3>1. owed'[mine] \in Nat
      BY <1>11, <2>1
    <3> QED BY <1>2, <1>3, <2>1, <3>1, KnockoutEmptyNext
  <2>2. CASE koPos'[mine].lots # 0
    <3>1. IsLive(mine)
      <4>1. mine[3] # 0
        BY <1>3, <1>8, <2>2 DEF OrderStep, PoolInv, StakeInv, TranchesBacked, NoneAtZero
      <4> QED BY <1>3, <4>1 DEF IsLive
    <3>2. IsLive(mine)'
      BY <1>3, <1>8, <2>2, <3>1, StatusStays DEF OrderStep
    <3>3. ClockOn(mine)' = ClockOn(mine)
      BY <1>3, <1>8, <2>2, <3>1, <3>2, ClockStands
    <3>4. Meets(owed[mine], pos.lots, ClockOn(mine), pos.mileage)
      BY <1>3, <1>12, <3>1 DEF LedgerInv, AllMet, KnockoutMet, LiveMet
    <3> HIDE DEF pos
    <3>5. Meets(owed[mine] - (lots * rate), pos.lots - lots, ClockOn(mine), pos.mileage)
      <4>1. /\ owed[mine] \in Int /\ pos.lots \in Nat /\ ClockOn(mine) \in Int
            /\ pos.mileage \in Int /\ lots \in Nat /\ lots <= pos.lots
        BY <1>1, <1>4, <1>7
      <4> HIDE DEF rate
      <4>2. Meets(owed[mine] - (lots * DeltaRewardsRate(ClockOn(mine), pos.mileage)),
                  pos.lots - lots, ClockOn(mine), pos.mileage)
        BY <3>4, <4>1, MeetsPayment
      <4> QED BY <4>2 DEF rate
    <3>6. /\ koPos'[mine].lots = pos.lots - lots /\ koPos'[mine].mileage = pos.mileage
          /\ owed'[mine] = owed[mine] - (lots * rate)
      BY <1>8, <1>11, <2>2
    <3>7. owed'[mine] >= 0 /\ LiveMet(mine)'
      BY <3>3, <3>5, <3>6 DEF LiveMet, Meets
    <3> QED BY <3>2, <3>7 DEF KnockoutMet, DeadMet
  <2> QED BY <2>1, <2>2
<1> QED BY <1>3, <1>4, <1>6, <1>11, <1>12, Settles

\* The times and mileages a history proves are words of their types.
LEMMA ProvenTyped ==
    ASSUME TypeOK, NEW key \in PivotKeys, NEW proven \in ProvableHistory(merkles[key])
    PROVE  proven.time \in Times /\ proven.mileage \in FeeWords
<1>1. /\ merkles[key].root \in Seq([time : Times, mileage : FeeWords])
      /\ merkles[key].time \in Times /\ merkles[key].mileage \in FeeWords
  BY DEF TypeOK, IsMerkle
<1>2. ToSet(merkles[key].root) \subseteq [time : Times, mileage : FeeWords]
  <2> DEFINE Links == [time : Times, mileage : FeeWords]
             root == merkles[key].root
  <2> HIDE DEF Links, root
  <2>1. root \in Seq(Links)
    BY <1>1 DEF Links, root
  <2>2. ToSet(root) \subseteq Links
    BY <2>1, ToSetIn
  <2> QED BY <2>2 DEF Links, root
<1> QED BY <1>1, <1>2 DEF ProvableHistory

\* A position that is closed is owed nothing any more.
LEMMA ClosedLedger ==
    ASSUME OrderStep, LedgerInv, NEW mine \in KoKeys,
           koPos' = [koPos EXCEPT ![mine] = NoKnockoutPos], positions' = positions, Owe(mine, 0)
    PROVE  LedgerInv'
<1>1. koPos \in [KoKeys -> KoPositions]
  BY DEF OrderStep, PoolInv, BookInv, WordInv, TypeOK
<1>2. /\ koPos'[mine].lots = 0 /\ \A j \in KoKeys \ {mine} : koPos'[j] = koPos[j]
      /\ mine \notin RangeKeys
  BY <1>1, KeyKinds DEF NoKnockoutPos
<1>3. /\ skewed' = skewed /\ owed' \in [RangeKeys \cup KoKeys -> Int]
      /\ owed'[mine] = 0
      /\ \A j \in (RangeKeys \cup KoKeys) \ {mine} : owed'[j] = owed[j]
  <2>1. 0 \in Int
    OBVIOUS
  <2> QED BY <2>1, OweOne
<1>4. StakesTypes'
  BY StakeTypesNext DEF OrderStep, PoolInv
<1>5. KnockoutMet(mine)'
  BY <1>2, <1>3, <1>4, KnockoutEmptyNext
<1> QED BY <1>2, <1>3, <1>5, Settles

LEMMA ClaimKnockoutLedger ==
    ASSUME OrderStep, LedgerInv, NEW o \in Owners, NEW k \in KoLocs,
           NEW proven \in ProvableHistory(merkles[PivotKey(k)]), ClaimKnockout(o, k, proven),
           Owe(<<o, k, proven.time>>, 0)
    PROVE  LedgerInv'
<1>1. TypeOK /\ PivotKey(k) \in PivotKeys
  BY PivotEnds DEF OrderStep, PoolInv, BookInv, WordInv
<1>2. proven.time \in Times
  BY <1>1, ProvenTyped
<1>3. <<o, k, proven.time>> \in KoKeys
  BY <1>2 DEF KoKeys
<1>4. /\ koPos' = [koPos EXCEPT ![<<o, k, proven.time>>] = NoKnockoutPos]
      /\ positions' = positions
  BY DEF ClaimKnockout
<1> QED BY <1>3, <1>4, ClosedLedger

LEMMA RecoverKnockoutLedger ==
    ASSUME OrderStep, LedgerInv, NEW o \in Owners, NEW k \in KoLocs, NEW pivotTime \in Times,
           RecoverKnockout(o, k, pivotTime), Owe(<<o, k, pivotTime>>, 0)
    PROVE  LedgerInv'
<1>1. <<o, k, pivotTime>> \in KoKeys
  BY DEF KoKeys
<1>2. /\ koPos' = [koPos EXCEPT ![<<o, k, pivotTime>>] = NoKnockoutPos]
      /\ positions' = positions
  BY DEF RecoverKnockout
<1> QED BY <1>1, <1>2, ClosedLedger

LEMMA IdleLedger ==
    ASSUME OrderStep, LedgerInv, UNCHANGED <<positions, koPos, owed, skewed>>
    PROVE  LedgerInv'
<1>1. {} \in SUBSET (RangeKeys \cup KoKeys) /\ \A k : k \notin {}
  OBVIOUS
<1>2. owed \in [RangeKeys \cup KoKeys -> Int]
  BY DEF LedgerInv, LedgerTyped
<1> QED BY <1>1, <1>2, Settles

-----------------------------------------------------------------------------
(***************************************************************************)
(* The legs of a swap.  What they book is what the ledger accrues.         *)
(***************************************************************************)
SweepStep ==
    /\ PoolInv /\ PoolInv'
    /\ [Next]_vars /\ ~SkipsFlip
    /\ UNCHANGED <<positions, koPos>>
    /\ LedgerTyped /\ AllMet
    /\ owed' = [k \in RangeKeys \cup KoKeys |-> owed[k] + Earned(k)]

\* What a stake earns: by the growth, if it is on the book.
LEMMA EarnedIs ==
    ASSUME PoolInv, PoolInv', [Next]_vars, NEW k \in RangeKeys \cup KoKeys
    PROVE  LET growth == GrowthInRange(k[2].lower, k[2].upper) IN
           /\ growth \in Nat /\ Earned(k) \in Nat
           /\ k \in RangeKeys => Earned(k) = positions[k].lots * growth
           /\ k \in KoKeys => Earned(k) = IF IsLive(k) THEN koPos[k].lots * growth ELSE 0
<1> DEFINE growth == GrowthInRange(k[2].lower, k[2].upper)
<1>1. growth \in Nat
  BY GrowthIsNat DEF PoolInv, BookInv, WordInv
<1>2. StakesTypes
  BY StakeTypes DEF PoolInv, StakesTypes
<1>3. Earned(k) = EarningLots(k) * growth
  BY DEF Earned
<1> HIDE DEF growth
<1>4. 0 * growth = 0
  BY <1>1
<1>5. CASE k \in RangeKeys
  <2>1. k \notin KoKeys /\ EarningLots(k) = positions[k].lots /\ positions[k].lots \in Nat
    BY <1>2, <1>5, KeyKinds DEF EarningLots, StakesTypes
  <2>2. positions[k].lots * growth \in Nat
    BY <1>1, <2>1
  <2> QED BY <1>1, <1>3, <1>5, <2>1, <2>2 DEF growth
<1>6. CASE k \in KoKeys
  <2>1. k \notin RangeKeys /\ koPos[k].lots \in Nat
    BY <1>2, <1>6, KeyKinds DEF StakesTypes
  <2>2. k[3] = 0 => koPos[k].lots = 0
    BY <1>6 DEF PoolInv, StakeInv, TranchesBacked, NoneAtZero
  <2>3. EarningLots(k) = IF IsLive(k) THEN koPos[k].lots ELSE 0
    BY <2>1, <2>2 DEF EarningLots, IsLive
  <2>4. koPos[k].lots * growth \in Nat
    BY <1>1, <2>1
  <2> QED BY <1>1, <1>3, <1>4, <1>6, <2>1, <2>3, <2>4 DEF growth
<1> QED BY <1>5, <1>6

LEMMA RangeEarns ==
    ASSUME SweepStep, NEW k \in RangeKeys
    PROVE  RangeMet(k)'
<1> DEFINE growth == GrowthInRange(k[2].lower, k[2].upper)
<1>1. /\ growth \in Nat /\ Earned(k) \in Nat /\ Earned(k) = positions[k].lots * growth
  BY EarnedIs DEF SweepStep
<1>2. StakesTypes /\ StakesTypes'
  BY StakeTypes, StakeTypesNext DEF SweepStep, PoolInv, StakesTypes
<1>3. /\ owed[k] \in Int /\ owed'[k] = owed[k] + Earned(k) /\ positions'[k] = positions[k]
      /\ Meets(owed[k], positions[k].lots, ClockOn(k), positions[k].mileage)
  BY DEF SweepStep, LedgerTyped, AllMet, RangeMet
<1>4. /\ positions[k].lots \in Nat /\ positions[k].mileage \in Nat
      /\ ClockOn(k) \in Nat /\ ClockOn(k)' \in Nat
  BY <1>2 DEF StakesTypes
<1>5. CASE positions[k].lots = 0
  <2>1. owed[k] >= 0
    BY <1>3 DEF Meets
  <2>2. owed'[k] \in Int /\ owed'[k] >= 0
    BY <1>1, <1>3, <2>1
  <2>3. Meets(owed'[k], 0, ClockOn(k)', positions[k].mileage)
    BY <1>4, <2>2, MeetsNothing
  <2> QED BY <1>3, <1>5, <2>3 DEF RangeMet, Meets
<1>6. CASE positions[k].lots # 0
  <2>1. ClockOn(k)' <= ClockOn(k) + growth
    <3>1. positions[k].lots > 0 /\ positions'[k].lots > 0 /\ k \notin KoKeys
      BY <1>3, <1>4, <1>6, KeyKinds
    <3> QED BY <3>1, StakeClock DEF SweepStep
  <2> HIDE DEF growth
  <2>2. Meets(owed[k] + (positions[k].lots * growth), positions[k].lots, ClockOn(k)', positions[k].mileage)
    <3>1. /\ owed[k] \in Int /\ positions[k].lots \in Nat /\ positions[k].mileage \in Int
          /\ ClockOn(k) \in Int /\ ClockOn(k)' \in Int /\ growth \in Nat
          /\ ClockOn(k)' <= ClockOn(k) + growth
          /\ Meets(owed[k], positions[k].lots, ClockOn(k), positions[k].mileage)
      BY <1>1, <1>3, <1>4, <2>1
    <3> QED BY <3>1, MeetsGrowth
  <2> QED BY <1>1, <1>3, <2>2 DEF RangeMet, Meets
<1> QED BY <1>5, <1>6

\* A tranche that is still there after the leg, or was gone before it.
LEMMA KnockoutEarns ==
    ASSUME SweepStep, NEW k \in KoKeys, IsLive(k)' <=> IsLive(k),
           IsLive(k) \/ \A proven \in ProvableHistory(merkles'[PivotKey(k[2])]) :
                            proven.time = k[3] => proven \in ProvableHistory(merkles[PivotKey(k[2])])
    PROVE  KnockoutMet(k)'
<1> DEFINE growth == GrowthInRange(k[2].lower, k[2].upper)
<1>1. /\ growth \in Nat /\ Earned(k) \in Nat
      /\ Earned(k) = IF IsLive(k) THEN koPos[k].lots * growth ELSE 0
  BY EarnedIs DEF SweepStep
<1>2. StakesTypes /\ StakesTypes'
  BY StakeTypes, StakeTypesNext DEF SweepStep, PoolInv, StakesTypes
<1>3. /\ owed[k] \in Int /\ owed'[k] = owed[k] + Earned(k) /\ koPos'[k] = koPos[k]
      /\ owed[k] >= 0 /\ LiveMet(k) /\ DeadMet(k)
  BY DEF SweepStep, LedgerTyped, AllMet, KnockoutMet
<1>4. /\ koPos[k].lots \in Nat /\ koPos[k].mileage \in Nat
      /\ ClockOn(k) \in Nat /\ ClockOn(k)' \in Nat
      /\ owed'[k] \in Nat
  BY <1>1, <1>2, <1>3 DEF StakesTypes
<1>5. CASE koPos[k].lots = 0
  <2>1. koPos'[k].lots = 0
    BY <1>3, <1>5
  <2> QED BY <1>2, <1>4, <2>1, KnockoutEmptyNext
<1>6. CASE koPos[k].lots # 0 /\ IsLive(k)
  <2>1. ClockOn(k)' <= ClockOn(k) + growth
    <3>1. koPos[k].lots > 0 /\ koPos'[k].lots > 0 /\ k \notin RangeKeys
      BY <1>3, <1>4, <1>6, KeyKinds
    <3> QED BY <1>6, <3>1, StakeClock DEF SweepStep
  <2>2. Meets(owed[k], koPos[k].lots, ClockOn(k), koPos[k].mileage)
    BY <1>3, <1>6 DEF LiveMet
  <2> HIDE DEF growth
  <2>3. Meets(owed[k] + (koPos[k].lots * growth), koPos[k].lots, ClockOn(k)', koPos[k].mileage)
    <3>1. /\ owed[k] \in Int /\ koPos[k].lots \in Nat /\ koPos[k].mileage \in Int
          /\ ClockOn(k) \in Int /\ ClockOn(k)' \in Int /\ growth \in Nat
          /\ ClockOn(k)' <= ClockOn(k) + growth
          /\ Meets(owed[k], koPos[k].lots, ClockOn(k), koPos[k].mileage)
      BY <1>1, <1>3, <1>4, <2>1, <2>2
    <3> QED BY <3>1, MeetsGrowth
  <2>4. LiveMet(k)'
    BY <1>1, <1>3, <1>6, <2>3 DEF LiveMet, Meets
  <2> QED BY <1>4, <1>6, <2>4 DEF KnockoutMet, DeadMet
<1>7. CASE koPos[k].lots # 0 /\ ~IsLive(k)
  <2>1. owed'[k] = owed[k]
    BY <1>1, <1>3, <1>7
  <2>2. \A proven \in ProvableHistory(merkles'[PivotKey(k[2])]) :
            proven.time = k[3] => Meets(owed'[k], koPos'[k].lots, proven.mileage, koPos'[k].mileage)
    BY <1>3, <1>4, <1>7, <2>1 DEF DeadMet
  <2>3. DeadMet(k)'
    BY <2>2 DEF DeadMet, Meets
  <2> QED BY <1>4, <1>7, <2>3 DEF KnockoutMet, LiveMet
<1> QED BY <1>5, <1>6, <1>7

\* The clock read off the crossed book, before the tranche is cut from it.
LEMMA CrossedClock ==
    ASSUME BookInv, BookInv', [Next]_vars, NEW lvls, NEW l \in Ticks, NEW u \in Ticks, l < u,
           PivotFeeBelow(lvls, l, tick', concGrowth') = FeesBelow(l) + GrowthBelow(l),
           PivotFeeBelow(lvls, u, tick', concGrowth') = FeesBelow(u) + GrowthBelow(u),
           PivotFeeBelow(lvls, l, tick', concGrowth') \in FeeWords,
           PivotFeeBelow(lvls, u, tick', concGrowth') \in FeeWords
    PROVE  /\ ClockFeeOdometer(lvls, tick', l, u, concGrowth') \in FeeWords
           /\ ClockFeeOdometer(lvls, tick', l, u, concGrowth') <= Clock(l, u) + GrowthInRange(l, u)
<1> DEFINE lo == FeesBelow(l)
           hi == FeesBelow(u)
           gl == GrowthBelow(l)
           gu == GrowthBelow(u)
           new == ClockFeeOdometer(lvls, tick', l, u, concGrowth')
           growth == concGrowth' - concGrowth
<1>1. /\ tick \in Int /\ l \in Int /\ u \in Int /\ concGrowth \in FeeWords
      /\ concGrowth' \in FeeWords
  BY TickAssumption DEF BookInv, WordInv, TypeOK, PriceTicks, Ticks
<1>2. concGrowth <= concGrowth'
  BY NextGrowth DEF BookInv, WordInv
<1>3. lo \in FeeWords /\ hi \in FeeWords
  BY BelowWord DEF FeesBelow, BookInv, WordInv, TypeOK, OdometerBounded, Books
<1>4. growth \in FeeWords /\ growth \in Nat /\ 0 \in FeeWords
  <2>1. ASSUME NEW x \in FeeWords, NEW y \in FeeWords, x <= y
        PROVE  y - x \in FeeWords /\ y - x \in Nat /\ 0 \in FeeWords
    BY <2>1, FeeWordAssumption DEF FeeWords
  <2> QED BY <1>1, <1>2, <2>1
<1>5. /\ gl = IF l <= tick THEN 0 ELSE growth
      /\ gu = IF u <= tick THEN 0 ELSE growth
      /\ GrowthInRange(l, u) = IF l <= tick /\ tick < u THEN growth ELSE 0
  BY DEF GrowthBelow, GrowthInRange, InRange
<1> HIDE DEF growth
<1>6. /\ gl \in FeeWords /\ gu \in FeeWords /\ gl <= gu
      /\ gu - gl = GrowthInRange(l, u) /\ GrowthInRange(l, u) \in FeeWords
  <2> HIDE DEF gl, gu
  <2> QED BY <1>1, <1>4, <1>5
<1>7. new = ((hi + gu) - (lo + gl)) % FeeWord
  BY DEF ClockFeeOdometer
<1>8. Clock(l, u) = (hi - lo) % FeeWord
  BY DEF Clock, ClockFeeOdometer, FeesBelow
<1>9. lo + gl \in FeeWords /\ hi + gu \in FeeWords
  OBVIOUS
<1> HIDE DEF lo, hi, gl, gu, new
<1>10. (new - Clock(l, u)) % FeeWord = GrowthInRange(l, u)
  BY <1>3, <1>6, <1>7, <1>8, <1>9, ClockMoves
<1>11. Clock(l, u) \in FeeWords /\ new \in FeeWords
  <2>1. lo \in Int /\ hi \in Int /\ lo + gl \in Int /\ hi + gu \in Int
    BY <1>3, <1>9 DEF FeeWords
  <2> QED BY <1>7, <1>8, <2>1, WordDifference
<1> QED BY <1>6, <1>10, <1>11, StepAhead DEF new

\* What a knockout files for its tranche is within what the tranche has earned.
LEMMA KnockoutFiles ==
    ASSUME PoolInv, PoolInv', ~SkipsFlip, NEW b \in Ticks, NEW g \in FeeSteps, SweepKnockout(b, g),
           NEW k \in KoKeys, IsLive(k), koPos[k].lots > 0,
           PivotKey(k[2]) = <<sweep = "sell", b>>
    PROVE  /\ merkles'[PivotKey(k[2])].mileage \in Int
           /\ merkles'[PivotKey(k[2])].mileage
                <= ClockOn(k) + GrowthInRange(k[2].lower, k[2].upper)
<1> DEFINE key == <<sweep = "sell", b>>
           l == k[2].lower
           u == k[2].upper
           flipped == CrossLevel(levels, b, concGrowth + g)
           crossed == UnmarkPivot(flipped, key)
           feeRange == ClockFeeOdometer(crossed, tick', l, u, concGrowth')
<1>1. BookInv /\ BookInv' /\ TypeOK /\ StakesRest
  BY StakesRestOn DEF PoolInv, BookInv, WordInv
<1>2. l \in Ticks /\ u \in Ticks /\ l < u /\ key \in PivotKeys /\ key \in BOOLEAN \X Ticks
  BY KeyRange DEF PivotKeys
<1>3. IsActive(levels[l]) /\ IsActive(levels[u])
  <2>1. LiveLots[k] > 0
    BY DEF LiveLots
  <2> QED BY <1>1, <2>1 DEF StakesRest, RestsOn
<1>4. PivotLower(key, pivots[key].width) = l /\ PivotUpper(key, pivots[key].width) = u
  <2>1. k \in AtPivot(key) /\ LiveLots[k] # 0
    BY DEF AtPivot, LiveLots
  <2>2. Ends(k) = <<PivotLower(key, pivots[key].width), PivotUpper(key, pivots[key].width)>>
    BY <1>1, <1>2, <2>1, TrancheRange DEF PoolInv, StakeInv, TranchesBacked
  <2> HIDE DEF key
  <2> QED BY <2>2 DEF Ends
<1>5. /\ RollOver(b, g) /\ sweep # "idle" /\ sweep' = sweep
      /\ tick' = FarSide(b) /\ concGrowth' = concGrowth + g
  BY DEF SweepKnockout, RollOver
<1>6. merkles'[key].mileage = feeRange
  <2>1. merkles' = [merkles EXCEPT ![key] =
                       CommitKnockout(merkles[key], pivots[key],
                           ClockFeeOdometer(crossed, FarSide(b),
                               PivotLower(key, pivots[key].width),
                               PivotUpper(key, pivots[key].width), concGrowth + g))]
    BY DEF SweepKnockout
  <2>2. feeRange = ClockFeeOdometer(crossed, FarSide(b),
                       PivotLower(key, pivots[key].width),
                       PivotUpper(key, pivots[key].width), concGrowth + g)
    BY <1>4, <1>5
  <2> HIDE DEF key, crossed, feeRange
  <2>3. merkles' = [merkles EXCEPT ![key] = CommitKnockout(merkles[key], pivots[key], feeRange)]
    BY <2>1, <2>2
  <2>4. merkles'[key] = CommitKnockout(merkles[key], pivots[key], feeRange)
    BY <1>1, <1>2, <2>3 DEF TypeOK
  <2> QED BY <2>4 DEF CommitKnockout
<1>7. /\ levels \in Books /\ concGrowth + g \in FeeWords
      /\ levels[b].odo \in Nat /\ levels[b].odo <= concGrowth + g
      /\ \A t \in Ticks : levels[t].odo \in Nat /\ levels[t].odo <= concGrowth + g
  <2>1. /\ concGrowth \in Nat /\ g \in Nat /\ levels \in Books /\ concGrowth + g \in FeeWords
        /\ concGrowth <= concGrowth + g
    BY <1>1, <1>5, SweepTypes DEF RollOver
  <2>2. \A t \in Ticks : levels[t].odo \in Nat /\ levels[t].odo <= concGrowth
    BY <1>1, FeeWordAssumption DEF BookInv, WordInv, TypeOK, OdometerBounded, Books, Levels, FeeWords
  <2> QED BY <2>1, <2>2
<1>8. /\ flipped \in Books
      /\ \A t \in Ticks : flipped[t].odo = levels[t].odo \/ flipped[t].odo <= concGrowth + g
  BY <1>7, CrossPoint
<1>9. /\ crossed \in Books
      /\ \A t \in Ticks : crossed[t].odo = flipped[t].odo
  <2> HIDE DEF key, flipped
  <2> QED BY <1>2, <1>8, UnmarkPoint
<1>10. \A t \in Ticks : crossed[t].odo <= concGrowth'
  <2> HIDE DEF crossed, flipped
  <2> QED BY <1>5, <1>7, <1>8, <1>9
<1>11. ASSUME NEW t \in Ticks, IsActive(levels[t])
       PROVE  /\ PivotFeeBelow(crossed, t, tick', concGrowth') = FeesBelow(t) + GrowthBelow(t)
              /\ PivotFeeBelow(crossed, t, tick', concGrowth') \in FeeWords
  <2>1. crossed[t].odo = CrossLevel(levels, b, concGrowth + g)[t].odo
    BY <1>9
  <2> HIDE DEF crossed
  <2>2. concGrowth' \in FeeWords
    BY <1>5, <1>7
  <2> QED BY <1>1, <1>5, <1>9, <1>10, <1>11, <2>1, <2>2, CrossingTracks, BelowWord
<1>12. [Next]_vars
  BY DEF Next, SweepNext
<1> HIDE DEF key, crossed, l, u
<1>13. feeRange \in FeeWords /\ feeRange <= Clock(l, u) + GrowthInRange(l, u)
  BY <1>1, <1>2, <1>3, <1>11, <1>12, CrossedClock
<1>14. FeeWords \subseteq Int
  BY DEF FeeWords
<1> HIDE DEF feeRange
<1> QED BY <1>6, <1>13, <1>14 DEF ClockOn, key, l, u

\* The tranche that is knocked out: what is filed for it is covered.
LEMMA KnockedOutMet ==
    ASSUME SweepStep, NEW b \in Ticks, NEW g \in FeeSteps, SweepKnockout(b, g),
           NEW k \in KoKeys, IsLive(k), PivotKey(k[2]) = <<sweep = "sell", b>>
    PROVE  KnockoutMet(k)'
<1>0. PICK key : key = <<sweep = "sell", b>>
  OBVIOUS
<1> DEFINE growth == GrowthInRange(k[2].lower, k[2].upper)
           filed == merkles'[key].mileage
           lots == koPos[k].lots
           old == koPos[k].mileage
<1>1. /\ key \in PivotKeys /\ pivots[key].time # 0
      /\ merkles'[key].time = pivots[key].time
      /\ merkles'[key].root
           = Append(merkles[key].root, [time |-> merkles[key].time, mileage |-> merkles[key].mileage])
      /\ pivots' = [pivots EXCEPT ![key] = NoPivot]
  BY <1>0, KnockoutCommits DEF SweepStep, PoolInv
<1>2. /\ TypeOK /\ StakesTypes /\ StakesTypes' /\ pivots[key].time = k[3]
      /\ PivotKey(k[2]) = key
  BY <1>0, StakeTypes, StakeTypesNext
     DEF SweepStep, PoolInv, BookInv, WordInv, StakesTypes, IsLive
<1>3. /\ growth \in Nat /\ Earned(k) \in Nat /\ Earned(k) = lots * growth
  BY EarnedIs DEF SweepStep
<1>4. /\ owed[k] \in Int /\ owed'[k] = owed[k] + Earned(k) /\ koPos'[k] = koPos[k]
      /\ owed[k] >= 0 /\ Meets(owed[k], lots, ClockOn(k), old)
  BY DEF SweepStep, LedgerTyped, AllMet, KnockoutMet, LiveMet
<1>5. /\ lots \in Nat /\ old \in Nat /\ ClockOn(k) \in Nat /\ owed'[k] \in Nat
  BY <1>2, <1>3, <1>4 DEF StakesTypes
<1>6. CASE lots = 0
  <2>1. koPos'[k].lots = 0
    BY <1>4, <1>6
  <2> QED BY <1>2, <1>5, <2>1, KnockoutEmptyNext
<1>7. CASE lots # 0
  <2>1. ~IsLive(k)'
    <3>1. pivots'[key].time = 0
      BY <1>1, <1>2 DEF TypeOK, NoPivot
    <3> QED BY <1>2, <3>1 DEF IsLive
  \* Only the link that was just filed proves the time of the tranche.
  <2>2. ASSUME NEW proven \in ProvableHistory(merkles'[key]), proven.time = k[3]
        PROVE  proven.mileage = filed
    <3> DEFINE link == [time |-> merkles[key].time, mileage |-> merkles[key].mileage]
    <3>1. link \in [time : Times, mileage : FeeWords]
      BY <1>1, <1>2 DEF TypeOK, IsMerkle
    <3>2. ToSet(merkles'[key].root) = ToSet(merkles[key].root) \cup {link}
      <4> DEFINE Links == [time : Times, mileage : FeeWords]
                 root == merkles[key].root
      <4>1. root \in Seq(Links) /\ link \in Links
        BY <1>1, <1>2, <3>1, TimesTyped
      <4>2. merkles'[key].root = Append(root, link)
        BY <1>1
      <4> HIDE DEF Links, root, link
      <4>3. ToSet(Append(root, link)) = ToSet(root) \cup {link}
        BY <4>1, ToSetAppend
      <4> QED BY <4>2, <4>3 DEF root
    <3>3. /\ merkles[key].time < pivots[key].time
          /\ \A x \in ToSet(merkles[key].root) : x.time < pivots[key].time
      BY <1>1 DEF SweepStep, PoolInv, TrancheInv, TrancheFresh
    <3>4. pivots[key].time \in Nat /\ \A x \in ToSet(merkles[key].root) : x.time \in Nat
      BY <1>1, <1>2, TimesTyped
    <3>5. link.time < pivots[key].time /\ merkles[key].time \in Nat
      BY <1>1, <1>2, <3>3, TimesTyped
    <3> HIDE DEF link
    <3>6. proven \notin ToSet(merkles'[key].root)
      <4>1. proven.time = pivots[key].time
        BY <1>2, <2>2
      <4>2. proven \notin ToSet(merkles[key].root)
        BY <3>3, <3>4, <4>1
      <4>3. proven # link
        BY <3>4, <3>5, <4>1 DEF link
      <4> QED BY <3>2, <4>2, <4>3
    <3>7. proven = [time |-> merkles'[key].time, mileage |-> filed]
      BY <2>2, <3>6 DEF ProvableHistory
    <3> QED BY <3>7
  <2>3. filed \in Int /\ filed <= ClockOn(k) + growth
    <3>1. lots > 0
      BY <1>5, <1>7
    <3> QED BY <1>2, <3>1, KnockoutFiles DEF SweepStep
  <2> HIDE DEF growth, filed, lots, old
  <2>4. Meets(owed[k] + (lots * growth), lots, filed, old)
    <3>1. /\ owed[k] \in Int /\ lots \in Nat /\ old \in Int /\ ClockOn(k) \in Int
          /\ filed \in Int /\ growth \in Nat /\ filed <= ClockOn(k) + growth
          /\ Meets(owed[k], lots, ClockOn(k), old)
      BY <1>3, <1>4, <1>5, <2>3
    <3> QED BY <3>1, MeetsGrowth
  <2>5. Meets(owed'[k], lots, filed, old)
    BY <1>3, <1>4, <2>4
  <2>6. ASSUME NEW proven \in ProvableHistory(merkles'[key]), proven.time = k[3]
        PROVE  Meets(owed'[k], koPos'[k].lots, proven.mileage, koPos'[k].mileage)
    <3>1. proven.mileage = filed
      BY <2>2, <2>6
    <3> QED BY <1>4, <2>5, <3>1 DEF lots, old
  <2>7. DeadMet(k)'
    BY <1>2, <2>6 DEF DeadMet, Meets
  <2> QED BY <1>5, <2>1, <2>7 DEF KnockoutMet, LiveMet
<1> QED BY <1>6, <1>7

LEMMA SweepKnockoutLedger ==
    ASSUME SweepStep, NEW b \in Ticks, NEW g \in FeeSteps, SweepKnockout(b, g)
    PROVE  AllMet'
<1>0. PICK key : key = <<sweep = "sell", b>>
  OBVIOUS
<1> DEFINE link == [time |-> merkles[key].time, mileage |-> merkles[key].mileage]
<1>1. /\ key \in PivotKeys /\ pivots[key].time # 0
      /\ merkles'[key].time = pivots[key].time
      /\ merkles'[key].root = Append(merkles[key].root, link)
      /\ \A other \in PivotKeys \ {key} : merkles'[other] = merkles[other]
      /\ pivots' = [pivots EXCEPT ![key] = NoPivot]
  BY <1>0, KnockoutCommits DEF SweepStep, PoolInv
<1>2. TypeOK
  BY DEF SweepStep, PoolInv, BookInv, WordInv
<1>3. pivots'[key].time = 0 /\ \A other \in PivotKeys \ {key} : pivots'[other] = pivots[other]
  BY <1>1, <1>2 DEF TypeOK, NoPivot
<1>4. ToSet(merkles'[key].root) = ToSet(merkles[key].root) \cup {link}
  <2> DEFINE Links == [time : Times, mileage : FeeWords]
             root == merkles[key].root
  <2>1. root \in Seq(Links) /\ link \in Links
    BY <1>1, <1>2, TimesTyped DEF TypeOK, IsMerkle
  <2>2. merkles'[key].root = Append(root, link)
    BY <1>1
  <2> HIDE DEF Links, root, link
  <2>3. ToSet(Append(root, link)) = ToSet(root) \cup {link}
    BY <2>1, ToSetAppend
  <2> QED BY <2>2, <2>3 DEF root
<1>5. ASSUME NEW k \in KoKeys PROVE KnockoutMet(k)'
  <2>1. PivotKey(k[2]) \in PivotKeys
    BY PivotEnds DEF KoKeys
  <2>2. CASE PivotKey(k[2]) # key
    <3>1. /\ merkles'[PivotKey(k[2])] = merkles[PivotKey(k[2])]
          /\ pivots'[PivotKey(k[2])] = pivots[PivotKey(k[2])]
      BY <1>1, <1>3, <2>1, <2>2
    <3> QED BY <3>1, KnockoutEarns DEF IsLive
  <2>3. CASE PivotKey(k[2]) = key /\ IsLive(k)
    BY <1>0, <2>3, KnockedOutMet
  <2>4. CASE PivotKey(k[2]) = key /\ ~IsLive(k)
    <3>1. ~IsLive(k)'
      BY <1>3, <2>4 DEF IsLive
    <3>2. CASE k[3] = pivots[key].time
      BY <1>1, <2>4, <3>2 DEF IsLive
    <3>3. CASE k[3] # pivots[key].time
      <4>1. ASSUME NEW proven \in ProvableHistory(merkles'[key]), proven.time = k[3]
            PROVE  proven \in ProvableHistory(merkles[key])
        <5>1. proven # [time |-> merkles'[key].time, mileage |-> merkles'[key].mileage]
          BY <1>1, <3>3, <4>1
        <5>2. proven \in ToSet(merkles'[key].root)
          BY <4>1, <5>1 DEF ProvableHistory
        <5> HIDE DEF link
        <5>3. proven \in ToSet(merkles[key].root) \/ proven = link
          BY <1>4, <5>2
        <5> QED BY <5>3 DEF ProvableHistory, link
      <4> QED BY <2>4, <3>1, <4>1, KnockoutEarns
    <3> QED BY <3>2, <3>3
  <2> QED BY <2>2, <2>3, <2>4
<1> QED BY <1>5, RangeEarns DEF AllMet

\* The other legs leave the tranches and their histories alone.
LEMMA SweepLegLedger ==
    ASSUME SweepStep, UNCHANGED <<pivots, merkles>>
    PROVE  AllMet'
<1>1. ASSUME NEW k \in KoKeys PROVE KnockoutMet(k)'
  BY KnockoutEarns DEF IsLive
<1> QED BY <1>1, RangeEarns DEF AllMet

LEMMA AccrueLedger ==
    ASSUME PoolInv, PoolInv', LedgerInv, SweepNext, Accrue
    PROVE  LedgerInv'
<1>1. /\ owed' = [k \in RangeKeys \cup KoKeys |-> owed[k] + Earned(k)]
      /\ skewed' = (skewed \/ SkipsFlip)
      /\ owed \in [RangeKeys \cup KoKeys -> Int] /\ skewed \in BOOLEAN
  BY DEF Accrue, LedgerInv, LedgerTyped
<1>2. [Next]_vars
  BY DEF Next
<1>3. LedgerTyped'
  <2>1. ASSUME NEW k \in RangeKeys \cup KoKeys PROVE owed[k] + Earned(k) \in Int
    <3>1. Earned(k) \in Nat /\ owed[k] \in Int
      BY <1>1, <1>2, EarnedIs
    <3> QED BY <3>1
  <2>2. skewed' \in BOOLEAN
    BY <1>1 DEF SkipsFlip, IsCrossing
  <2> QED BY <1>1, <2>1, <2>2 DEF LedgerTyped
<1>4. ASSUME ~skewed' PROVE AllMet'
  <2>1. ~skewed /\ ~SkipsFlip
    BY <1>1, <1>4
  <2>2. LedgerTyped /\ AllMet
    BY <2>1 DEF LedgerInv
  <2>3. UNCHANGED <<positions, koPos>>
    BY DEF SweepNext, SweepEnd, SweepCross, SweepKnockout, knockoutVars
  <2>4. SweepStep
    BY <1>1, <1>2, <2>1, <2>2, <2>3 DEF SweepStep
  <2>5. (\E b \in Ticks, g \in FeeSteps : SweepKnockout(b, g)) \/ UNCHANGED <<pivots, merkles>>
    BY DEF SweepNext, SweepEnd, SweepCross, knockoutVars
  <2> QED BY <2>4, <2>5, SweepKnockoutLedger, SweepLegLedger
<1> QED BY <1>3, <1>4 DEF LedgerInv

-----------------------------------------------------------------------------
\* The ledger rides along with the pool: it restricts none of its steps.
LEMMA LedgerStepsPool ==
    ASSUME [LedgerNext]_<<vars, ledgerVars>>
    PROVE  [Next]_vars
<1>1. ASSUME NEW o \in Owners, NEW r \in RangeLocs, LedgerRange(o, r)
      PROVE  RangeNext
  BY <1>1 DEF LedgerRange, RangeNext
<1>2. ASSUME NEW o \in Owners, NEW k \in KoLocs, LedgerKnockout(o, k)
      PROVE  KnockoutNext
  BY <1>2 DEF LedgerKnockout, KnockoutNext
<1> QED BY <1>1, <1>2 DEF LedgerNext, Next

LEMMA InitLedger == LedgerInit => LedgerInv
<1> SUFFICES ASSUME LedgerInit PROVE LedgerInv
  OBVIOUS
<1>1. /\ Init /\ owed = [k \in RangeKeys \cup KoKeys |-> 0] /\ skewed = FALSE
  BY DEF LedgerInit
<1>2. BookInv
  BY <1>1, InitBookInv
<1>3. StakesTypes
  BY <1>2, StakeTypes DEF StakesTypes
<1>4. /\ \A k \in RangeKeys : positions[k].lots = 0
      /\ \A k \in KoKeys : koPos[k].lots = 0
  BY <1>1 DEF Init, NoPosition, NoKnockoutPos
<1>5. ASSUME NEW k \in RangeKeys PROVE RangeMet(k)
  <2>1. Meets(0, 0, ClockOn(k), positions[k].mileage)
    BY <1>3, MeetsNothing DEF StakesTypes
  <2> QED BY <1>1, <1>4, <2>1 DEF RangeMet
<1>6. ASSUME NEW k \in KoKeys PROVE KnockoutMet(k)
  BY <1>1, <1>3, <1>4, KnockoutEmpty
<1>7. LedgerTyped
  <2>1. owed \in [RangeKeys \cup KoKeys -> Int]
    BY <1>1
  <2>2. skewed \in BOOLEAN
    BY <1>1, Zenon
  <2> QED BY <2>1, <2>2 DEF LedgerTyped
<1> QED BY <1>5, <1>6, <1>7 DEF LedgerInv, AllMet

\* An operation comes between swaps, and leaves counter and histories alone.
LEMMA RangeLedger ==
    ASSUME PoolInv, PoolInv', LedgerInv, NEW o \in Owners, NEW r \in RangeLocs, LedgerRange(o, r)
    PROVE  LedgerInv'
<1>1. [Next]_vars
  BY DEF LedgerRange, RangeNext, Next
<1>2. UNCHANGED <<concGrowth, merkles>> /\ sweep = "idle"
  BY DEF LedgerRange, MintRange, MarkRange, BurnRange, HarvestRange, curveVars, knockoutVars
<1>3. OrderStep
  BY <1>1, <1>2 DEF OrderStep, SkipsFlip, IsCrossing
<1> QED BY <1>3, MintRangeLedger, MarkRangeLedger, BurnRangeLedger, HarvestRangeLedger
        DEF LedgerRange

LEMMA KnockoutLedger ==
    ASSUME PoolInv, PoolInv', LedgerInv, NEW o \in Owners, NEW k \in KoLocs, LedgerKnockout(o, k)
    PROVE  LedgerInv'
<1>1. [Next]_vars
  BY DEF LedgerKnockout, KnockoutNext, Next
<1>2. UNCHANGED <<concGrowth, merkles>> /\ sweep = "idle"
  BY DEF LedgerKnockout, MintKnockout, BurnKnockout, ClaimKnockout, RecoverKnockout, curveVars
<1>3. OrderStep
  BY <1>1, <1>2 DEF OrderStep, SkipsFlip, IsCrossing
<1> QED BY <1>3, MintKnockoutLedger, BurnKnockoutLedger, ClaimKnockoutLedger, RecoverKnockoutLedger
        DEF LedgerKnockout

LEMMA NextLedgerInv ==
    ASSUME PoolInv, PoolInv', LedgerInv, [LedgerNext]_<<vars, ledgerVars>>
    PROVE  LedgerInv'
<1>1. [Next]_vars
  BY LedgerStepsPool
<1>2. CASE PassTime /\ UNCHANGED ledgerVars
  <2>1. OrderStep
    BY <1>1, <1>2 DEF OrderStep, PassTime, curveVars, knockoutVars, SkipsFlip, IsCrossing
  <2> QED BY <1>2, <2>1, IdleLedger DEF PassTime, knockoutVars, ledgerVars
<1>3. ASSUME NEW dir \in {"buy", "sell"}, SweepBegin(dir), UNCHANGED ledgerVars
      PROVE  LedgerInv'
  <2>1. OrderStep
    BY <1>1, <1>3 DEF OrderStep, SweepBegin, curveVars, knockoutVars, SkipsFlip, IsCrossing
  <2> QED BY <1>3, <2>1, IdleLedger DEF SweepBegin, knockoutVars, ledgerVars
<1>4. CASE UNCHANGED <<vars, ledgerVars>>
  <2>1. UNCHANGED <<levels, tick, concGrowth, positions, pivots, merkles, koPos, owed, skewed>>
    BY <1>4 DEF vars, ledgerVars
  <2>2. \A k : ClockOn(k)' = ClockOn(k)
    BY <2>1 DEF ClockOn, Clock, ClockFeeOdometer, PivotFeeBelow
  <2>3. \A k \in KoKeys : IsLive(k)' <=> IsLive(k)
    BY <2>1 DEF IsLive
  <2>4. ASSUME NEW k \in RangeKeys, RangeMet(k) PROVE RangeMet(k)'
    BY <2>1, <2>2, <2>4 DEF RangeMet, Meets
  <2>5. ASSUME NEW k \in KoKeys, KnockoutMet(k) PROVE KnockoutMet(k)'
    BY <2>1, <2>2, <2>3, <2>5 DEF KnockoutMet, LiveMet, DeadMet, Meets
  <2> QED BY <2>1, <2>4, <2>5 DEF LedgerInv, LedgerTyped, AllMet
<1> QED BY <1>2, <1>3, <1>4, RangeLedger, KnockoutLedger, AccrueLedger DEF LedgerNext

\* The inductive invariant of the pool and its ledger.
THEOREM LedgerInvariant == LedgerSpec => [](PoolInv /\ LedgerInv)
<1>1. LedgerInit => PoolInv /\ LedgerInv
  BY InitBookInv, InitTrancheInv, InitStakeInv, InitLedger DEF LedgerInit, PoolInv
<1>2. PoolInv /\ LedgerInv /\ [LedgerNext]_<<vars, ledgerVars>> => PoolInv' /\ LedgerInv'
  BY LedgerStepsPool, NextPoolInv, NextLedgerInv
<1> QED BY <1>1, <1>2, PTL DEF LedgerSpec

\* No position is promised more than its lots have earned in range: for every
\* grid, set of orders and word width, as long as no crossing skipped a flip.
THEOREM RewardsCovered == LedgerSpec => []RewardsNeverOverpaid
<1>1. PoolInv /\ LedgerInv => RewardsNeverOverpaid
  <2> SUFFICES ASSUME PoolInv, LedgerInv, ~skewed PROVE RewardsNeverOverpaid
    BY DEF RewardsNeverOverpaid
  <2>1. StakesTypes /\ AllMet /\ owed \in [RangeKeys \cup KoKeys -> Int]
    BY StakeTypes DEF PoolInv, StakesTypes, LedgerInv, LedgerTyped
  <2>2. ASSUME NEW k \in RangeKeys
        PROVE  positions[k].lots * RangeRate(k) <= owed[k]
    <3>1. /\ owed[k] \in Int /\ positions[k].lots \in Nat /\ ClockOn(k) \in Int
          /\ positions[k].mileage \in Int /\ positions[k].lots <= positions[k].lots
          /\ Meets(owed[k], positions[k].lots, ClockOn(k), positions[k].mileage)
      BY <2>1 DEF StakesTypes, AllMet, RangeMet
    <3>2. positions[k].lots * DeltaRewardsRate(ClockOn(k), positions[k].mileage) <= owed[k]
      BY <3>1, MeetsPayment
    <3> QED BY <3>2 DEF RangeRate, ClockOn
  <2>3. ASSUME NEW k \in KoKeys, pivots[PivotKey(k[2])].time = k[3]
        PROVE  koPos[k].lots * KnockoutRate(k) <= owed[k]
    <3>1. CASE k[3] # 0
      <4>1. /\ owed[k] \in Int /\ koPos[k].lots \in Nat /\ ClockOn(k) \in Int
            /\ koPos[k].mileage \in Int /\ koPos[k].lots <= koPos[k].lots
            /\ Meets(owed[k], koPos[k].lots, ClockOn(k), koPos[k].mileage)
        BY <2>1, <2>3, <3>1 DEF StakesTypes, AllMet, KnockoutMet, LiveMet, IsLive
      <4>2. koPos[k].lots * DeltaRewardsRate(ClockOn(k), koPos[k].mileage) <= owed[k]
        BY <4>1, MeetsPayment
      <4> QED BY <4>2 DEF KnockoutRate, ClockOn
    <3>2. CASE k[3] = 0
      <4>1. koPos[k].lots = 0 /\ owed[k] >= 0 /\ ClockOn(k) \in Int /\ koPos[k].mileage \in Int
        BY <2>1, <3>2
           DEF PoolInv, StakeInv, TranchesBacked, NoneAtZero, AllMet, KnockoutMet, StakesTypes
      <4>2. KnockoutRate(k) \in Int
        BY <4>1 DEF KnockoutRate, DeltaRewardsRate, ClockOn
      <4> QED BY <4>1, <4>2
    <3> QED BY <3>1, <3>2
  <2> QED BY <2>2, <2>3 DEF RewardsNeverOverpaid
<1> QED BY <1>1, LedgerInvariant, PTL

\* A tranche that was knocked out claims no more than its range earned until
\* then: what its pivot filed is within it, and later links carry other times.
THEOREM ClaimsCovered == LedgerSpec => []ClaimsNeverOverpaid
<1>1. PoolInv /\ LedgerInv => ClaimsNeverOverpaid
  <2> SUFFICES ASSUME PoolInv, LedgerInv, ~skewed, NEW k \in KoKeys,
                      NEW proven \in ProvableHistory(merkles[PivotKey(k[2])]),
                      koPos[k].lots > 0, proven.time = k[3], ClaimFits(koPos[k], proven.mileage)
               PROVE  koPos[k].lots * ClaimRate(k, proven.mileage) <= owed[k]
    BY DEF ClaimsNeverOverpaid
  <2>1. StakesTypes /\ AllMet /\ owed \in [RangeKeys \cup KoKeys -> Int] /\ TypeOK
    BY StakeTypes DEF PoolInv, BookInv, WordInv, StakesTypes, LedgerInv, LedgerTyped
  <2>2. PivotKey(k[2]) \in PivotKeys
    BY PivotEnds DEF KoKeys
  <2>3. ~IsLive(k)
    <3>1. /\ pivots[PivotKey(k[2])].time # 0 =>
                /\ merkles[PivotKey(k[2])].time < pivots[PivotKey(k[2])].time
                /\ \A x \in ToSet(merkles[PivotKey(k[2])].root) :
                       x.time < pivots[PivotKey(k[2])].time
      BY <2>2 DEF PoolInv, TrancheInv, TrancheFresh
    <3>2. /\ pivots[PivotKey(k[2])].time \in Nat /\ merkles[PivotKey(k[2])].time \in Nat
          /\ \A x \in ToSet(merkles[PivotKey(k[2])].root) : x.time \in Nat
      BY <2>1, <2>2, TimesTyped
    <3>3. proven.time = merkles[PivotKey(k[2])].time
            \/ proven \in ToSet(merkles[PivotKey(k[2])].root)
      BY DEF ProvableHistory
    <3> QED BY <3>1, <3>2, <3>3 DEF IsLive
  <2>4. /\ owed[k] \in Int /\ owed[k] >= 0 /\ koPos[k].lots \in Nat /\ koPos[k].mileage \in Nat
        /\ Meets(owed[k], koPos[k].lots, proven.mileage, koPos[k].mileage)
    BY <2>1, <2>3 DEF StakesTypes, AllMet, KnockoutMet, DeadMet
  <2>5. proven.mileage \in FeeWords
    BY <2>1, <2>2, ProvenTyped
  <2>6. CASE proven.mileage > 0
    BY <2>4, <2>6 DEF ClaimRate, Meets
  <2>7. CASE ~(proven.mileage > 0)
    <3>1. ClaimRate(k, proven.mileage) = 0
      BY <2>7 DEF ClaimRate
    <3> QED BY <2>4, <3>1
  <2> QED BY <2>6, <2>7
<1> QED BY <1>1, LedgerInvariant, PTL
=============================================================================
