---------------------------- MODULE NflMarketMath ----------------------------
(***************************************************************************)
(* The arithmetic of nfl/market_math.py on American prices.  A price is a  *)
(* non-zero integer; a return is a fraction <<numerator, denominator>>; a  *)
(* probability is a multiple of 1 / Scale (the code keeps 16 decimals).  A *)
(* market is [book, home, away].                                           *)
(***************************************************************************)
EXTENDS Integers, FiniteSets, FiniteSetsExt

CONSTANT Scale

ASSUME ScaleAssumption == Scale \in Nat \ {0}

(* american_to_decimal_odds: what a unit returns, as a fraction.           *)
Return(price) == IF price > 0 THEN <<price + 100, 100>> ELSE <<100 - price, -price>>

PriceOf(market, side) == IF side = "home" THEN market.home ELSE market.away

(* calculate_per_book_no_vig: the implied probabilities are the inverse    *)
(* returns, divided by their sum.                                          *)
NoVigHome(market) ==
    LET h == Return(market.home)
        a == Return(market.away)
    IN  (Scale * h[2] * a[1]) \div (h[2] * a[1] + a[2] * h[1])

(* calculate_market_consensus: the mean over the providers.                *)
ConsensusHome(markets) ==
    MapThenSumSet(NoVigHome, markets) \div Cardinality(markets)

Consensus(markets, side) ==
    IF side = "home" THEN ConsensusHome(markets) ELSE Scale - ConsensusHome(markets)

Pays(a, b) == Return(a)[1] * Return(b)[2] - Return(b)[1] * Return(a)[2]

(* find_best_offered_price: the largest return, of the lowest provider.    *)
BestMarket(markets, side) ==
    CHOOSE m \in markets : \A n \in markets \ {m} :
        \/ Pays(PriceOf(m, side), PriceOf(n, side)) > 0
        \/ Pays(PriceOf(m, side), PriceOf(n, side)) = 0 /\ m.book < n.book

(* calculate_model_market_evaluation                                       *)
Edge(probability, markets, side) == probability - Consensus(markets, side)

ExpectedValue(probability, price) ==
    (probability * Return(price)[1]) \div Return(price)[2] - Scale
=============================================================================
