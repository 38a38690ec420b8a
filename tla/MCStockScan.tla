----------------------------- MODULE MCStockScan -----------------------------
(* Three prices, so that every two can be below, equal or above each other, the lowest of them at the price floor. *)
EXTENDS StockScan

MCPrices == 1..3
Ranges == {<<1, 1>>, <<1, 2>>, <<2, 2>>}
Eligible == [range : {2}, priorRanges : Ranges, open : MCPrices, prevClose : MCPrices, weekOpen : MCPrices,
             monthOpen : MCPrices, sma20 : MCPrices, sma50 : {2}, liquid : BOOLEAN, eligible : {TRUE}]
MCStocks == Eligible \cup {[(CHOOSE s \in Eligible : TRUE) EXCEPT !.eligible = FALSE]}
=============================================================================
