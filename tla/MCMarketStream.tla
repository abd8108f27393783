----------------------------- MODULE MCMarketStream -----------------------------
(* MarketStream with a chart for each of two symbols.                       *)
EXTENDS MarketStream, TLC

CONSTANTS c1, c2, AAPL, MSFT

MCCharts   == {c1, c2}
MCSymbols  == {AAPL, MSFT}
MCSymbolOf == c1 :> AAPL @@ c2 :> MSFT

=================================================================================
