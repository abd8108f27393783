------------------------------- MODULE MCAccuracy -------------------------------
(* Accuracy with the horizons scaled down: an hour is three ticks, a day    *)
(* six, and a price is near within one tick.  The exchange has no bar of    *)
(* tick 4, so bars of the hour's window stay its last while that is open.   *)
EXTENDS Accuracy

MCPrices == {1, 2}

MCExchange == [t \in 0..MaxTime |-> IF t = 4 THEN 0 ELSE 1 + (t \div 3)]

=================================================================================
