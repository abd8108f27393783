------------------------------ MODULE MCPriceStore ------------------------------
(* PriceStore with two daemons and one reader, and prices that rise and     *)
(* fall between the minutes.                                                *)
EXTENDS PriceStore, TLC

MCTrades == {[price |-> 1, size |-> 1], [price |-> 3, size |-> 2]}

MCExchange == [m \in 0..MaxMinute |->
  [open |-> 2, high |-> 3, low |-> 1, close |-> (2 * m + 1) % 4, volume |-> 2]]

MCSeeds == {Row(1, 0, "seed", [open |-> 9, high |-> 9, low |-> 9, close |-> 9, volume |-> 1])}

MCPartOf == {<<"bull", "bullish">>}

MCSymmetry == Permutations(Daemons)

=================================================================================
