-------------------------------- MODULE Accounts --------------------------------
(***************************************************************************)
(* What the trading endpoints promise, free of requests, row locks and      *)
(* transactions: an account is opened once with the starting cash, and a    *)
(* fill is one indivisible step that moves cash, shares and the trade       *)
(* history of one user together, never into debt and never short.           *)
(***************************************************************************)
EXTENDS Money, Sequences

CONSTANTS Users, Tickers,
          Prices, Quantities,  \* what fills may be made of
          InitialCash          \* in cents

VARIABLES opened,   \* users that have an account
          cash,     \* cents; what the account holds, or would be opened with
          shares,   \* shares owned, per user and ticker
          trades    \* the fills of each user, in order

vars == <<opened, cash, shares, trades>>

Init ==
  /\ opened = {}
  /\ cash = [u \in Users |-> InitialCash]
  /\ shares = [k \in Users \X Tickers |-> 0]
  /\ trades = [u \in Users |-> <<>>]

Open(u) ==
  /\ opened' = opened \union {u}
  /\ UNCHANGED <<cash, shares, trades>>

Record(u, t, side, n, p) ==
  trades' = [trades EXCEPT ![u] = Append(@, [ticker |-> t, side |-> side,
                                             quantity |-> n, price |-> p])]

Buy(u, t, n, p) ==
  /\ p * n <= Units(cash[u])
  /\ opened' = opened \union {u}
  /\ cash' = [cash EXCEPT ![u] = ToCents(Units(@) - p * n)]
  /\ shares' = [shares EXCEPT ![<<u, t>>] = @ + n]
  /\ Record(u, t, "buy", n, p)

Sell(u, t, n, p) ==
  /\ n <= shares[<<u, t>>]
  /\ opened' = opened \union {u}
  /\ cash' = [cash EXCEPT ![u] = ToCents(Units(@) + p * n)]
  /\ shares' = [shares EXCEPT ![<<u, t>>] = @ - n]
  /\ Record(u, t, "sell", n, p)

Next ==
  \E u \in Users :
    \/ Open(u)
    \/ \E t \in Tickers, n \in Quantities, p \in Prices :
         Buy(u, t, n, p) \/ Sell(u, t, n, p)

Spec == Init /\ [][Next]_vars

=================================================================================
