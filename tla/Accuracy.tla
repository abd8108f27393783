-------------------------------- MODULE Accuracy --------------------------------
(***************************************************************************)
(* The hourly task signals.evaluate_accuracy (apps/signals/tasks.py): it    *)
(* lists the signals of one ticker that are an hour old and have no         *)
(* accuracy record, and for each compares the price near the signal with    *)
(* the prices near one hour and near 24 hours later.  Runs may overlap: the *)
(* list is taken once, the prices are read and the record is stored in      *)
(* transactions of their own, and the one-to-one key of SignalAccuracy ends *)
(* the run that comes second.                                               *)
(*                                                                          *)
(* Prices near a time are those within Tolerance ticks of it (ten minutes   *)
(* in the code).  A price is stored with the time of its bar, and several   *)
(* rows may have the same time (PriceStore): which of them a query gives is *)
(* open.  A trade inserts or revises a bar of the running tick, or of the   *)
(* last one when it is late; the quote endpoint adds the exchange's last    *)
(* bar; the chart's backfill, begun while there is no price, adds any bar.  *)
(* What is fetched is stored within the tick; seeded prices are left out.   *)
(***************************************************************************)
EXTENDS Integers, FiniteSets, FiniteSetsExt

CONSTANTS Signals, Evaluators, Prices,
          Exchange,        \* the exchange's price of each tick, if there were trades
          Predictions,     \* what a signal may say
          Tolerance,       \* ticks around a time that are near it
          ShortHorizon,    \* one hour
          LongHorizon,     \* 24 hours
          MaxTime,         \* bound: the last tick
          LastCrash,       \* bound: the tick from which on no run dies
          MaxBars,         \* bound: bars there are
          NoSignal

ASSUME TimesAssumption ==
  /\ Tolerance \in Nat /\ ShortHorizon \in Nat /\ LongHorizon \in Nat
  /\ 2 * Tolerance < ShortHorizon /\ ShortHorizon + 2 * Tolerance < LongHorizon
ASSUME BoundsAssumption == MaxTime \in Nat /\ LastCrash \in Nat /\ MaxBars \in Nat
ASSUME PricesAssumption == Prices \subseteq Nat \ {0} /\ Exchange \in [0..MaxTime -> Prices \union {0}]
ASSUME PredictionsAssumption == Predictions \subseteq {"BUY", "SELL", "HOLD"}
ASSUME NoSignalAssumption == NoSignal \notin Signals

VARIABLES
  now, market,  \* the tick it is; the exchange's last bar, -1 for none
  prices,    \* of the snapshots with each timestamp
  filling,   \* whether a chart is filling in past bars
  created,   \* when each signal was stored
  signal,    \* what it says
  evaluated, \* signals with an accuracy record
  actual,    \* actual_direction of the record
  verdict1h, verdict24h,  \* accuracy_1h and accuracy_24h
  settled,   \* history: evaluated signals whose prices were of bars that had ended
  pc, todo, current,      \* of each run: where it is, what it has left
  measured   \* the prices it has read for the current signal

signals == <<created, signal>>
bars    == <<market, prices, filling>>
records == <<evaluated, actual, verdict1h, verdict24h, settled>>
runs    == <<pc, todo, current, measured>>
vars    == <<now, bars, signals, records, runs>>

NoPrice  == 0
NotYet   == -1
Nothing  == [at |-> NoPrice, short |-> NoPrice, long |-> NoPrice, settled |-> FALSE]

Init ==
  /\ now = 0 /\ market = NotYet
  /\ prices = [i \in 0..MaxTime |-> {}]
  /\ filling = FALSE
  /\ created = [s \in Signals |-> NotYet]
  /\ signal = [s \in Signals |-> "HOLD"]
  /\ evaluated = {}
  /\ actual = [s \in Signals |-> "FLAT"]
  /\ verdict1h = [s \in Signals |-> "unknown"]
  /\ verdict24h = [s \in Signals |-> "unknown"]
  /\ settled = {}
  /\ pc = [e \in Evaluators |-> "idle"]
  /\ todo = [e \in Evaluators |-> {}]
  /\ current = [e \in Evaluators |-> NoSignal]
  /\ measured = [e \in Evaluators |-> Nothing]

\* Time passes, and the exchange has its bar of the tick that ends.
Tick ==
  /\ now < MaxTime
  /\ now' = now + 1
  /\ market' = IF Exchange[now] # NoPrice THEN now ELSE market
  /\ UNCHANGED <<prices, filling, signals, records, runs>>

Stored == {bar \in (0..MaxTime) \X Prices : bar[2] \in prices[bar[1]]}

\* Prices that a bar's tick gets; one more row of a price there is changes nothing.
Store(at, some) ==
  /\ some # prices[at]
  /\ prices' = [prices EXCEPT ![at] = some]
  /\ Cardinality(Stored') <= MaxBars

\* A trade opens or revises a bar of its tick, or one of several.
Trade(at, p) ==
  /\ at \in {now, now - 1} /\ Exchange[at] # NoPrice
  /\ \E old \in prices[at] \union {NoPrice} : Store(at, (prices[at] \ {old}) \union {p})
  /\ UNCHANGED <<now, market, filling, signals, records, runs>>

\* A bar of the exchange is added: the last one by a quote, any by a backfill.
StoreBar(at) ==
  /\ at = market \/ (filling /\ at < market)
  /\ Exchange[at] # NoPrice
  /\ Store(at, prices[at] \union {Exchange[at]})
  /\ UNCHANGED <<now, market, filling, signals, records, runs>>

\* A chart finds no price at all and fills in the past.
BeginFill ==
  /\ ~filling /\ market # NotYet
  /\ \A at \in 0..MaxTime : prices[at] = {}
  /\ filling' = TRUE
  /\ UNCHANGED <<now, market, prices, signals, records, runs>>

EndFill ==
  /\ filling
  /\ filling' = FALSE
  /\ UNCHANGED <<now, market, prices, signals, records, runs>>

\* The pipeline stores a signal, early enough to see the window of its first hour
\* close before MaxTime.
CreateSignal(s) ==
  /\ created[s] = NotYet
  /\ now + ShortHorizon + Tolerance <= MaxTime
  /\ created' = [created EXCEPT ![s] = now]
  /\ \E d \in Predictions : signal' = [signal EXCEPT ![s] = d]
  /\ UNCHANGED <<now, bars, records, runs>>

-----------------------------------------------------------------------------
Priced(at) == {i \in at - Tolerance..at + Tolerance : i \in 0..MaxTime /\ prices[i] # {}}

\* Mutant: the latest price near the time.
LatestPricesNear(at) == IF Priced(at) = {} THEN {NoPrice} ELSE prices[Max(Priced(at))]

\* _get_price_near: what it may give, a first price near the time.
PricesNear(at) == IF Priced(at) = {} THEN {NoPrice} ELSE prices[Min(Priced(at))]

\* The first price near the time is of a bar that cannot change any more.
Settled(at) == ~filling /\ Priced(at) # {} /\ Min(Priced(at)) < market

Direction(before, after) ==
  IF after > before THEN "UP" ELSE IF after < before THEN "DOWN" ELSE "FLAT"

Matches(said, direction) ==
  <<said, direction>> \in {<<"BUY", "UP">>, <<"SELL", "DOWN">>, <<"HOLD", "FLAT">>}

Verdict(said, before, after) ==
  IF after = NoPrice THEN "unknown"
  ELSE IF Matches(said, Direction(before, after)) THEN "right" ELSE "wrong"

\* Mutant: nothing stands in for a direction that was not seen.
NoFallback(m) ==
  IF m.short # NoPrice THEN Direction(m.at, m.short)
  ELSE IF m.long # NoPrice THEN Direction(m.at, m.long)
  ELSE "none"

\* actual_1h or actual_24h or "FLAT".
ActualDirection(m) ==
  IF m.short # NoPrice THEN Direction(m.at, m.short)
  ELSE IF m.long # NoPrice THEN Direction(m.at, m.long)
  ELSE "FLAT"

\* Mutant: only signals of the last hour or so are looked for.
JustDue == {s \in Signals \ evaluated : created[s] # NotYet /\ created[s] + ShortHorizon = now}

\* The signals created an hour ago or earlier that have no record.
Due == {s \in Signals \ evaluated : created[s] # NotYet /\ created[s] + ShortHorizon <= now}

Goto(e, stage) == pc' = [pc EXCEPT ![e] = stage]

\* The task lists what is due.
Begin(e) ==
  /\ pc[e] = "idle"
  /\ Due # {}
  /\ todo' = [todo EXCEPT ![e] = Due]
  /\ Goto(e, "listed")
  /\ UNCHANGED <<now, bars, signals, records, current, measured>>

\* The prices of a signal are read.  Without a price near the signal it is passed
\* over, for the next run to try again.
Read(e, s) ==
  \E at \in PricesNear(created[s]), short \in PricesNear(created[s] + ShortHorizon),
     long \in PricesNear(created[s] + LongHorizon) :
    IF at = NoPrice
      THEN UNCHANGED <<pc, current, measured>>
      ELSE /\ Goto(e, "measured")
           /\ current' = [current EXCEPT ![e] = s]
           /\ measured' = [measured EXCEPT ![e] =
                [at |-> at, short |-> short, long |-> long,
                 settled |-> Settled(created[s] + ShortHorizon)]]

Measure(e) ==
  /\ pc[e] = "listed"
  /\ \E s \in todo[e] :
       /\ todo' = [todo EXCEPT ![e] = @ \ {s}]
       /\ Read(e, s)
  /\ UNCHANGED <<now, bars, signals, records>>

Stop(e) ==
  /\ Goto(e, "idle")
  /\ todo' = [todo EXCEPT ![e] = {}]
  /\ current' = [current EXCEPT ![e] = NoSignal]
  /\ measured' = [measured EXCEPT ![e] = Nothing]

\* The record is stored; a failing retrain check is only logged.
StoreRecord(e) ==
  LET s == current[e]
      m == measured[e] IN
  /\ pc[e] = "measured"
  /\ s \notin evaluated
  /\ evaluated' = evaluated \union {s}
  /\ actual' = [actual EXCEPT ![s] = ActualDirection(m)]
  /\ verdict1h' = [verdict1h EXCEPT ![s] = Verdict(signal[s], m.at, m.short)]
  /\ verdict24h' = [verdict24h EXCEPT ![s] = Verdict(signal[s], m.at, m.long)]
  /\ settled' = IF m.settled THEN settled \union {s} ELSE settled
  /\ Goto(e, "listed")
  /\ current' = [current EXCEPT ![e] = NoSignal]
  /\ measured' = [measured EXCEPT ![e] = Nothing]
  /\ UNCHANGED <<now, bars, signals, todo>>

\* Another run has stored a record for the signal: the unique key refuses this
\* one, and its exception ends the task with whatever it had left.
RefuseRecord(e) ==
  /\ pc[e] = "measured"
  /\ current[e] \in evaluated
  /\ Stop(e)
  /\ UNCHANGED <<now, bars, signals, records>>

Finish(e) ==
  /\ pc[e] = "listed" /\ todo[e] = {}
  /\ Stop(e)
  /\ UNCHANGED <<now, bars, signals, records>>

Crash(e) ==
  /\ pc[e] # "idle"
  /\ now < LastCrash
  /\ Stop(e)
  /\ UNCHANGED <<now, bars, signals, records>>

Evaluate(e) == Begin(e) \/ Measure(e) \/ StoreRecord(e) \/ RefuseRecord(e) \/ Finish(e)

Next ==
  \/ Tick
  \/ \E at \in 0..MaxTime : StoreBar(at) \/ \E p \in Prices : Trade(at, p)
  \/ BeginFill \/ EndFill
  \/ \E s \in Signals : CreateSignal(s)
  \/ \E e \in Evaluators : Evaluate(e) \/ Crash(e)

\* Time passes and the task keeps being run.
Fairness == WF_vars(Tick) /\ \A e \in Evaluators : WF_vars(Evaluate(e))

SafeSpec == Init /\ [][Next]_vars
Spec == SafeSpec /\ Fairness

-----------------------------------------------------------------------------
(* Properties.                                                              *)

Verdicts == {"right", "wrong", "unknown"}

\* The type of every variable.
TypeOK ==
  /\ now \in 0..MaxTime /\ market \in NotYet..now - 1
  /\ prices \in [0..MaxTime -> SUBSET Prices]
  /\ filling \in BOOLEAN
  /\ created \in [Signals -> {NotYet} \union 0..now]
  /\ signal \in [Signals -> {"BUY", "SELL", "HOLD"}]
  /\ evaluated \subseteq Signals
  /\ actual \in [Signals -> {"UP", "DOWN", "FLAT"}]
  /\ verdict1h \in [Signals -> Verdicts]
  /\ verdict24h \in [Signals -> Verdicts]
  /\ settled \subseteq evaluated
  /\ pc \in [Evaluators -> {"idle", "listed", "measured"}]
  /\ todo \in [Evaluators -> SUBSET Signals]
  /\ current \in [Evaluators -> Signals \union {NoSignal}]
  /\ \A e \in Evaluators : pc[e] = "measured" <=> current[e] # NoSignal
  /\ measured \in [Evaluators -> [at : Prices \union {NoPrice}, short : Prices \union {NoPrice},
                                  long : Prices \union {NoPrice}, settled : BOOLEAN]]

\* The verdict on the first hour is never overturned by what the market does
\* after the prices were read, although the window around the horizon is open for
\* ten more minutes then, trades come late and bars are stored again: unless the
\* first price of the window was of a bar that could still change, or past bars
\* were being filled in, it is a verdict that the whole price history gives.
HourVerdictStands ==
  \A s \in settled :
    \E before \in PricesNear(created[s]), after \in PricesNear(created[s] + ShortHorizon) :
      verdict1h[s] = Verdict(signal[s], before, after)

\* Every signal with a price near it is evaluated in the end, although an
\* overlapping run ends with an exception at the first record it finds stored.
EverySignalEvaluated ==
  \A s \in Signals :
    (created[s] # NotYet /\ Priced(created[s]) # {}) ~> s \in evaluated

\* What README.md says of the task: an evaluated signal is judged by the price
\* movement over 24 hours once there is a price for it.
JudgedOver24h ==
  \A s \in evaluated : Priced(created[s] + LongHorizon) # {} => verdict24h[s] # "unknown"

=================================================================================
