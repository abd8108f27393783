----------------------------- MODULE AccuracyProofs -----------------------------
(***************************************************************************)
(* Type correctness of the evaluation, and that a verdict on the first hour *)
(* is never overturned: for any signals, overlapping runs, crashes, prices  *)
(* and times.                                                               *)
(***************************************************************************)
EXTENDS Accuracy, WellFoundedInduction, TLAPS

PriceOrNone == Prices \union {NoPrice}

LEMMA Least ==
  ASSUME NEW S, S \subseteq Nat, S # {}
  PROVE  Min(S) \in S /\ \A x \in S : Min(S) <= x
<1>. DEFINE Below == {pair \in Nat \X Nat : pair[1] < pair[2]}
<1>1. IsWellFoundedOn(Below, Nat)
  BY NatLessThanWellFounded DEF OpToRel
<1>2. PICK least \in S : \A x \in S : ~(<<x, least>> \in Below)
  <2>. HIDE DEF Below
  <2>. QED BY <1>1, WFMin
<1>3. \A x \in S : least <= x
  <2>1. \A x, y \in Nat : x < y => <<x, y>> \in Below
    OBVIOUS
  <2>2. \A x \in S : ~(x < least)
    <3>. HIDE DEF Below
    <3>. QED BY <1>2, <2>1
  <2>. QED BY <2>2
<1>. QED BY <1>3 DEF Min

\* Of the prices near a time the first is the one that counts.
LEMMA FirstPriced ==
  ASSUME NEW at, Priced(at) # {}
  PROVE  /\ Min(Priced(at)) \in Priced(at) /\ Min(Priced(at)) \in Nat
         /\ \A i \in Priced(at) : Min(Priced(at)) <= i
<1>1. Priced(at) \subseteq Nat
  BY BoundsAssumption DEF Priced
<1>. QED BY <1>1, Least

LEMMA PricesNearType ==
  ASSUME prices \in [0..MaxTime -> SUBSET Prices], NEW at
  PROVE  PricesNear(at) \subseteq PriceOrNone
<1>1. CASE Priced(at) = {}
  BY <1>1 DEF PricesNear, PriceOrNone
<1>2. CASE Priced(at) # {}
  <2>1. Min(Priced(at)) \in 0..MaxTime
    BY <1>2, FirstPriced DEF Priced
  <2>. QED BY <1>2, <2>1 DEF PricesNear, PriceOrNone
<1>. QED BY <1>1, <1>2

LEMMA VerdictType == \A said, before, after : Verdict(said, before, after) \in Verdicts
BY DEF Verdict, Verdicts

LEMMA ActualType == \A m : ActualDirection(m) \in {"UP", "DOWN", "FLAT"}
BY DEF ActualDirection, Direction

Measurement == [at : PriceOrNone, short : PriceOrNone, long : PriceOrNone, settled : BOOLEAN]

LEMMA InitType == Init => TypeOK
<1>. SUFFICES ASSUME Init PROVE TypeOK
  OBVIOUS
<1>1. now \in 0..MaxTime /\ market \in NotYet..now - 1
  BY BoundsAssumption DEF Init, NotYet
<1>2. \A e \in Evaluators : pc[e] = "measured" <=> current[e] # NoSignal
  BY DEF Init
<1>3. measured \in [Evaluators -> Measurement]
  BY DEF Init, Measurement, Nothing, PriceOrNone
<1>. QED BY <1>1, <1>2, <1>3 DEF Init, TypeOK, Verdicts, Measurement, PriceOrNone

\* What a run that ends, or dies, leaves.
LEMMA StopType ==
  ASSUME TypeOK, NEW e \in Evaluators, Stop(e)
  PROVE  /\ pc' \in [Evaluators -> {"idle", "listed", "measured"}]
         /\ todo' \in [Evaluators -> SUBSET Signals]
         /\ current' \in [Evaluators -> Signals \union {NoSignal}]
         /\ \A f \in Evaluators : pc'[f] = "measured" <=> current'[f] # NoSignal
         /\ measured' \in [Evaluators -> Measurement]
<1>1. Nothing \in Measurement
  BY DEF Nothing, Measurement, PriceOrNone
<1>2. measured \in [Evaluators -> Measurement]
  BY DEF TypeOK, Measurement, PriceOrNone
<1>3. measured' \in [Evaluators -> Measurement]
  BY <1>1, <1>2 DEF Stop
<1>. QED BY <1>3 DEF Stop, Goto, TypeOK

LEMMA NextType == TypeOK /\ [Next]_vars => TypeOK'
<1>. SUFFICES ASSUME TypeOK, [Next]_vars PROVE TypeOK'
  OBVIOUS
<1>. USE DEF Measurement, PriceOrNone
<1>1. CASE Tick
  <2>1. now' \in 0..MaxTime /\ market' \in NotYet..now' - 1
    BY <1>1, BoundsAssumption DEF Tick, TypeOK, NotYet
  <2>2. created' \in [Signals -> {NotYet} \union 0..now']
    BY <1>1, BoundsAssumption DEF Tick, TypeOK, signals
  <2>. QED BY <1>1, <2>1, <2>2 DEF Tick, TypeOK, signals, records, runs
<1>2. ASSUME NEW at \in 0..MaxTime, StoreBar(at) \/ \E p \in Prices : Trade(at, p) PROVE TypeOK'
  <2>1. PICK some : Store(at, some) /\ some \subseteq Prices
    <3>1. CASE StoreBar(at)
      <4>1. Exchange[at] \in Prices
        BY <3>1, PricesAssumption DEF StoreBar, NoPrice
      <4>. QED BY <3>1, <4>1 DEF StoreBar, TypeOK
    <3>2. CASE \E p \in Prices : Trade(at, p)
      BY <3>2 DEF Trade, TypeOK
    <3>. QED BY <1>2, <3>1, <3>2
  <2>2. prices' \in [0..MaxTime -> SUBSET Prices]
    BY <2>1 DEF Store, TypeOK
  <2>. QED BY <1>2, <2>2 DEF StoreBar, Trade, TypeOK, signals, records, runs
<1>3. CASE BeginFill \/ EndFill
  BY <1>3 DEF BeginFill, EndFill, TypeOK, signals, records, runs
<1>4. ASSUME NEW s \in Signals, CreateSignal(s) PROVE TypeOK'
  <2>1. now \in 0..now
    BY BoundsAssumption DEF TypeOK
  <2>2. created' \in [Signals -> {NotYet} \union 0..now]
    BY <1>4, <2>1 DEF CreateSignal, TypeOK
  <2>3. signal' \in [Signals -> {"BUY", "SELL", "HOLD"}]
    BY <1>4, PredictionsAssumption DEF CreateSignal, TypeOK
  <2>. QED BY <1>4, <2>2, <2>3 DEF CreateSignal, TypeOK, bars, records, runs
<1>5. ASSUME NEW e \in Evaluators, Evaluate(e) \/ Crash(e) PROVE TypeOK'
  <2>1. CASE Begin(e)
    BY <2>1 DEF Begin, Due, Goto, TypeOK, bars, signals, records
  <2>2. CASE Measure(e)
    <3>1. PICK s \in todo[e] : todo' = [todo EXCEPT ![e] = @ \ {s}] /\ Read(e, s)
      BY <2>2 DEF Measure
    <3>2. s \in Signals /\ s # NoSignal
      BY <3>1, NoSignalAssumption DEF TypeOK
    <3>3. \A x : PricesNear(x) \subseteq PriceOrNone
      BY PricesNearType DEF TypeOK
    <3>4. UNCHANGED <<now, bars, signals, records>>
      BY <2>2 DEF Measure
    <3>5. todo' \in [Evaluators -> SUBSET Signals]
      BY <3>1 DEF TypeOK
    <3>6. CASE UNCHANGED <<pc, current, measured>>
      BY <3>4, <3>5, <3>6 DEF TypeOK, bars, signals, records
    <3>7. CASE ~UNCHANGED <<pc, current, measured>>
      <4>1. pc' = [pc EXCEPT ![e] = "measured"] /\ current' = [current EXCEPT ![e] = s]
        BY <3>1, <3>7 DEF Read, Goto
      <4>2. PICK m \in Measurement : measured' = [measured EXCEPT ![e] = m]
        BY <3>1, <3>3, <3>7 DEF Read, Settled
      <4>3. \A f \in Evaluators : pc'[f] = "measured" <=> current'[f] # NoSignal
        BY <3>2, <4>1 DEF TypeOK
      <4>. QED BY <3>2, <3>4, <3>5, <4>1, <4>2, <4>3 DEF TypeOK, bars, signals, records
    <3>. QED BY <3>6, <3>7
  <2>3. CASE StoreRecord(e)
    <3>1. current[e] \in Signals
      BY <2>3 DEF StoreRecord, TypeOK
    <3>2. /\ actual' \in [Signals -> {"UP", "DOWN", "FLAT"}]
          /\ verdict1h' \in [Signals -> Verdicts] /\ verdict24h' \in [Signals -> Verdicts]
      BY <2>3, VerdictType, ActualType DEF StoreRecord, TypeOK
    <3>3. measured' \in [Evaluators -> Measurement] /\ settled' \subseteq evaluated'
      BY <2>3 DEF StoreRecord, TypeOK, Nothing
    <3>4. \A f \in Evaluators : pc'[f] = "measured" <=> current'[f] # NoSignal
      BY <2>3 DEF StoreRecord, Goto, TypeOK
    <3>. QED BY <2>3, <3>1, <3>2, <3>3, <3>4 DEF StoreRecord, Goto, TypeOK, bars, signals
  <2>4. CASE RefuseRecord(e)
    <3>1. Stop(e) /\ UNCHANGED <<now, bars, signals, records>>
      BY <2>4 DEF RefuseRecord
    <3>. QED BY <3>1, StopType DEF TypeOK, bars, signals, records
  <2>5. CASE Finish(e)
    <3>1. Stop(e) /\ UNCHANGED <<now, bars, signals, records>>
      BY <2>5 DEF Finish
    <3>. QED BY <3>1, StopType DEF TypeOK, bars, signals, records
  <2>6. CASE Crash(e)
    <3>1. Stop(e) /\ UNCHANGED <<now, bars, signals, records>>
      BY <2>6 DEF Crash
    <3>. QED BY <3>1, StopType DEF TypeOK, bars, signals, records
  <2>. QED BY <1>5, <2>1, <2>2, <2>3, <2>4, <2>5, <2>6 DEF Evaluate
<1>6. CASE UNCHANGED vars
  BY <1>6 DEF vars, bars, signals, records, runs, TypeOK
<1>. QED BY <1>1, <1>2, <1>3, <1>4, <1>5, <1>6 DEF Next

\* Every variable of the evaluation keeps its type; a run holds a signal exactly
\* while it has measured it.
THEOREM TypeCorrect == SafeSpec => []TypeOK
<1>1. Init => TypeOK
  BY InitType
<1>2. TypeOK /\ [Next]_vars => TypeOK'
  BY NextType
<1>. QED BY <1>1, <1>2, PTL DEF SafeSpec

-----------------------------------------------------------------------------

Hour(s) == created[s] + ShortHorizon

\* While no chart fills in the past, a step stores prices of the running tick, of
\* the last one and of the exchange's last bar only, and once there is a price no
\* chart begins.
LEMMA PastIsFixed ==
  ASSUME TypeOK, ~filling, [Next]_vars, NEW i \in 0..MaxTime, prices[i] # {}
  PROVE  /\ market' \in Int /\ market <= market' /\ ~filling'
         /\ \A j \in 0..MaxTime : j < market => prices'[j] = prices[j]
<1>. DEFINE Past == \A j \in 0..MaxTime : j < market => prices'[j] = prices[j]
<1>1. now \in Nat /\ market \in Int /\ market <= now - 1
  BY BoundsAssumption DEF TypeOK, NotYet
<1>2. CASE Tick
  BY <1>1, <1>2 DEF Tick
<1>3. ASSUME NEW at \in 0..MaxTime, StoreBar(at) \/ \E p \in Prices : Trade(at, p)
      PROVE  UNCHANGED <<market, filling>> /\ Past
  <2>1. UNCHANGED <<market, filling>> /\ market <= at
    BY <1>1, <1>3 DEF StoreBar, Trade
  <2>2. PICK some : Store(at, some)
    BY <1>3 DEF StoreBar, Trade
  <2>3. Past
    BY <1>1, <2>1, <2>2 DEF Store, TypeOK
  <2>. QED BY <2>1, <2>3
<1>4. ~BeginFill /\ ~EndFill
  BY DEF BeginFill, EndFill
<1>5. CASE UNCHANGED bars
  BY <1>1, <1>5 DEF bars
<1>6. CASE (\E s \in Signals : CreateSignal(s)) \/ (\E e \in Evaluators : Evaluate(e) \/ Crash(e))
             \/ UNCHANGED vars
  BY <1>5, <1>6 DEF CreateSignal, Evaluate, Begin, Measure, StoreRecord, RefuseRecord, Finish, Crash, vars
<1>. QED BY <1>1, <1>2, <1>3, <1>4, <1>6 DEF Next

\* So the first price near a time is final once its bar is not the last any more.
LEMMA FirstIsFinal ==
  ASSUME TypeOK, [Next]_vars, NEW at, ~filling, Priced(at) # {}, Min(Priced(at)) < market
  PROVE  /\ Priced(at)' # {} /\ Min(Priced(at)') < market' /\ ~filling'
         /\ PricesNear(at)' = PricesNear(at)
<1>. DEFINE first == Min(Priced(at))
<1>1. /\ first \in Priced(at) /\ first \in Nat /\ first \in 0..MaxTime /\ prices[first] # {}
      /\ \A i \in Priced(at) : first <= i
  BY FirstPriced DEF Priced
<1>2. market \in Int
  BY BoundsAssumption DEF TypeOK, NotYet
<1>3. /\ market' \in Int /\ market <= market' /\ ~filling'
      /\ \A j \in 0..MaxTime : j < market => prices'[j] = prices[j]
  BY <1>1, PastIsFixed
<1>4. prices'[first] = prices[first]
  BY <1>1, <1>3
<1>5. first \in Priced(at)' /\ Priced(at)' \subseteq Nat
  <2>1. first \in Priced(at)'
    BY <1>1, <1>4 DEF Priced
  <2>2. Priced(at)' \subseteq Nat
    BY BoundsAssumption DEF Priced
  <2>. QED BY <2>1, <2>2
<1>6. ASSUME NEW i \in Priced(at)' PROVE first <= i
  <2>1. i \in 0..MaxTime /\ i \in at - Tolerance..at + Tolerance /\ prices'[i] # {}
    BY DEF Priced
  <2>2. CASE i < market
    <3>1. i \in Priced(at)
      BY <1>3, <2>1, <2>2 DEF Priced
    <3>. QED BY <1>1, <3>1
  <2>3. CASE ~(i < market)
    BY <1>1, <1>2, <2>1, <2>3, BoundsAssumption
  <2>. QED BY <2>2, <2>3
<1>7. Min(Priced(at)') \in Priced(at)' /\ \A i \in Priced(at)' : Min(Priced(at)') <= i
  BY <1>5, Least
<1>8. Min(Priced(at)') = first
  BY <1>1, <1>5, <1>6, <1>7
<1>9. PricesNear(at)' = prices'[first] /\ PricesNear(at) = prices[first]
  BY <1>5, <1>8 DEF PricesNear
<1>. QED BY <1>1, <1>2, <1>3, <1>4, <1>5, <1>8, <1>9

\* What was read of a signal is what the prices say and go on saying.
Judged(s, at, short) ==
  /\ Settled(Hour(s))
  /\ Priced(created[s]) # {} /\ at \in PricesNear(created[s]) /\ short \in PricesNear(Hour(s))

JudgedInv ==
  /\ \A e \in Evaluators : \A s \in todo[e] : created[s] # NotYet
  /\ \A e \in Evaluators : pc[e] = "measured" =>
       /\ created[current[e]] # NotYet
       /\ measured[e].settled => Judged(current[e], measured[e].at, measured[e].short)
  /\ \A s \in settled :
       /\ created[s] # NotYet
       /\ \E at, short \in PriceOrNone :
            Judged(s, at, short) /\ verdict1h[s] = Verdict(signal[s], at, short)

\* A signal that was created stays what it is.
LEMMA SignalStays ==
  ASSUME TypeOK, [Next]_vars, NEW s \in Signals, created[s] # NotYet
  PROVE  created'[s] = created[s] /\ signal'[s] = signal[s]
BY DEF Next, vars, Tick, Trade, StoreBar, BeginFill, EndFill, CreateSignal, Evaluate, Begin, Measure,
       StoreRecord, RefuseRecord, Finish, Crash, signals, TypeOK

\* near and hour are the times as they are, which no step changes.
LEMMA JudgedStays ==
  ASSUME TypeOK, [Next]_vars, NEW s \in Signals, created[s] # NotYet,
         NEW at, NEW short, Judged(s, at, short)
  PROVE  Judged(s, at, short)'
<1>1. PICK near \in Int, hour \in Int : near = created[s] /\ hour = Hour(s)
  BY TimesAssumption, BoundsAssumption DEF TypeOK, Hour, NotYet
<1>2. hour = near + ShortHorizon
  BY <1>1 DEF Hour
<1>3. /\ ~filling /\ Priced(hour) # {} /\ Min(Priced(hour)) < market
      /\ Priced(near) # {} /\ at \in PricesNear(near) /\ short \in PricesNear(hour)
  BY <1>1 DEF Judged, Settled
<1>4. Min(Priced(near)) < market
  <2>1. Min(Priced(near)) \in Priced(near) /\ Min(Priced(hour)) \in Priced(hour)
    BY <1>3, FirstPriced
  <2>2. \A i \in Priced(near) : i \in Nat /\ i <= near + Tolerance
    BY <1>1, TimesAssumption, BoundsAssumption DEF Priced
  <2>3. \A i \in Priced(hour) : i \in Nat /\ hour - Tolerance <= i
    BY <1>1, TimesAssumption, BoundsAssumption DEF Priced
  <2>4. market \in Int
    BY BoundsAssumption DEF TypeOK, NotYet
  <2>. QED BY <1>1, <1>2, <1>3, <2>1, <2>2, <2>3, <2>4, TimesAssumption
<1>5. /\ Priced(hour)' # {} /\ Min(Priced(hour)') < market' /\ ~filling'
      /\ PricesNear(hour)' = PricesNear(hour)
  BY <1>3, FirstIsFinal
<1>6. Priced(near)' # {} /\ PricesNear(near)' = PricesNear(near)
  BY <1>3, <1>4, FirstIsFinal
<1>7. created'[s] = near /\ Hour(s)' = hour
  BY <1>1, <1>2, SignalStays DEF Hour
<1>8. \A c : (c = created'[s]) => Priced(created[s])' = Priced(c)' /\ PricesNear(created[s])' = PricesNear(c)'
  BY DEF Priced, PricesNear
<1>9. \A c : (c = Hour(s)') => /\ Priced(Hour(s))' = Priced(c)' /\ PricesNear(Hour(s))' = PricesNear(c)'
                              /\ Settled(Hour(s))' = Settled(c)'
  BY DEF Priced, PricesNear, Settled
<1>10. Settled(hour)'
  BY <1>5 DEF Settled
<1>11. Priced(created[s])' = Priced(near)' /\ PricesNear(created[s])' = PricesNear(near)'
  BY <1>7, <1>8
<1>12. PricesNear(Hour(s))' = PricesNear(hour)' /\ Settled(Hour(s))' = Settled(hour)'
  BY <1>7, <1>9
<1>. QED BY <1>3, <1>5, <1>6, <1>10, <1>11, <1>12 DEF Judged

LEMMA InitJudged == Init => JudgedInv
BY DEF Init, JudgedInv

LEMMA NextJudged == TypeOK /\ TypeOK' /\ JudgedInv /\ [Next]_vars => JudgedInv'
<1>. SUFFICES ASSUME TypeOK, TypeOK', JudgedInv, [Next]_vars PROVE JudgedInv'
  OBVIOUS
<1>1. \A s \in Signals : created[s] # NotYet =>
        /\ created'[s] # NotYet /\ signal'[s] = signal[s]
        /\ \A at, short : Judged(s, at, short) => Judged(s, at, short)'
  BY SignalStays, JudgedStays
<1>2. \A e \in Evaluators : \A s \in todo'[e] : created'[s] # NotYet
  <2>1. \A e \in Evaluators : todo'[e] \subseteq todo[e] \/ todo'[e] \subseteq Due
    <3>1. CASE UNCHANGED todo
      BY <3>1
    <3>2. ASSUME NEW f \in Evaluators, Evaluate(f) \/ Crash(f)
          PROVE  \A e \in Evaluators : todo'[e] \subseteq todo[e] \/ todo'[e] \subseteq Due
      <4>1. todo \in [Evaluators -> SUBSET Signals]
        BY DEF TypeOK
      <4>2. CASE Begin(f)
        BY <4>1, <4>2 DEF Begin
      <4>3. CASE Measure(f)
        BY <4>1, <4>3 DEF Measure
      <4>4. CASE StoreRecord(f)
        BY <4>4 DEF StoreRecord
      <4>5. CASE RefuseRecord(f) \/ Finish(f) \/ Crash(f)
        BY <4>1, <4>5 DEF RefuseRecord, Finish, Crash, Stop
      <4>. QED BY <3>2, <4>2, <4>3, <4>4, <4>5 DEF Evaluate
    <3>. QED BY <3>1, <3>2 DEF Next, vars, runs, Tick, Trade, StoreBar, BeginFill, EndFill, CreateSignal
  <2>. QED BY <1>1, <2>1 DEF Due, JudgedInv, TypeOK
<1>3. ASSUME NEW e \in Evaluators, pc'[e] = "measured"
      PROVE  /\ created'[current'[e]] # NotYet
             /\ measured'[e].settled => Judged(current[e], measured[e].at, measured[e].short)'
  <2>1. CASE pc[e] = "measured" /\ UNCHANGED <<current[e], measured[e]>>
    <3>1. PICK s \in Signals, at \in PriceOrNone, short \in PriceOrNone : s = current[e] /\ at = measured[e].at /\ short = measured[e].short
      BY <2>1, NoSignalAssumption DEF TypeOK, PriceOrNone
    <3>2. created[s] # NotYet /\ (measured[e].settled => Judged(s, at, short))
      BY <2>1, <3>1 DEF JudgedInv
    <3>3. created'[s] # NotYet /\ (measured[e].settled => Judged(s, at, short)')
      BY <1>1, <3>2
    <3>. QED BY <2>1, <3>1, <3>3
  <2>2. CASE Measure(e)
    <3>1. UNCHANGED <<prices, filling, market, created, signal>>
      BY <2>2 DEF Measure, bars, signals
    <3>2. PICK s \in todo[e] : Read(e, s)
      BY <2>2 DEF Measure
    <3>3. CASE UNCHANGED <<pc, current, measured>>
      BY <1>3, <2>1, <3>3
    <3>4. CASE ~UNCHANGED <<pc, current, measured>>
      <4>1. PICK at \in PricesNear(created[s]), short \in PricesNear(created[s] + ShortHorizon) :
              /\ at # NoPrice /\ current'[e] = s
              /\ measured'[e].at = at /\ measured'[e].short = short
              /\ measured'[e].settled = Settled(created[s] + ShortHorizon)
        BY <3>2, <3>4 DEF Read, TypeOK
      <4>2. created[s] # NotYet
        BY DEF JudgedInv
      <4>3. Priced(created[s]) # {}
        BY <4>1 DEF PricesNear
      <4>4. measured'[e].settled => Judged(s, measured'[e].at, measured'[e].short)
        BY <4>1, <4>3 DEF Judged, Hour
      <4>5. Judged(current[e], measured[e].at, measured[e].short)'
               <=> Judged(s, measured'[e].at, measured'[e].short)
        BY <3>1, <4>1 DEF Judged, Hour, Settled, Priced, PricesNear
      <4>. QED BY <3>1, <4>1, <4>2, <4>4, <4>5
    <3>. QED BY <3>3, <3>4
  <2>3. CASE ~Measure(e)
    <3>1. CASE UNCHANGED runs
      BY <1>3, <2>1, <3>1 DEF runs
    <3>2. CASE Tick \/ (\E at \in 0..MaxTime : StoreBar(at) \/ \E p \in Prices : Trade(at, p))
                 \/ BeginFill \/ EndFill \/ (\E x \in Signals : CreateSignal(x)) \/ UNCHANGED vars
      BY <2>1, <1>3, <3>1, <3>2 DEF Tick, StoreBar, Trade, BeginFill, EndFill, CreateSignal, vars, runs
    <3>3. ASSUME NEW f \in Evaluators, Evaluate(f) \/ Crash(f)
          PROVE  pc[e] = "measured" /\ UNCHANGED <<current[e], measured[e]>>
      <4>1. CASE f = e
        BY <1>3, <2>3, <3>3, <4>1 DEF Evaluate, Begin, StoreRecord, RefuseRecord, Finish, Crash, Stop, Goto, TypeOK
      <4>2. CASE f # e
        BY <1>3, <3>3, <4>2 DEF Evaluate, Begin, Measure, Read, StoreRecord, RefuseRecord, Finish, Crash, Stop,
                                Goto, TypeOK
      <4>. QED BY <4>1, <4>2
    <3>. QED BY <2>1, <3>2, <3>3 DEF Next
  <2>. QED BY <2>2, <2>3
<1>4. ASSUME NEW s \in settled'
      PROVE  /\ created'[s] # NotYet
             /\ \E at, short \in PriceOrNone :
                  Judged(s, at, short)' /\ verdict1h'[s] = Verdict(signal'[s], at, short)
  <2>1. CASE s \in settled /\ verdict1h'[s] = verdict1h[s]
    <3>1. PICK at, short \in PriceOrNone :
            Judged(s, at, short) /\ verdict1h[s] = Verdict(signal[s], at, short)
      BY <2>1 DEF JudgedInv
    <3>2. s \in Signals /\ created[s] # NotYet
      BY <2>1 DEF JudgedInv, TypeOK
    <3>. QED BY <1>1, <2>1, <3>1, <3>2
  <2>2. ASSUME NEW e \in Evaluators, StoreRecord(e), s = current[e]
        PROVE  /\ created'[s] # NotYet
               /\ \E at, short \in PriceOrNone :
                    Judged(s, at, short)' /\ verdict1h'[s] = Verdict(signal'[s], at, short)
    <3>1. PICK at, short \in PriceOrNone : at = measured[e].at /\ short = measured[e].short
      BY DEF TypeOK, PriceOrNone
    <3>2. s \in Signals /\ s \notin settled /\ measured[e].settled
      BY <2>2, <1>4 DEF StoreRecord, TypeOK
    <3>3. created[s] # NotYet /\ Judged(s, at, short)
      BY <2>2, <3>1, <3>2 DEF StoreRecord, JudgedInv
    <3>4. verdict1h'[s] = Verdict(signal[s], at, short)
      BY <2>2, <3>1, <3>2 DEF StoreRecord, TypeOK
    <3>. QED BY <1>1, <3>2, <3>3, <3>4
  <2>3. ASSUME NEW e \in Evaluators, StoreRecord(e), s # current[e]
        PROVE  s \in settled /\ verdict1h'[s] = verdict1h[s]
    BY <2>3, <1>4 DEF StoreRecord, TypeOK
  <2>4. CASE \A e \in Evaluators : ~StoreRecord(e)
    <3>1. UNCHANGED records
      BY <2>4 DEF Next, vars, Tick, Trade, StoreBar, BeginFill, EndFill, CreateSignal, Evaluate, Begin,
                  Measure, RefuseRecord, Finish, Crash
    <3>. QED BY <1>4, <2>1, <3>1 DEF records
  <2>. QED BY <2>1, <2>2, <2>3, <2>4
<1>. QED BY <1>2, <1>3, <1>4 DEF JudgedInv

\* A verdict on the first hour that was given on bars that had ended is not
\* overturned by anything the market does later: late trades and bars that are
\* stored again come after them, and runs keep to what they read.
THEOREM VerdictStands == SafeSpec => []HourVerdictStands
<1>1. Init => TypeOK /\ JudgedInv
  BY InitType, InitJudged
<1>2. TypeOK /\ JudgedInv /\ [Next]_vars => TypeOK' /\ JudgedInv'
  BY NextType, NextJudged
<1>3. JudgedInv => HourVerdictStands
  BY DEF JudgedInv, Judged, HourVerdictStands, Hour
<1>. QED BY <1>1, <1>2, <1>3, PTL DEF SafeSpec

=================================================================================
