----------------------------- MODULE ReportsProofs -----------------------------
(***************************************************************************)
(* The forecasting model is loaded once, however many requests find it      *)
(* missing: the double check under _tfm_lock is enough.  And an export that *)
(* reads its sections one after the other shows no alert without the signal *)
(* it was raised on, as far as the time of the request bounds both.  And no *)
(* forecast is of a history that is too short.                              *)
(* And every backtest reconciles: its return with its trades, its drawdown  *)
(* with its equity, whatever rows and prices it has read.                   *)
(* And rows keep identities and times of their own while pipelines stamp    *)
(* and store them, and responses are what their requests asked for.         *)
(***************************************************************************)
EXTENDS Reports, FiniteSetTheorems, WellFoundedInduction, TLAPS

Places == {"new", "signals", "alerts", "prices", "model", "lock", "load", "infer", "done"}

\* Only a request that loads holds the lock, nobody loads a model that is there,
\* and one that is there was loaded once.
LoadInv ==
  /\ pc \in [Requests -> Places]
  /\ model \in Requests \union {None} /\ lock \in Requests \union {None}
  /\ \A r \in Requests : pc[r] = "load" <=> lock = r
  /\ lock # None => model = None
  /\ loads = IF model = None THEN 0 ELSE 1
  /\ \A r \in Requests : pc[r] = "infer" => model # None

LEMMA InitLoadInv == Init => LoadInv
BY NoneAssumption DEF Init, LoadInv, Places

\* What is not about the model leaves it, sends nobody to load or to infer, and
\* leaves whoever loads.
LEMMA ElsewhereKeepsLoadInv ==
  ASSUME LoadInv, UNCHANGED <<model, lock, loads>>,
         pc' \in [Requests -> Places],
         \A r \in Requests : pc'[r] \in {"load", "infer"} \/ pc[r] = "load" => pc'[r] = pc[r]
  PROVE  LoadInv'
BY DEF LoadInv

LEMMA ForecastKeepsLoadInv ==
  ASSUME LoadInv, NEW r \in Requests, ForecastStep(r)
  PROVE  LoadInv'
<1>1. CASE AskForecast(r)
  <2>1. UNCHANGED <<model, lock, loads>>
    BY <1>1 DEF AskForecast, modelVars
  <2>2. pc' \in {pc, [pc EXCEPT ![r] = "done"], [pc EXCEPT ![r] = "model"]}
    BY <1>1 DEF AskForecast, Answer, Goto, Refusal, Forecast
  <2>3. pc[r] = "new"
    BY <1>1 DEF AskForecast
  <2>. QED BY <2>1, <2>2, <2>3, ElsewhereKeepsLoadInv DEF LoadInv, Places
<1>2. CASE HasModel(r)
  BY <1>2 DEF HasModel, Goto, LoadInv, Places, forecastFrame, modelVars
<1>3. CASE WantModel(r)
  BY <1>3 DEF WantModel, Goto, LoadInv, Places, forecastFrame, modelVars
<1>4. CASE TakeLock(r)
  BY <1>4, NoneAssumption DEF TakeLock, StillMissing, Goto, LoadInv, Places
<1>5. CASE Load(r)
  <2>1. lock = r /\ model = None /\ loads = 0
    BY <1>5, NoneAssumption DEF Load, LoadInv
  <2>2. \A q \in Requests : q # r => pc[q] # "load"
    BY <2>1, <1>5 DEF LoadInv
  <2>. QED BY <1>5, <2>1, <2>2, NoneAssumption DEF Load, Goto, LoadInv, Places
<1>6. CASE LoadFails(r)
  <2>1. lock = r
    BY <1>6 DEF LoadFails, LoadInv
  <2>2. \A q \in Requests : q # r => pc[q] # "load"
    BY <2>1 DEF LoadInv
  <2>. QED
    BY <1>6, <2>1, <2>2, NoneAssumption
    DEF LoadFails, ReleasedLock, Answer, Goto, LoadInv, Places, forecastFrame
<1>7. CASE Infer(r)
  <2>1. UNCHANGED <<model, lock, loads>> /\ pc' = [pc EXCEPT ![r] = "done"] /\ pc[r] = "infer"
    BY <1>7 DEF Infer, Answer, Goto
  <2>. QED BY <2>1, ElsewhereKeepsLoadInv DEF LoadInv, Places
<1>8. CASE InferenceFails(r)
  <2>1. UNCHANGED <<model, lock, loads>> /\ pc' = [pc EXCEPT ![r] = "done"] /\ pc[r] = "infer"
    BY <1>8 DEF InferenceFails, Answer, Goto, modelVars
  <2>. QED BY <2>1, ElsewhereKeepsLoadInv DEF LoadInv, Places
<1>. QED
  BY <1>1, <1>2, <1>3, <1>4, <1>5, <1>6, <1>7, <1>8 DEF ForecastStep

LEMMA ExportKeepsLoadInv ==
  ASSUME LoadInv, NEW r \in Requests, Export(r)
  PROVE  LoadInv'
<1>1. UNCHANGED <<model, lock, loads>>
  BY DEF Export, AskExport, ExportSignals, ExportAlerts, AskBacktest, Backtest, modelVars
<1>2. /\ pc[r] \in {"new", "signals", "alerts", "prices"}
      /\ \E place \in {"signals", "alerts", "prices", "done"} : pc' = [pc EXCEPT ![r] = place]
  BY DEF Export, AskExport, ExportSignals, ExportAlerts, AskBacktest, Backtest, Answer, Goto
<1>. QED BY <1>1, <1>2, ElsewhereKeepsLoadInv DEF LoadInv, Places

LEMMA NextKeepsLoadInv == LoadInv /\ [Next]_vars => LoadInv'
<1>. SUFFICES ASSUME LoadInv, [Next]_vars PROVE LoadInv'
  OBVIOUS
<1>1. CASE \E p \in Pipelines : Pipeline(p)
  <2>1. UNCHANGED <<pc, model, lock, loads>>
    BY <1>1 DEF Pipeline, StampSignal, InsertSignal, StampAlert, InsertAlert, NoAlert, EndRun,
                requestVars, modelVars
  <2>. QED BY <2>1 DEF LoadInv
<1>2. CASE StorePrice
  <2>1. UNCHANGED <<pc, model, lock, loads>>
    BY <1>2 DEF StorePrice, requestVars, modelVars
  <2>. QED BY <2>1 DEF LoadInv
<1>3. CASE \E r \in Requests : Export(r) \/ ForecastStep(r)
  BY <1>3, ExportKeepsLoadInv, ForecastKeepsLoadInv
<1>4. CASE UNCHANGED vars
  <2>1. UNCHANGED <<pc, model, lock, loads>>
    BY <1>4 DEF vars, requestVars, modelVars
  <2>. QED BY <2>1 DEF LoadInv
<1>. QED BY <1>1, <1>2, <1>3, <1>4 DEF Next

\* "Concurrent Django requests don't race on init" (timesfm_service.py): the model
\* is loaded at most once, and whoever forecasts has it.
THEOREM ModelOnce == Spec => []ModelLoadedOnce
<1>1. Init => LoadInv
  BY InitLoadInv
<1>2. LoadInv /\ [Next]_vars => LoadInv'
  BY NextKeepsLoadInv
<1>3. LoadInv => ModelLoadedOnce
  BY DEF LoadInv, ModelLoadedOnce
<1>. QED BY <1>1, <1>2, <1>3, PTL DEF Spec

\* Two requests never load the model at the same time.
LoadsAlone == \A r, q \in Requests : pc[r] = "load" /\ pc[q] = "load" => r = q

\* One request at a time loads the model, whatever loads fail.
THEOREM LoadExclusion == Spec => []LoadsAlone
<1>1. Init => LoadInv
  BY InitLoadInv
<1>2. LoadInv /\ [Next]_vars => LoadInv'
  BY NextKeepsLoadInv
<1>3. LoadInv => LoadsAlone
  BY DEF LoadInv, LoadsAlone
<1>. QED BY <1>1, <1>2, <1>3, PTL DEF Spec

-----------------------------------------------------------------------------
(* The newest rows of a table.                                              *)

\* What holds of a set whenever it holds of its proper subsets holds of every finite set.
LEMMA SetInduction ==
  ASSUME NEW S, IsFiniteSet(S), NEW G,
         \A T \in SUBSET S : (\A U \in SUBSET T : U # T => U \in G) => T \in G
  PROVE  \A T \in SUBSET S : T \in G
<1>. SUFFICES ASSUME NEW B \in SUBSET S, B \notin G PROVE FALSE
  OBVIOUS
<1>. DEFINE Bad == {T \in SUBSET S : T \notin G}
<1>1. \A T \in SUBSET S : IsFiniteSet(T)
  BY FS_Subset
<1>2. Bad \subseteq FiniteSubsetsOf(S) /\ Bad # {}
  BY <1>1 DEF FiniteSubsetsOf
<1>3. PICK T \in Bad : \A U \in Bad : ~(<<U, T>> \in StrictSubsetOrdering(S))
  <2>. HIDE DEF Bad
  <2>. QED
    BY <1>2, FS_StrictSubsetOrderingWellFounded, WFMin
<1>4. \A U \in SUBSET T : U # T => <<U, T>> \in StrictSubsetOrdering(S)
  BY DEF StrictSubsetOrdering
<1>5. T \in SUBSET S /\ T \notin G
  OBVIOUS
<1>6. \A U \in SUBSET T : U # T => U \in G
  <2>1. ASSUME NEW U \in SUBSET T, U # T PROVE U \notin Bad
    <3>1. <<U, T>> \in StrictSubsetOrdering(S)
      BY <1>4, <2>1
    <3>. HIDE DEF Bad
    <3>. QED
      BY <1>3, <3>1
  <2>2. QED
    BY <1>5, <2>1
<1>7. QED
  BY <1>5, <1>6

\* Some member of a finite set has the largest of integers.
LEMMA HasHighest ==
  ASSUME NEW S, IsFiniteSet(S), S # {}, NEW h, \A x \in S : h[x] \in Int
  PROVE  \E x \in S : \A y \in S : h[y] <= h[x]
<1>. DEFINE G == {T \in SUBSET S : T # {} => \E x \in T : \A y \in T : h[y] <= h[x]}
<1>1. ASSUME NEW T \in SUBSET S, \A U \in SUBSET T : U # T => U \in G, T # {}
      PROVE  \E x \in T : \A y \in T : h[y] <= h[x]
  <2>1. PICK p \in T : TRUE
    BY <1>1
  <2>2. CASE T \ {p} = {}
    <3>1. \A y \in T : y = p
      BY <2>2
    <3>2. QED
      BY <2>1, <3>1
  <2>3. CASE T \ {p} # {}
    <3>1. T \ {p} \in G
      BY <1>1, <2>1
    <3>2. PICK z \in T \ {p} : \A y \in T \ {p} : h[y] <= h[z]
      BY <2>3, <3>1
    <3>3. h[p] \in Int /\ h[z] \in Int /\ \A y \in T : h[y] \in Int
      BY <2>1, <3>2
    <3>4. CASE h[p] <= h[z]
      BY <3>2, <3>4
    <3>5. CASE h[z] <= h[p]
      <4>1. \A y \in T \ {p} : h[y] <= h[p]
        BY <3>2, <3>3, <3>5
      <4>2. \A y \in T : h[y] <= h[p]
        BY <3>3, <4>1
      <4>3. QED
        BY <2>1, <4>2
    <3>6. QED
      BY <3>3, <3>4, <3>5
  <2>4. QED
    BY <2>2, <2>3
<1>2. \A T \in SUBSET S : (\A U \in SUBSET T : U # T => U \in G) => T \in G
  BY <1>1
<1>. HIDE DEF G
<1>3. S \in G
  BY <1>2, SetInduction
<1>4. QED
  BY <1>3 DEF G

\* The rows of a set that are newer than x, and those with less than
\* MAX_EXPORT_ROWS newer ones.
Newer(S, x) == {y \in S : y.at > x.at}
Newest(S) == {x \in S : Cardinality(Newer(S, x)) < MAX_EXPORT_ROWS}

\* What a section takes of the rows within its window.
Fills(S) ==
  /\ Cardinality(S) <= MAX_EXPORT_ROWS => Newest(S) = S
  /\ Cardinality(S) >= MAX_EXPORT_ROWS => Cardinality(Newest(S)) = MAX_EXPORT_ROWS

\* Rows of different times, as one that is older than all of them is added.
LEMMA FillsWithOldest ==
  ASSUME NEW S, IsFiniteSet(S), Fills(S), NEW m, m \notin S,
         m.at \in Int, \A x \in S : x.at \in Int /\ x.at > m.at
  PROVE  Fills(S \union {m})
<1>. DEFINE T == S \union {m}
<1>1. Cardinality(S) \in Nat /\ Cardinality(T) = Cardinality(S) + 1
  BY FS_CardinalityType, FS_AddElement
<1>2. Newer(T, m) = S
  BY DEF Newer
<1>3. \A x \in S : Newer(T, x) = Newer(S, x)
  BY DEF Newer
<1>4. Newest(T) = Newest(S) \union (IF Cardinality(S) < MAX_EXPORT_ROWS THEN {m} ELSE {})
  BY <1>2, <1>3 DEF Newest
<1>5. MAX_EXPORT_ROWS \in Nat
  BY BoundsAssumption
<1>. HIDE DEF T
<1>6. CASE Cardinality(S) < MAX_EXPORT_ROWS
  <2>1. Newest(T) = T
    BY <1>1, <1>4, <1>5, <1>6 DEF Fills, T
  <2>2. Fills(T)
    BY <1>1, <1>5, <1>6, <2>1 DEF Fills
  <2>. QED BY <2>2 DEF T
<1>7. CASE ~(Cardinality(S) < MAX_EXPORT_ROWS)
  <2>1. Newest(T) = Newest(S)
    BY <1>4, <1>7
  <2>2. Cardinality(Newest(S)) = MAX_EXPORT_ROWS
    BY <1>1, <1>5, <1>7 DEF Fills
  <2>3. Fills(T)
    BY <1>1, <1>5, <1>7, <2>1, <2>2 DEF Fills
  <2>. QED BY <2>3 DEF T
<1>. QED BY <1>6, <1>7

LEMMA AllFill ==
  ASSUME NEW S, IsFiniteSet(S), \A x \in S : x.at \in Int, \A x, y \in S : x.at = y.at => x = y
  PROVE  Fills(S)
<1>. DEFINE G == {T \in SUBSET S : Fills(T)}
<1>0. MAX_EXPORT_ROWS \in Nat
  BY BoundsAssumption
<1>1. ASSUME NEW T \in SUBSET S, \A U \in SUBSET T : U # T => U \in G
      PROVE  Fills(T)
  <2>1. CASE T = {}
    <3>1. Cardinality(T) = 0 /\ Newest(T) = T
      BY <2>1, FS_EmptySet DEF Newest
    <3>. QED BY <1>0, <3>1 DEF Fills
  <2>2. CASE T # {}
    <3>. DEFINE age == [x \in T |-> 0 - x.at]
    <3>1. IsFiniteSet(T) /\ \A x \in T : age[x] \in Int
      BY FS_Subset
    <3>2. PICK m \in T : \A x \in T : age[x] <= age[m]
      <4>. HIDE DEF age
      <4>. QED BY <2>2, <3>1, HasHighest
    <3>3. m.at \in Int /\ \A x \in T \ {m} : x.at \in Int /\ x.at > m.at
      <4>1. ASSUME NEW x \in T \ {m} PROVE x.at > m.at
        <5>1. x.at \in Int /\ m.at \in Int /\ x.at # m.at
          OBVIOUS
        <5>2. 0 - x.at <= 0 - m.at
          BY <3>2
        <5>. QED BY <5>1, <5>2
      <4>. QED BY <4>1
    <3>4. Fills(T \ {m}) /\ IsFiniteSet(T \ {m}) /\ m \notin T \ {m}
      <4>1. T \ {m} \in G
        BY <1>1, <3>2
      <4>. QED BY <4>1, FS_Subset
    <3>5. Fills((T \ {m}) \union {m})
      BY <3>3, <3>4, FillsWithOldest
    <3>6. (T \ {m}) \union {m} = T
      OBVIOUS
    <3>. QED BY <3>5, <3>6
  <2>. QED BY <2>1, <2>2
<1>2. \A T \in SUBSET S : (\A U \in SUBSET T : U # T => U \in G) => T \in G
  BY <1>1
<1>. HIDE DEF G
<1>3. S \in G
  BY <1>2, SetInduction
<1>. QED BY <1>3 DEF G

\* A section is full, or it has all rows of its window.
LEMMA SectionFull ==
  ASSUME NEW rows, IsFiniteSet(rows), \A x \in rows : x.at \in Int,
         \A x, y \in rows : x.at = y.at => x = y,
         NEW from \in Int, NEW to \in Int, NEW bounded \in BOOLEAN,
         NEW x \in rows, from <= x.at, bounded => x.at <= to
  PROVE  \/ x \in Section(rows, from, to, bounded)
         \/ Cardinality(Section(rows, from, to, bounded)) = MAX_EXPORT_ROWS
<1>. DEFINE within == {y \in rows : from <= y.at /\ (bounded => y.at <= to)}
<1>1. Section(rows, from, to, bounded) = Newest(within)
  BY DEF Section, Newest, Newer
<1>2. x \in within /\ within \subseteq rows
  OBVIOUS
<1>3. IsFiniteSet(within) /\ Cardinality(within) \in Nat
  BY <1>2, FS_Subset, FS_CardinalityType
<1>. HIDE DEF within
<1>4. Fills(within)
  BY <1>2, <1>3, AllFill
<1>. QED BY <1>1, <1>2, <1>3, <1>4, BoundsAssumption DEF Fills

-----------------------------------------------------------------------------
(* Exports, while the pipeline stores signals and raises alerts.            *)

\* The alerts there are, and those that are stamped and not stored yet.
Raised == alerts \union {draft[p] : p \in {q \in Pipelines : stage[q] = "alert"}}

\* A time that was taken, and an alert after its signal.
Past(t) == t \in Nat /\ t <= now
Follows(x) == Past(x.at) /\ x.signal \in signals /\ x.signal.at < x.at

\* No two signals have one time, whether stored or only stamped, and an alert is
\* stamped after the signal it is raised on was stored.
TablesInv ==
  /\ now \in Nat /\ IsFiniteSet(signals)
  /\ \A s \in signals : Past(s.at)
  /\ \A s, t \in signals : s.at = t.at => s = t
  /\ stage = [p \in Pipelines |-> stage[p]] /\ draft = [p \in Pipelines |-> draft[p]]
  /\ \A p \in Pipelines : stage[p] = "signal" => Past(draft[p].at)
  /\ \A p \in Pipelines : stage[p] = "signal" => \A s \in signals : s.at # draft[p].at
  /\ \A p, q \in Pipelines :
       stage[p] = "signal" /\ stage[q] = "signal" /\ draft[p].at = draft[q].at => p = q
  /\ \A p \in Pipelines : stage[p] = "decided" => draft[p] \in signals
  /\ \A x \in Raised : Follows(x)

\* What an export was asked for: either it has a window, or it has none.
AskedOK(r) ==
  /\ asked[r].bounded \in BOOLEAN
  /\ asked[r].kind = IF asked[r].bounded THEN "ticker" ELSE "bulk"
  /\ asked[r].from \in Int /\ asked[r].to \in Int /\ asked[r].at \in Int
  /\ asked[r].at <= now

\* The alerts an export answers for are no later than this.
Limit(r) ==
  IF asked[r].bounded /\ asked[r].to <= asked[r].at THEN asked[r].to ELSE asked[r].at

\* Why an alert may be in an export that has read these signals.
Explained(r, rows, x) ==
  \/ x.signal \in rows
  \/ x.signal.at < asked[r].from
  \/ Cardinality(rows) = MAX_EXPORT_ROWS

\* What ExportExplained says of one request.
AnswerExplained(r) ==
  answer[r] # None /\ answer[r].kind \in {"ticker", "bulk"} =>
    \A x \in answer[r].alerts :
      \/ Explained(r, answer[r].signals, x)
      \/ (answer[r].kind = "bulk" \/ asked[r].to > asked[r].at) /\ x.at > asked[r].at

\* An export that has read its signals can explain all alerts raised up to its
\* limit, those that are not stored yet too.
RequestOK(r) ==
  /\ pc[r] \in {"signals", "alerts"} => AskedOK(r)
  /\ pc[r] = "alerts" => \A x \in Raised : x.at <= Limit(r) => Explained(r, read[r], x)
  /\ pc[r] # "done" => answer[r] = None
  /\ AnswerExplained(r)

ExportInv ==
  /\ TablesInv
  /\ pc = [r \in Requests |-> pc[r]] /\ asked = [r \in Requests |-> asked[r]]
  /\ read = [r \in Requests |-> read[r]] /\ answer = [r \in Requests |-> answer[r]]
  /\ \A r \in Requests : RequestOK(r)

\* The clock starts at the newest row.
LEMMA InitNow ==
  ASSUME Init
  PROVE  /\ now \in Nat /\ now \in {0} \union {x.at : x \in signals \union prices}
         /\ \A x \in signals \union prices : x.at <= now
<1>. DEFINE rows == signals \union prices
            times == {0} \union {x.at : x \in rows}
            time == [x \in rows |-> x.at]
<1>1. IsFiniteSet(signals) /\ IsFiniteSet(prices) /\ \A x \in rows : x.at \in Nat
  BY HistoriesAssumption DEF Init
<1>2. IsFiniteSet(rows) /\ \A x \in rows : time[x] \in Int
  <2>1. IsFiniteSet(rows)
    BY <1>1, FS_Union
  <2>2. \A x \in rows : time[x] \in Int
    BY <1>1
  <2>. QED BY <2>1, <2>2
<1>3. \E t \in times : \A x \in rows : x.at <= t
  <2>1. CASE rows = {}
    BY <2>1
  <2>2. CASE rows # {}
    <3>1. PICK y \in rows : \A x \in rows : time[x] <= time[y]
      <4>. HIDE DEF rows, time
      <4>. QED BY <1>2, <2>2, HasHighest
    <3>2. \A x \in rows : x.at <= y.at
      <4>. HIDE DEF rows
      <4>. QED BY <3>1
    <3>. QED BY <3>1, <3>2
  <2>. QED BY <2>1, <2>2
<1>4. now = CHOOSE t \in times : \A x \in rows : x.at <= t
  BY DEF Init, NewestTime
<1>5. \A t \in times : t \in Nat
  BY <1>1
<1>. HIDE DEF rows, times
<1>6. now \in times /\ \A x \in rows : x.at <= now
  BY <1>3, <1>4
<1>. QED BY <1>5, <1>6 DEF rows, times

LEMMA InitExportInv == Init => ExportInv
<1>. SUFFICES ASSUME Init PROVE ExportInv
  OBVIOUS
<1>1. /\ IsFiniteSet(signals) /\ IsFiniteSet(prices)
      /\ \A x \in signals \union prices : x.at \in Nat
      /\ \A s, t \in signals : s.at = t.at => s = t
  BY HistoriesAssumption DEF Init
<1>2. now \in Nat /\ \A x \in signals \union prices : x.at <= now
  BY InitNow
<1>3. \A p \in Pipelines : stage[p] = "idle"
  BY DEF Init
<1>4. Raised = {}
  BY <1>3 DEF Raised, Init
<1>5. TablesInv
  BY <1>1, <1>2, <1>3, <1>4 DEF Init, TablesInv, Past
<1>6. ASSUME NEW r \in Requests PROVE pc[r] = "new" /\ answer[r] = None
  BY DEF Init
<1>7. \A r \in Requests : RequestOK(r)
  BY <1>6 DEF RequestOK, AnswerExplained
<1>. QED BY <1>5, <1>7 DEF Init, ExportInv

\* What the pipeline does to the tables, and what alerts there are of it.
LEMMA StampSignalKeepsTables ==
  ASSUME TablesInv, NEW p \in Pipelines, StampSignal(p)
  PROVE  TablesInv' /\ Raised' = Raised
<1>1. /\ now \in Nat /\ now' = now + 1 /\ UNCHANGED <<signals, alerts>>
      /\ stage[p] = "idle" /\ stage' = [stage EXCEPT ![p] = "signal"]
  BY DEF StampSignal, Tick, tables, TablesInv
<1>2. \A t : Past(t) => Past(t)' /\ t # now + 1
  BY <1>1 DEF Past
<1>3. PICK row : row.at = now + 1 /\ draft' = [draft EXCEPT ![p] = row]
  BY DEF StampSignal
<1>4. stage'[p] = "signal" /\ draft'[p].at = now + 1
  BY <1>1, <1>3 DEF TablesInv
<1>5. \A q \in Pipelines \ {p} : stage'[q] = stage[q] /\ draft'[q] = draft[q]
  BY <1>1, <1>3 DEF TablesInv
<1>6. Raised' = Raised
  BY <1>1, <1>4, <1>5 DEF Raised
<1>7. \A x \in Raised' : Follows(x)'
  BY <1>1, <1>2, <1>6 DEF TablesInv, Follows
<1>8. stage' = [q \in Pipelines |-> stage'[q]] /\ draft' = [q \in Pipelines |-> draft'[q]]
  BY <1>1, <1>3 DEF TablesInv
<1>9. \A t : t = now + 1 => Past(t)'
  BY <1>1 DEF Past
<1>10. /\ \A q \in Pipelines : stage'[q] = "signal" => Past(draft[q].at)'
       /\ \A q \in Pipelines : stage'[q] = "signal" => \A s \in signals' : s.at # draft'[q].at
  BY <1>1, <1>2, <1>4, <1>5, <1>9 DEF TablesInv
<1>11. \A q, o \in Pipelines :
         stage'[q] = "signal" /\ stage'[o] = "signal" /\ draft'[q].at = draft'[o].at => q = o
  BY <1>2, <1>4, <1>5 DEF TablesInv
<1>. QED BY <1>1, <1>2, <1>4, <1>5, <1>6, <1>7, <1>8, <1>10, <1>11 DEF TablesInv

LEMMA InsertSignalKeepsTables ==
  ASSUME TablesInv, NEW p \in Pipelines, InsertSignal(p)
  PROVE  TablesInv' /\ Raised' = Raised
<1>1. /\ stage[p] = "signal" /\ stage' = [stage EXCEPT ![p] = "decided"]
      /\ UNCHANGED <<now, alerts, draft>> /\ signals' = signals \union {draft[p]}
  BY DEF InsertSignal
<1>2. /\ \A q \in Pipelines \ {p} : stage'[q] = stage[q]
      /\ stage'[p] = "decided"
  BY <1>1 DEF TablesInv
<1>3. Raised' = Raised
  BY <1>1, <1>2 DEF Raised
<1>4. \A t : Past(t)' <=> Past(t)
  BY <1>1 DEF Past
<1>5. \A x \in Raised' : Follows(x)'
  BY <1>1, <1>3, <1>4 DEF TablesInv, Follows
<1>6. IsFiniteSet(signals') /\ \A s \in signals' : Past(s.at)'
  BY <1>1, <1>4, FS_AddElement DEF TablesInv
<1>7. \A s, t \in signals' : s.at = t.at => s = t
  BY <1>1 DEF TablesInv
<1>8. \A q \in Pipelines : stage'[q] = "signal" => \A s \in signals' : s.at # draft[q].at
  BY <1>1, <1>2 DEF TablesInv
<1>9. \A q \in Pipelines : stage'[q] = "decided" => draft[q] \in signals'
  BY <1>1, <1>2 DEF TablesInv
<1>10. stage' = [q \in Pipelines |-> stage'[q]]
  BY <1>1 DEF TablesInv
<1>11. /\ \A q \in Pipelines : stage'[q] = "signal" => Past(draft[q].at)'
       /\ \A q, o \in Pipelines :
            stage'[q] = "signal" /\ stage'[o] = "signal" /\ draft[q].at = draft[o].at => q = o
  BY <1>1, <1>2, <1>4 DEF TablesInv
<1>. QED BY <1>1, <1>3, <1>5, <1>6, <1>7, <1>8, <1>9, <1>10, <1>11 DEF TablesInv

LEMMA StampAlertKeepsTables ==
  ASSUME TablesInv, NEW p \in Pipelines, StampAlert(p)
  PROVE  TablesInv' /\ now' = now + 1 /\ \A x \in Raised' : x \in Raised \/ x.at = now + 1
<1>1. /\ now \in Nat /\ now' = now + 1 /\ UNCHANGED <<signals, alerts>>
      /\ stage[p] = "decided" /\ stage' = [stage EXCEPT ![p] = "alert"]
  BY DEF StampAlert, Tick, tables, TablesInv
<1>2. PICK row : /\ row.at = now + 1 /\ row.signal = draft[p]
                 /\ draft' = [draft EXCEPT ![p] = row]
  BY DEF StampAlert
<1>3. stage'[p] = "alert" /\ draft'[p] = row
  BY <1>1, <1>2 DEF TablesInv
<1>4. \A q \in Pipelines \ {p} : stage'[q] = stage[q] /\ draft'[q] = draft[q]
  BY <1>1, <1>2 DEF TablesInv
<1>5. \A x \in Raised' : x \in Raised \/ x = row
  BY <1>1, <1>3, <1>4 DEF Raised
<1>6. \A t : Past(t) => Past(t)'
  BY <1>1 DEF Past
<1>7. draft[p] \in signals /\ Past(draft[p].at)
  BY <1>1 DEF TablesInv
<1>8. Follows(row)'
  <2>1. row.signal \in signals' /\ row.signal.at < row.at /\ row.at \in Nat /\ row.at <= now'
    BY <1>1, <1>2, <1>7 DEF Past
  <2>. QED BY <2>1 DEF Follows, Past
<1>9. \A x \in Raised' : Follows(x)'
  <2>1. \A x \in Raised : Follows(x)'
    BY <1>1, <1>6 DEF TablesInv, Follows
  <2>. QED BY <1>5, <1>8, <2>1
<1>10. stage' = [q \in Pipelines |-> stage'[q]] /\ draft' = [q \in Pipelines |-> draft'[q]]
  BY <1>1, <1>2 DEF TablesInv
<1>11. /\ \A q \in Pipelines : stage'[q] = "signal" => Past(draft[q].at)'
       /\ \A q \in Pipelines : stage'[q] = "signal" => \A s \in signals' : s.at # draft'[q].at
       /\ \A q \in Pipelines : stage'[q] = "decided" => draft'[q] \in signals'
  BY <1>1, <1>3, <1>4, <1>6 DEF TablesInv
<1>12. \A q, o \in Pipelines :
         stage'[q] = "signal" /\ stage'[o] = "signal" /\ draft'[q].at = draft'[o].at => q = o
  BY <1>3, <1>4 DEF TablesInv
<1>13. TablesInv'
  BY <1>1, <1>6, <1>9, <1>10, <1>11, <1>12 DEF TablesInv
<1>. QED BY <1>1, <1>2, <1>5, <1>13

LEMMA EndRunKeepsTables ==
  ASSUME TablesInv, NEW p \in Pipelines, InsertAlert(p) \/ NoAlert(p)
  PROVE  TablesInv' /\ now' = now /\ Raised' \subseteq Raised
<1>1. /\ UNCHANGED <<now, signals>> /\ stage' = [stage EXCEPT ![p] = "idle"]
      /\ draft' = [draft EXCEPT ![p] = None]
      /\ alerts' = alerts \/ (stage[p] = "alert" /\ alerts' = alerts \union {draft[p]})
  BY DEF InsertAlert, NoAlert, EndRun
<1>2. stage'[p] = "idle" /\ \A q \in Pipelines \ {p} : stage'[q] = stage[q] /\ draft'[q] = draft[q]
  BY <1>1 DEF TablesInv
<1>3. Raised' \subseteq Raised
  BY <1>1, <1>2 DEF Raised
<1>4. \A t : Past(t)' <=> Past(t)
  BY <1>1 DEF Past
<1>5. \A x \in Raised' : Follows(x)'
  BY <1>1, <1>3, <1>4 DEF TablesInv, Follows
<1>6. stage' = [q \in Pipelines |-> stage'[q]] /\ draft' = [q \in Pipelines |-> draft'[q]]
  BY <1>1 DEF TablesInv
<1>7. /\ \A q \in Pipelines : stage'[q] = "signal" => Past(draft[q].at)'
      /\ \A q \in Pipelines : stage'[q] = "signal" => \A s \in signals' : s.at # draft'[q].at
      /\ \A q \in Pipelines : stage'[q] = "decided" => draft'[q] \in signals'
      /\ \A q, o \in Pipelines :
           stage'[q] = "signal" /\ stage'[o] = "signal" /\ draft'[q].at = draft'[o].at => q = o
  BY <1>1, <1>2, <1>4 DEF TablesInv
<1>8. TablesInv'
  BY <1>1, <1>4, <1>5, <1>6, <1>7 DEF TablesInv
<1>. QED BY <1>1, <1>3, <1>8

\* Time that passes takes no time back.
LEMMA TimeKeepsTables ==
  ASSUME TablesInv, now' \in {now, now + 1}, UNCHANGED <<signals, alerts, stage, draft>>
  PROVE  TablesInv' /\ Raised' = Raised
<1>1. now \in Nat /\ now' \in Nat /\ \A t : Past(t) => Past(t)'
  BY DEF Past, TablesInv
<1>2. Raised' = Raised
  BY DEF Raised
<1>3. \A x \in Raised' : Follows(x)'
  BY <1>1, <1>2 DEF TablesInv, Follows
<1>. QED BY <1>1, <1>2, <1>3 DEF TablesInv

\* What happens elsewhere leaves an export explained: alerts raised from now on
\* are later than its limit.
LEMMA ElsewhereKeepsRequest ==
  ASSUME TablesInv, NEW r \in Requests, RequestOK(r), now' \in {now, now + 1},
         \A x \in Raised' : x \in Raised \/ x.at = now + 1,
         pc'[r] = pc[r], asked'[r] = asked[r], read'[r] = read[r], answer'[r] = answer[r]
  PROVE  RequestOK(r)'
<1>1. now \in Nat
  BY DEF TablesInv
<1>2. AskedOK(r) => AskedOK(r)'
  BY <1>1 DEF AskedOK
<1>3. Limit(r)' = Limit(r) /\ \A rows, x : Explained(r, rows, x)' <=> Explained(r, rows, x)
  BY DEF Limit, Explained
<1>4. ASSUME pc[r] = "alerts", NEW x \in Raised', x.at <= Limit(r) PROVE Explained(r, read[r], x)
  <2>1. AskedOK(r)
    BY <1>4 DEF RequestOK
  <2>2. Limit(r) \in Int /\ Limit(r) <= now
    BY <1>1, <2>1 DEF AskedOK, Limit
  <2>3. x.at # now + 1
    BY <1>1, <1>4, <2>2
  <2>. QED BY <1>4, <2>3 DEF RequestOK
<1>5. AnswerExplained(r) => AnswerExplained(r)'
  BY DEF AnswerExplained, Explained
<1>. QED BY <1>2, <1>3, <1>4, <1>5 DEF RequestOK

\* A request that is on its way, or has an answer that is no export, is all right.
LEMMA NoExport ==
  ASSUME NEW r \in Requests, pc'[r] \notin {"signals", "alerts"},
         \/ answer'[r] = None
         \/ pc'[r] = "done" /\ answer'[r].kind \notin {"ticker", "bulk"}
  PROVE  RequestOK(r)'
BY DEF RequestOK, AnswerExplained

\* The window is fixed when the export is asked for.
LEMMA AskExportKeepsRequest ==
  ASSUME ExportInv, NEW r \in Requests, AskExport(r)
  PROVE  RequestOK(r)'
<1>1. now \in Nat /\ now' = now + 1 /\ pc'[r] = "signals" /\ pc[r] = "new" /\ answer' = answer
  BY DEF AskExport, Tick, Goto, ExportInv, TablesInv
<1>2. answer'[r] = None
  BY <1>1 DEF ExportInv, RequestOK
<1>3. AskedOK(r)'
  <2>1. CASE \E w \in Windows, to \in 0..MaxTime :
               asked' = [asked EXCEPT ![r] = [kind |-> "ticker", at |-> now + 1, from |-> now + 1 - w,
                                              to |-> to, bounded |-> Bounding(to)]]
    <3>1. PICK w \in Windows, to \in 0..MaxTime :
            asked' = [asked EXCEPT ![r] = [kind |-> "ticker", at |-> now + 1, from |-> now + 1 - w,
                                           to |-> to, bounded |-> Bounding(to)]]
      BY <2>1
    <3>2. asked'[r] = [kind |-> "ticker", at |-> now + 1, from |-> now + 1 - w,
                       to |-> to, bounded |-> TRUE]
      BY <3>1 DEF Bounding, ExportInv
    <3>3. w \in Nat
      BY BoundsAssumption
    <3>. QED BY <1>1, <3>2, <3>3 DEF AskedOK
  <2>2. CASE asked' = [asked EXCEPT ![r] = [kind |-> "bulk", at |-> now + 1, from |-> 0,
                                            to |-> now + 1, bounded |-> FALSE]]
    <3>1. asked'[r] = [kind |-> "bulk", at |-> now + 1, from |-> 0,
                       to |-> now + 1, bounded |-> FALSE]
      BY <2>2 DEF ExportInv
    <3>. QED BY <1>1, <3>1 DEF AskedOK
  <2>. QED BY <2>1, <2>2 DEF AskExport
<1>. QED BY <1>1, <1>2, <1>3 DEF RequestOK, AnswerExplained

\* The alerts there are, stored or stamped, have their signals in the table, and
\* the section has them too unless they are too old or it is full.
LEMMA ExportSignalsKeepsRequest ==
  ASSUME ExportInv, NEW r \in Requests, ExportSignals(r)
  PROVE  RequestOK(r)'
<1>1. /\ pc[r] = "signals" /\ pc'[r] = "alerts" /\ read'[r] = Exported(r, signals)
      /\ UNCHANGED <<now, signals, alerts, stage, draft, asked, answer>>
  BY DEF ExportSignals, Reads, Goto, ExportInv, tables, pipelineVars
<1>2. AskedOK(r) /\ answer[r] = None
  BY <1>1 DEF ExportInv, RequestOK
<1>3. ASSUME NEW x \in Raised, x.at <= Limit(r) PROVE Explained(r, Exported(r, signals), x)
  <2>1. Follows(x)
    BY DEF ExportInv, TablesInv
  <2>2. x.signal \in signals /\ x.signal.at \in Nat /\ x.signal.at < x.at /\ x.at \in Nat
    BY <2>1 DEF Follows, ExportInv, TablesInv, Past
  <2>3. CASE asked[r].from <= x.signal.at
    <3>1. asked[r].bounded => x.signal.at <= asked[r].to
      BY <1>2, <1>3, <2>2 DEF AskedOK, Limit
    <3>2. /\ IsFiniteSet(signals) /\ \A s \in signals : s.at \in Int
          /\ \A s, t \in signals : s.at = t.at => s = t
      BY DEF ExportInv, TablesInv, Past
    <3>3. \/ x.signal \in Exported(r, signals)
          \/ Cardinality(Exported(r, signals)) = MAX_EXPORT_ROWS
      BY <1>2, <2>2, <2>3, <3>1, <3>2, SectionFull DEF AskedOK, Exported
    <3>. QED BY <3>3 DEF Explained
  <2>4. CASE ~(asked[r].from <= x.signal.at)
    BY <1>2, <2>2, <2>4 DEF AskedOK, Explained
  <2>. QED BY <2>3, <2>4
<1>4. AskedOK(r)' /\ Raised' = Raised /\ Limit(r)' = Limit(r)
  BY <1>1, <1>2 DEF AskedOK, Raised, Limit
<1>5. \A x \in Raised' : x.at <= Limit(r)' => Explained(r, read[r], x)'
  BY <1>1, <1>3, <1>4 DEF Explained
<1>. QED BY <1>1, <1>2, <1>4, <1>5 DEF RequestOK, AnswerExplained

\* The alerts of a window are up to its end; if that is to come, or there is no
\* window, later alerts come too.
LEMMA ExportAlertsKeepsRequest ==
  ASSUME ExportInv, NEW r \in Requests, ExportAlerts(r)
  PROVE  RequestOK(r)'
<1>. DEFINE response == [kind |-> asked[r].kind, signals |-> read[r], alerts |-> Exported(r, alerts)]
<1>1. pc[r] = "alerts" /\ pc'[r] = "done" /\ answer'[r] = response /\ asked' = asked
  BY DEF ExportAlerts, Answer, Goto, ExportInv
<1>2. AskedOK(r) /\ \A x \in Raised : x.at <= Limit(r) => Explained(r, read[r], x)
  BY <1>1 DEF ExportInv, RequestOK
<1>3. ASSUME NEW x \in Exported(r, alerts)
      PROVE  \/ Explained(r, read[r], x)
             \/ (asked[r].kind = "bulk" \/ asked[r].to > asked[r].at) /\ x.at > asked[r].at
  <2>1. x \in alerts /\ (asked[r].bounded => x.at <= asked[r].to)
    BY DEF Exported, Section
  <2>2. x \in Raised /\ x.at \in Nat
    BY <2>1 DEF Raised, ExportInv, TablesInv, Follows, Past
  <2>3. CASE asked[r].bounded
    BY <1>2, <2>1, <2>2, <2>3 DEF AskedOK, Limit
  <2>4. CASE ~asked[r].bounded
    <3>1. asked[r].kind = "bulk" /\ Limit(r) = asked[r].at /\ asked[r].at \in Int
      BY <1>2, <2>4 DEF AskedOK, Limit
    <3>. QED BY <1>2, <2>2, <3>1
  <2>. QED BY <1>2, <2>3, <2>4 DEF AskedOK
<1>4. /\ response.kind = asked[r].kind /\ response.signals = read[r]
      /\ response.alerts = Exported(r, alerts)
  OBVIOUS
<1>. HIDE DEF response
<1>5. \A x \in answer'[r].alerts :
        \/ Explained(r, answer'[r].signals, x)
        \/ (answer'[r].kind = "bulk" \/ asked'[r].to > asked'[r].at) /\ x.at > asked'[r].at
  BY <1>1, <1>3, <1>4
<1>6. AnswerExplained(r)'
  BY <1>1, <1>5 DEF AnswerExplained, Explained
<1>. QED BY <1>1, <1>6 DEF RequestOK

LEMMA OtherStepsKeepRequest ==
  ASSUME ExportInv, NEW r \in Requests, AskBacktest(r) \/ Backtest(r) \/ ForecastStep(r)
  PROVE  RequestOK(r)'
<1>1. pc[r] # "done" => answer[r] = None
  BY DEF ExportInv, RequestOK
<1>2. CASE AskBacktest(r) \/ HasModel(r) \/ WantModel(r) \/ TakeLock(r) \/ Load(r)
  <2>1. pc[r] # "done" /\ answer' = answer
    BY <1>2 DEF AskBacktest, HasModel, WantModel, TakeLock, Load
  <2>2. pc'[r] \in {"prices", "infer", "lock", "load"}
    BY <1>2 DEF AskBacktest, HasModel, WantModel, TakeLock, Load, Goto, ExportInv
  <2>. QED BY <1>1, <2>1, <2>2, NoExport
<1>3. CASE Backtest(r)
  <2>1. PICK shown, outcome : Answer(r, [kind |-> "backtest", prices |-> shown, run |-> outcome])
    BY <1>3, Zenon DEF Backtest
  <2>2. pc'[r] = "done" /\ answer'[r] = [kind |-> "backtest", prices |-> shown, run |-> outcome]
    BY <2>1 DEF Answer, Goto, ExportInv
  <2>3. answer'[r].kind = "backtest"
    BY <2>2
  <2>. QED BY <2>2, <2>3, NoExport
<1>4. CASE LoadFails(r) \/ Infer(r) \/ InferenceFails(r)
  <2>1. pc'[r] = "done" /\ answer'[r].kind \in {"refused", "forecast"}
    BY <1>4 DEF LoadFails, Infer, InferenceFails, Answer, Goto, Refusal, Forecast, ExportInv
  <2>. QED BY <2>1, NoExport
<1>5. CASE AskForecast(r)
  <2>1. pc[r] = "new" /\ answer[r] = None
    BY <1>1, <1>5 DEF AskForecast
  <2>2. \/ pc'[r] = "done" /\ answer'[r].kind \in {"refused", "forecast"}
        \/ pc'[r] = "model" /\ answer' = answer
    BY <1>5 DEF AskForecast, Answer, Goto, Refusal, Forecast, ExportInv
  <2>. QED BY <2>1, <2>2, NoExport
<1>. QED BY <1>2, <1>3, <1>4, <1>5 DEF ForecastStep

\* A request changes its own state only, and no table.
LEMMA RequestFrame ==
  ASSUME ExportInv, NEW r \in Requests, Export(r) \/ ForecastStep(r)
  PROVE  /\ now' \in {now, now + 1} /\ UNCHANGED <<signals, alerts, stage, draft>>
         /\ pc' = [q \in Requests |-> pc'[q]] /\ asked' = [q \in Requests |-> asked'[q]]
         /\ read' = [q \in Requests |-> read'[q]] /\ answer' = [q \in Requests |-> answer'[q]]
         /\ \A q \in Requests \ {r} : /\ pc'[q] = pc[q] /\ asked'[q] = asked[q]
                                      /\ read'[q] = read[q] /\ answer'[q] = answer[q]
<1>1. CASE AskExport(r)
  BY <1>1 DEF AskExport, Tick, Goto, ExportInv, tables, pipelineVars
<1>2. CASE ExportSignals(r) \/ ExportAlerts(r)
  BY <1>2 DEF ExportSignals, ExportAlerts, Reads, Answer, Goto, ExportInv, tables, pipelineVars
<1>3. CASE AskBacktest(r)
  <2>1. \E rows, how : Reads(r, rows) /\ asked' = [asked EXCEPT ![r] = how]
    BY <1>3, Zenon DEF AskBacktest
  <2>2. Goto(r, "prices") /\ UNCHANGED <<now, tables, pipelineVars, answer>>
    BY <1>3 DEF AskBacktest
  <2>. QED BY <2>1, <2>2 DEF Reads, Goto, ExportInv, tables, pipelineVars
<1>4. CASE Backtest(r)
  <2>1. \E response : Answer(r, response)
    BY <1>4, Zenon DEF Backtest
  <2>2. UNCHANGED <<now, tables, pipelineVars, asked, read>>
    BY <1>4 DEF Backtest
  <2>. QED BY <2>1, <2>2 DEF Answer, Goto, ExportInv, tables, pipelineVars
<1>5. CASE AskForecast(r)
  <2>1. \E rows : read' \in {read, [read EXCEPT ![r] = rows]}
    BY <1>5 DEF AskForecast, Reads
  <2>2. \E response, place : /\ answer' \in {answer, [answer EXCEPT ![r] = response]}
                             /\ pc' = [pc EXCEPT ![r] = place]
    BY <1>5 DEF AskForecast, Answer, Goto
  <2>3. UNCHANGED forecastFrame
    BY <1>5 DEF AskForecast
  <2>. QED BY <2>1, <2>2, <2>3 DEF forecastFrame, ExportInv, tables, pipelineVars
<1>6. CASE HasModel(r) \/ WantModel(r) \/ TakeLock(r) \/ Load(r)
  <2>1. UNCHANGED <<forecastFrame, read, answer>> /\ \E place : pc' = [pc EXCEPT ![r] = place]
    BY <1>6 DEF HasModel, WantModel, TakeLock, Load, Goto
  <2>. QED BY <2>1 DEF forecastFrame, ExportInv, tables, pipelineVars
<1>7. CASE LoadFails(r) \/ Infer(r) \/ InferenceFails(r)
  <2>1. UNCHANGED <<forecastFrame, read>> /\ \E response : Answer(r, response)
    BY <1>7 DEF LoadFails, Infer, InferenceFails
  <2>. QED BY <2>1 DEF forecastFrame, Answer, Goto, ExportInv, tables, pipelineVars
<1>. QED BY <1>1, <1>2, <1>3, <1>4, <1>5, <1>6, <1>7 DEF Export, ForecastStep

LEMMA RequestKeepsExportInv ==
  ASSUME ExportInv, NEW r \in Requests, Export(r) \/ ForecastStep(r)
  PROVE  ExportInv'
<1>1. RequestOK(r)'
  BY AskExportKeepsRequest, ExportSignalsKeepsRequest, ExportAlertsKeepsRequest,
     OtherStepsKeepRequest DEF Export
<1>2. TablesInv' /\ Raised' = Raised
  BY RequestFrame, TimeKeepsTables DEF ExportInv
<1>3. ASSUME NEW q \in Requests \ {r} PROVE RequestOK(q)'
  BY <1>2, RequestFrame, ElsewhereKeepsRequest DEF ExportInv
<1>. QED BY <1>1, <1>2, <1>3, RequestFrame DEF ExportInv

LEMMA NextKeepsExportInv == ExportInv /\ [Next]_vars => ExportInv'
<1>. SUFFICES ASSUME ExportInv, [Next]_vars PROVE ExportInv'
  OBVIOUS
<1>1. CASE \E r \in Requests : Export(r) \/ ForecastStep(r)
  BY <1>1, RequestKeepsExportInv
<1>2. CASE ~\E r \in Requests : Export(r) \/ ForecastStep(r)
  <2>1. UNCHANGED requestVars
    BY <1>2 DEF Next, vars, Pipeline, StampSignal, InsertSignal, StampAlert, InsertAlert, NoAlert,
                EndRun, StorePrice
  <2>2. /\ TablesInv' /\ now' \in {now, now + 1}
        /\ \A x \in Raised' : x \in Raised \/ x.at = now + 1
    <3>1. CASE \E p \in Pipelines : StampSignal(p)
      BY <3>1, StampSignalKeepsTables DEF StampSignal, Tick, ExportInv
    <3>2. CASE \E p \in Pipelines : InsertSignal(p)
      BY <3>2, InsertSignalKeepsTables DEF InsertSignal, ExportInv
    <3>3. CASE \E p \in Pipelines : StampAlert(p)
      BY <3>3, StampAlertKeepsTables DEF ExportInv
    <3>4. CASE \E p \in Pipelines : InsertAlert(p) \/ NoAlert(p)
      BY <3>4, EndRunKeepsTables DEF ExportInv
    <3>5. CASE StorePrice \/ UNCHANGED vars
      <4>1. now' \in {now, now + 1} /\ UNCHANGED <<signals, alerts, stage, draft>>
        BY <3>5 DEF StorePrice, Tick, pipelineVars, vars, tables
      <4>. QED BY <4>1, TimeKeepsTables DEF ExportInv
    <3>. QED BY <1>2, <3>1, <3>2, <3>3, <3>4, <3>5 DEF Next, Pipeline
  <2>3. ASSUME NEW r \in Requests PROVE RequestOK(r)'
    BY <2>1, <2>2, ElsewhereKeepsRequest DEF requestVars, ExportInv
  <2>. QED BY <2>1, <2>2, <2>3 DEF requestVars, ExportInv
<1>. QED BY <1>1, <1>2

\* An export reads its signals and then its alerts while the pipeline stores both,
\* and shows no alert without the signal it was raised on, wherever its window
\* begins and ends.  If it has no window, or one that ends after the request, that
\* is so of the alerts raised up to the request, and of later ones it need not be.
THEOREM AlertsExplained == Spec => []ExportExplained
<1>1. ExportInv => ExportExplained
  BY Zenon DEF ExportInv, RequestOK, AnswerExplained, Explained, ExportExplained
<1>. QED BY <1>1, InitExportInv, NextKeepsExportInv, PTL DEF Spec

-----------------------------------------------------------------------------
(* Forecasts.                                                               *)

\* A history that is long enough, of prices that are stored.
Enough(history) == history \subseteq prices /\ Cardinality(history) >= MinHistory

\* A forecast, from the cache or not, is of a history that was long enough.
ForecastsFounded ==
  \A r \in Requests : answer[r] # None /\ answer[r].kind = "forecast" => Enough(answer[r].history)

\* A request that goes on to the model has read enough, and so had whoever filled
\* the cache.
ForecastOK(r) ==
  /\ pc[r] \in {"model", "lock", "load", "infer"} => Enough(read[r])
  /\ pc[r] # "done" => answer[r] = None
  /\ answer[r] # None /\ answer[r].kind = "forecast" => Enough(answer[r].history)

ForecastInv ==
  /\ pc = [r \in Requests |-> pc[r]] /\ read = [r \in Requests |-> read[r]]
  /\ answer = [r \in Requests |-> answer[r]]
  /\ IsFiniteSet(prices)
  /\ cache # None => Enough(cache.history)
  /\ \A r \in Requests : ForecastOK(r)

\* Prices are only added to.
LEMMA OthersKeepForecast ==
  ASSUME prices \subseteq prices', NEW r \in Requests, ForecastOK(r),
         pc'[r] = pc[r], read'[r] = read[r], answer'[r] = answer[r]
  PROVE  ForecastOK(r)'
<1>1. \A history : Enough(history) => Enough(history)'
  BY DEF Enough
<1>. QED BY <1>1 DEF ForecastOK

\* A forecast is made, or taken from the cache, of a history that is long enough.
LEMMA ForecastStepKeepsInv ==
  ASSUME ForecastInv, NEW r \in Requests, ForecastStep(r)
  PROVE  ForecastInv'
<1>1. prices' = prices /\ \A history : Enough(history)' <=> Enough(history)
  BY DEF ForecastStep, AskForecast, HasModel, WantModel, TakeLock, Load, LoadFails, Infer,
         InferenceFails, forecastFrame, tables, Enough
<1>2. pc[r] # "done" /\ answer[r] = None
  BY DEF ForecastStep, AskForecast, HasModel, WantModel, TakeLock, Load, LoadFails, Infer,
         InferenceFails, ForecastInv, ForecastOK
<1>. DEFINE Frame == /\ pc' = [q \in Requests |-> pc'[q]] /\ read' = [q \in Requests |-> read'[q]]
                     /\ answer' = [q \in Requests |-> answer'[q]]
                     /\ \A q \in Requests \ {r} : /\ pc'[q] = pc[q] /\ read'[q] = read[q]
                                                  /\ answer'[q] = answer[q]
<1>3. SUFFICES Frame /\ ForecastOK(r)' /\ (cache' # None => Enough(cache'.history))
  <2>. SUFFICES ASSUME Frame, ForecastOK(r)', cache' # None => Enough(cache'.history)
                PROVE  ForecastInv'
    OBVIOUS
  <2>1. \A q \in Requests \ {r} : ForecastOK(q)'
    BY <1>1, OthersKeepForecast DEF ForecastInv
  <2>. QED BY <1>1, <2>1 DEF ForecastInv
<1>4. CASE AskForecast(r)
  <2>1. UNCHANGED cache
    BY <1>4 DEF AskForecast, modelVars
  <2>2. CASE cache # None /\ now < cache.expires
    <3>1. /\ pc' = [pc EXCEPT ![r] = "done"] /\ read' = read
          /\ answer' = [answer EXCEPT ![r] = Forecast(cache.history)]
      BY <1>4, <2>2 DEF AskForecast, Answer, Goto
    <3>2. Forecast(cache.history).history = cache.history
      BY DEF Forecast
    <3>. QED BY <1>1, <2>1, <2>2, <3>1, <3>2 DEF ForecastInv, ForecastOK
  <2>3. CASE ~(cache # None /\ now < cache.expires)
    <3>. DEFINE own == Of(prices, Subject)
    <3>1. read' = [read EXCEPT ![r] = own]
      BY <1>4, <2>3 DEF AskForecast, Reads
    <3>2. own \subseteq prices
      BY DEF Of
    <3>3. CASE Cardinality(own) < MinHistory
      <4>1. /\ pc' = [pc EXCEPT ![r] = "done"]
            /\ answer' = [answer EXCEPT ![r] = Refusal("INSUFFICIENT_HISTORY")]
        BY <1>4, <2>3, <3>3 DEF AskForecast, Answer, Goto
      <4>2. Refusal("INSUFFICIENT_HISTORY").kind # "forecast"
        BY DEF Refusal
      <4>. QED BY <1>1, <2>1, <3>1, <4>1, <4>2 DEF ForecastInv, ForecastOK
    <3>4. CASE ~(Cardinality(own) < MinHistory)
      <4>1. pc' = [pc EXCEPT ![r] = "model"] /\ answer' = answer
        BY <1>4, <2>3, <3>4 DEF AskForecast, Goto
      <4>2. Enough(own)
        <5>1. IsFiniteSet(own)
          BY <3>2, FS_Subset DEF ForecastInv
        <5>2. Cardinality(own) \in Nat
          BY <5>1, FS_CardinalityType
        <5>. QED BY <3>2, <3>4, <5>2, BoundsAssumption DEF Enough
      <4>. HIDE DEF own
      <4>. QED BY <1>1, <1>2, <2>1, <3>1, <4>1, <4>2 DEF ForecastInv, ForecastOK
    <3>. QED BY <3>3, <3>4
  <2>. QED BY <2>2, <2>3
<1>5. CASE HasModel(r) \/ WantModel(r) \/ TakeLock(r) \/ Load(r)
  <2>1. /\ UNCHANGED <<read, answer, cache>> /\ pc[r] \in {"model", "lock", "load"}
        /\ \E place \in {"infer", "lock", "load"} : pc' = [pc EXCEPT ![r] = place]
    BY <1>5 DEF HasModel, WantModel, TakeLock, Load, Goto, modelVars
  <2>. QED BY <1>1, <1>2, <2>1 DEF ForecastInv, ForecastOK
<1>6. CASE Infer(r)
  <2>1. /\ pc[r] = "infer" /\ pc' = [pc EXCEPT ![r] = "done"] /\ read' = read
        /\ answer' = [answer EXCEPT ![r] = Forecast(read[r])] /\ cache'.history = read[r]
    BY <1>6 DEF Infer, Answer, Goto
  <2>2. Forecast(read[r]).history = read[r] /\ Enough(read[r])
    BY <2>1 DEF Forecast, ForecastInv, ForecastOK
  <2>. QED BY <1>1, <2>1, <2>2 DEF ForecastInv, ForecastOK
<1>7. CASE LoadFails(r) \/ InferenceFails(r)
  <2>1. /\ pc' = [pc EXCEPT ![r] = "done"] /\ UNCHANGED <<read, cache>>
        /\ \E code : answer' = [answer EXCEPT ![r] = Refusal(code)]
    BY <1>7 DEF LoadFails, InferenceFails, Answer, Goto, modelVars
  <2>2. \A code : Refusal(code).kind # "forecast"
    BY DEF Refusal
  <2>. QED BY <1>1, <2>1, <2>2 DEF ForecastInv, ForecastOK
<1>. QED BY <1>4, <1>5, <1>6, <1>7 DEF ForecastStep

LEMMA NextKeepsForecastInv == ExportInv /\ ForecastInv /\ [Next]_vars => ForecastInv'
<1>. SUFFICES ASSUME ExportInv, ForecastInv, [Next]_vars PROVE ForecastInv'
  OBVIOUS
<1>1. CASE \E r \in Requests : ForecastStep(r)
  BY <1>1, ForecastStepKeepsInv
<1>2. CASE \E r \in Requests : Export(r)
  <2>1. PICK r \in Requests : Export(r)
    BY <1>2
  <2>2. /\ UNCHANGED <<prices, cache>>
        /\ pc'[r] \in {"signals", "alerts", "prices", "done"} /\ pc[r] # "done"
        /\ pc'[r] = "done" \/ answer' = answer
    BY <2>1 DEF Export, AskExport, ExportSignals, ExportAlerts, AskBacktest, Backtest, Goto, Answer,
                ExportInv, tables, modelVars
  <2>3. pc'[r] = "done" => answer'[r].kind # "forecast"
    <3>1. CASE ExportAlerts(r)
      <4>1. answer'[r].kind = asked[r].kind /\ AskedOK(r)
        BY <3>1 DEF ExportAlerts, Answer, ExportInv, RequestOK
      <4>. QED BY <4>1 DEF AskedOK
    <3>2. CASE Backtest(r)
      <4>1. PICK shown, outcome : Answer(r, [kind |-> "backtest", prices |-> shown, run |-> outcome])
        BY <3>2, Zenon DEF Backtest
      <4>2. answer'[r] = [kind |-> "backtest", prices |-> shown, run |-> outcome]
        BY <4>1 DEF Answer, ExportInv
      <4>. QED BY <4>2
    <3>3. CASE AskExport(r) \/ ExportSignals(r) \/ AskBacktest(r)
      BY <3>3 DEF AskExport, ExportSignals, AskBacktest, Goto, ExportInv
    <3>. QED BY <2>1, <3>1, <3>2, <3>3 DEF Export
  <2>4. ForecastOK(r)'
    BY <2>2, <2>3 DEF ForecastInv, ForecastOK
  <2>5. \A q \in Requests \ {r} : ForecastOK(q)'
    BY <2>1, <2>2, RequestFrame, OthersKeepForecast DEF ForecastInv
  <2>. QED BY <2>1, <2>2, <2>4, <2>5, RequestFrame DEF ForecastInv, Enough
<1>3. CASE ~\E r \in Requests : Export(r) \/ ForecastStep(r)
  <2>1. /\ UNCHANGED <<pc, read, answer, cache>>
        /\ prices' = prices \/ \E row : prices' = prices \union {row}
    BY <1>3 DEF Next, vars, Pipeline, StampSignal, InsertSignal, StampAlert, InsertAlert, NoAlert,
                EndRun, StorePrice, requestVars, modelVars, tables
  <2>2. \A history : Enough(history) => Enough(history)'
    BY <2>1 DEF Enough
  <2>3. IsFiniteSet(prices)'
    BY <2>1, FS_AddElement DEF ForecastInv
  <2>. QED BY <2>1, <2>2, <2>3, OthersKeepForecast DEF ForecastInv
<1>. QED BY <1>1, <1>2, <1>3

\* VolumeForecastView refuses a short history, and so every forecast, also one
\* served from the cache or after waiting for the model, is of a long one.
THEOREM LongHistories == Spec => []ForecastsFounded
<1>1. Init => ForecastInv
  BY HistoriesAssumption DEF Init, ForecastInv, ForecastOK
<1>2. ForecastInv => ForecastsFounded
  BY DEF ForecastInv, ForecastOK, ForecastsFounded
<1>. QED BY <1>1, <1>2, InitExportInv, NextKeepsExportInv, NextKeepsForecastInv, PTL DEF Spec

-----------------------------------------------------------------------------
(* Recursion and folds.                                                     *)

\* A set of naturals that is not empty has a least member.
LEMMA Least ==
  ASSUME NEW S, S \subseteq Nat, S # {}
  PROVE  \E least \in S : \A x \in S : least <= x
<1>. DEFINE Below == {pair \in Nat \X Nat : pair[1] < pair[2]}
<1>1. IsWellFoundedOn(Below, Nat)
  BY NatLessThanWellFounded DEF OpToRel
<1>2. PICK least \in S : \A x \in S : ~(<<x, least>> \in Below)
  <2>. HIDE DEF Below
  <2>. QED BY <1>1, WFMin
<1>3. \A x, y \in Nat : x < y => <<x, y>> \in Below
  OBVIOUS
<1>. HIDE DEF Below
<1>4. \A x \in S : ~(x < least)
  BY <1>2, <1>3
<1>. QED BY <1>4

\* Induction over the naturals, by the least counterexample.
LEMMA Induction ==
  ASSUME NEW S, 0 \in S, \A n \in Nat : n \in S => n + 1 \in S
  PROVE  \A n \in Nat : n \in S
<1>. SUFFICES ASSUME NEW m \in Nat, m \notin S PROVE FALSE
  OBVIOUS
<1>1. PICK n \in Nat \ S : \A x \in Nat \ S : n <= x
  <2>1. Nat \ S \subseteq Nat /\ Nat \ S # {}
    OBVIOUS
  <2>. QED BY <2>1, Least
<1>2. n # 0 /\ n - 1 \in Nat
  BY <1>1
<1>3. n - 1 \in S
  BY <1>1, <1>2
<1>. QED BY <1>2, <1>3, <1>1

\* pick names a member of every subset of D, g maps a member and a value to a
\* value, and f takes the members of a set away one after the other, as pick says.
Picks(pick, D) == \A S \in SUBSET D : S # {} => pick[S] \in S
Maps(g, D, X) == \A d \in D, x \in X : g[<<d, x>>] \in X
Folds(f, D, pick, base, g) ==
  \A S \in SUBSET D : f[S] = IF S = {} THEN base ELSE g[<<pick[S], f[S \ {pick[S]}]>>]

\* A function can be defined on the subsets of a finite set by taking away one
\* member after the other.
LEMMA RecursionExists ==
  ASSUME NEW D, IsFiniteSet(D), NEW pick, Picks(pick, D),
         NEW X, NEW base \in X, NEW g, Maps(g, D, X)
  PROVE  \E f \in [SUBSET D -> X] : Folds(f, D, pick, base, g)
<1>. DEFINE Rec(f, S) == f[S] = IF S = {} THEN base ELSE g[<<pick[S], f[S \ {pick[S]}]>>]
            Upto(n, f) == \A S \in SUBSET D : Cardinality(S) <= n => Rec(f, S)
            Have == {n \in Nat : \E f \in [SUBSET D -> X] : Upto(n, f)}
<1>1. \A S \in SUBSET D : /\ IsFiniteSet(S) /\ Cardinality(S) \in Nat
                          /\ Cardinality(S) <= Cardinality(D) /\ Cardinality(D) \in Nat
  BY FS_Subset, FS_CardinalityType
<1>2. \A S \in SUBSET D : S # {} => Cardinality(S \ {pick[S]}) = Cardinality(S) - 1
  BY <1>1, FS_RemoveElement DEF Picks
<1>3. 0 \in Have
  <2>. DEFINE f == [S \in SUBSET D |-> base]
  <2>1. f \in [SUBSET D -> X]
    OBVIOUS
  <2>2. ASSUME NEW S \in SUBSET D, Cardinality(S) <= 0 PROVE S = {}
    <3>1. IsFiniteSet(S) /\ Cardinality(S) = 0
      BY <1>1, <2>2
    <3>. QED BY <3>1, FS_EmptySet
  <2>3. Upto(0, f)
    BY <2>2
  <2>. QED BY <2>1, <2>3
<1>4. ASSUME NEW n \in Nat, n \in Have PROVE n + 1 \in Have
  <2>1. PICK f \in [SUBSET D -> X] : Upto(n, f)
    BY <1>4
  <2>. DEFINE h == [S \in SUBSET D |-> IF S = {} THEN base ELSE g[<<pick[S], f[S \ {pick[S]}]>>]]
  <2>2. \A S \in SUBSET D : S # {} => pick[S] \in D /\ S \ {pick[S]} \in SUBSET D
    BY DEF Picks
  <2>3. h \in [SUBSET D -> X]
    BY <2>2 DEF Maps
  <2>4. ASSUME NEW S \in SUBSET D, Cardinality(S) <= n PROVE h[S] = f[S]
    <3>1. Rec(f, S)
      BY <2>1, <2>4
    <3>. QED BY <3>1
  <2>5. ASSUME NEW S \in SUBSET D, Cardinality(S) <= n + 1 PROVE Rec(h, S)
    <3>1. CASE S = {}
      BY <3>1
    <3>2. CASE S # {}
      <4>1. Cardinality(S \ {pick[S]}) = Cardinality(S) - 1 /\ Cardinality(S) \in Nat
        BY <1>1, <1>2, <3>2
      <4>2. S \ {pick[S]} \in SUBSET D /\ Cardinality(S \ {pick[S]}) <= n
        BY <2>5, <4>1
      <4>3. h[S \ {pick[S]}] = f[S \ {pick[S]}]
        BY <2>4, <4>2
      <4>4. h[S] = g[<<pick[S], f[S \ {pick[S]}]>>]
        BY <3>2
      <4>. HIDE DEF h
      <4>. QED BY <3>2, <4>3, <4>4
    <3>. QED BY <3>1, <3>2
  <2>6. Upto(n + 1, h)
    <3>. HIDE DEF Rec, h
    <3>. QED BY <2>5
  <2>. HIDE DEF Upto, h
  <2>7. (\E f1 \in [SUBSET D -> X] : Upto(n + 1, f1)) /\ n + 1 \in Nat
    BY <2>3, <2>6
  <2>. QED BY <2>7
<1>5. \A n \in Nat : n \in Have => n + 1 \in Have
  BY <1>4
<1>. HIDE DEF Have
<1>6. Cardinality(D) \in Have
  BY <1>1, <1>3, <1>5, Induction
<1>7. PICK f \in [SUBSET D -> X] : Upto(Cardinality(D), f)
  <2>. HIDE DEF Upto
  <2>. QED BY <1>6 DEF Have
<1>. QED BY <1>1, <1>7 DEF Folds

\* The largest member of a set of positions.
LEMMA MaxOf ==
  ASSUME NEW n \in Nat, NEW s \in SUBSET (1..n), s # {}
  PROVE  Max(s) \in s /\ \A x \in s : x <= Max(s)
<1>. DEFINE T == {n - x : x \in s}
<1>1. T \subseteq Nat /\ T # {}
  <2>1. \A x \in s : n - x \in Nat
    OBVIOUS
  <2>. QED BY <2>1
<1>2. PICK t \in T : \A x \in T : t <= x
  BY <1>1, Least
<1>3. PICK m \in s : t = n - m
  BY <1>2
<1>4. \A x \in s : m >= x
  <2>1. \A x \in s : n - m <= n - x /\ x \in Int
    BY <1>2, <1>3
  <2>. HIDE DEF T
  <2>. QED BY <1>3, <2>1
<1>5. \E y \in s : \A x \in s : y >= x
  BY <1>4
<1>6. Max(s) \in s /\ \A x \in s : Max(s) >= x
  <2>. HIDE DEF T
  <2>. QED BY <1>5, Zenon DEF Max
<1>7. s \subseteq Int
  OBVIOUS
<1>. QED BY <1>6, <1>7

\* What FoldLeft takes away first from the first i positions.
LEMMA LastPosition ==
  ASSUME NEW n \in Nat, NEW i \in 1..n
  PROVE  /\ 1..i \in SUBSET (1..n) /\ 1..i # {} /\ Max(1..i) = i
         /\ (1..i) \ {i} = 1..(i - 1) /\ i - 1 \in 0..n
<1>1. 1..i \in SUBSET (1..n) /\ 1..i # {} /\ i \in 1..i
  OBVIOUS
<1>2. Max(1..i) \in 1..i /\ i <= Max(1..i)
  BY <1>1, MaxOf
<1>3. \A x \in 1..i : i <= x => x = i
  OBVIOUS
<1>4. Max(1..i) = i
  BY <1>2, <1>3
<1>. QED BY <1>1, <1>4

\* f takes away the last of n positions first.
FoldsUp(f, n, base, g) ==
  \A S \in SUBSET (1..n) : f[S] = IF S = {} THEN base ELSE g[<<Max(S), f[S \ {Max(S)}]>>]

\* A fold over positions is a function that RecursionExists gives.
LEMMA FoldExists ==
  ASSUME NEW n \in Nat, NEW X, NEW base \in X, NEW g, Maps(g, 1..n, X)
  PROVE  \E f \in [SUBSET (1..n) -> X] : FoldsUp(f, n, base, g)
<1>. DEFINE D == 1..n
            pick == [S \in SUBSET D |-> Max(S)]
<1>1. \A S \in SUBSET D : pick[S] = Max(S)
  OBVIOUS
<1>2. Picks(pick, D)
  BY <1>1, MaxOf DEF Picks
<1>3. IsFiniteSet(D) /\ Maps(g, D, X)
  BY FS_Interval, 1 \in Int, n \in Int
<1>. HIDE DEF pick, D
<1>4. PICK f \in [SUBSET D -> X] : Folds(f, D, pick, base, g)
  BY <1>2, <1>3, RecursionExists
<1>5. \A S \in SUBSET D : f[S] = IF S = {} THEN base ELSE g[<<pick[S], f[S \ {pick[S]}]>>]
  BY <1>4 DEF Folds
<1>6. \A S \in SUBSET D : f[S] = IF S = {} THEN base ELSE g[<<Max(S), f[S \ {Max(S)}]>>]
  BY <1>1, <1>5, Zenon
<1>. QED BY <1>4, <1>6 DEF D, FoldsUp

\* What holds at the start and is kept by every step holds at the end.
LEMMA Steps ==
  ASSUME NEW n \in Nat, NEW q, NEW X, q[0] \in X,
         \A i \in 1..n : q[i - 1] \in X => q[i] \in X
  PROVE  \A i \in 0..n : q[i] \in X
<1>. DEFINE Have == {i \in Nat : i <= n => q[i] \in X}
<1>1. 0 \in Have
  OBVIOUS
<1>2. ASSUME NEW i \in Nat, i \in Have, i + 1 <= n PROVE q[i + 1] \in X
  <2>1. q[i] \in X /\ i + 1 \in 1..n /\ (i + 1) - 1 = i
    BY <1>2
  <2>. QED BY <2>1
<1>3. \A i \in Nat : i \in Have => i + 1 \in Have
  BY <1>2
<1>. HIDE DEF Have
<1>4. \A i \in Nat : i \in Have
  BY <1>1, <1>3, Induction
<1>. QED BY <1>4 DEF Have

-----------------------------------------------------------------------------
(* Rows in order, and fractions.                                            *)

\* Earliest is a row of the table, and no other is earlier.
LEMMA EarliestIn ==
  ASSUME NEW rows, rows # {}, \A r \in rows : r.at \in Nat
  PROVE  Earliest(rows) \in rows
<1>1. {r.at : r \in rows} \subseteq Nat /\ {r.at : r \in rows} # {}
  OBVIOUS
<1>2. PICK t \in {r.at : r \in rows} : \A x \in {r.at : r \in rows} : t <= x
  BY <1>1, Least
<1>3. PICK r \in rows : r.at = t
  BY <1>2
<1>4. \A x \in rows : r.at <= x.at
  BY <1>2, <1>3
<1>. QED BY <1>3, <1>4, Zenon DEF Earliest

\* A finite table can be put in order: Ordered lists rows of it, and some row
\* unless it is empty.
LEMMA OrderedType ==
  ASSUME NEW rows, IsFiniteSet(rows), \A r \in rows : r.at \in Nat
  PROVE  Ordered(rows) \in Seq(rows) /\ (rows # {} => Len(Ordered(rows)) > 0)
<1>. DEFINE F(f) == [S \in SUBSET rows |->
                       IF S = {} THEN <<>> ELSE <<Earliest(S)>> \o f[S \ {Earliest(S)}]]
            L == CHOOSE f : f = F(f)
            pick == [S \in SUBSET rows |-> Earliest(S)]
            g == [p \in rows \X Seq(rows) |-> <<p[1]>> \o p[2]]
<1>1. \A S \in SUBSET rows : S # {} => Earliest(S) \in S
  BY EarliestIn
<1>2. \A S \in SUBSET rows : pick[S] = Earliest(S)
  OBVIOUS
<1>3. \A d \in rows, x \in Seq(rows) : g[<<d, x>>] = <<d>> \o x
  OBVIOUS
<1>4. \A d \in rows, x \in Seq(rows) : <<d>> \o x \in Seq(rows) /\ Len(<<d>> \o x) > 0
  OBVIOUS
<1>. HIDE DEF pick, g
<1>5. /\ <<>> \in Seq(rows) /\ Picks(pick, rows)
      /\ Maps(g, rows, Seq(rows))
  <2>1. <<>> \in Seq(rows)
    OBVIOUS
  <2>2. Picks(pick, rows)
    BY <1>1, <1>2 DEF Picks
  <2>3. Maps(g, rows, Seq(rows))
    BY <1>3, <1>4, Zenon DEF Maps
  <2>. QED BY <2>1, <2>2, <2>3
<1>6. PICK f \in [SUBSET rows -> Seq(rows)] : Folds(f, rows, pick, <<>>, g)
  BY <1>5, RecursionExists
<1>7. ASSUME NEW S \in SUBSET rows
      PROVE  f[S] = IF S = {} THEN <<>> ELSE <<Earliest(S)>> \o f[S \ {Earliest(S)}]
  <2>1. CASE S = {}
    BY <1>6, <2>1 DEF Folds
  <2>2. CASE S # {}
    <3>1. Earliest(S) \in rows /\ f[S \ {Earliest(S)}] \in Seq(rows)
      BY <1>1, <1>6, <2>2
    <3>2. f[S] = g[<<Earliest(S), f[S \ {Earliest(S)}]>>]
      BY <1>2, <1>6, <2>2 DEF Folds
    <3>. QED BY <1>3, <2>2, <3>1, <3>2
  <2>. QED BY <2>1, <2>2
<1>8. f = F(f)
  <2>1. F(f) = [S \in SUBSET rows |-> f[S]]
    BY <1>7
  <2>. HIDE DEF F
  <2>. QED BY <1>6, <2>1
<1>9. L = F(L)
  <2>. HIDE DEF F
  <2>. QED BY <1>8
<1>10. Ordered(rows) = L[rows]
  BY DEF Ordered
<1>11. \A S \in SUBSET rows : F(L)[S] = IF S = {} THEN <<>> ELSE <<Earliest(S)>> \o L[S \ {Earliest(S)}]
  <2>. HIDE DEF L
  <2>. QED OBVIOUS
<1>. HIDE DEF F
<1>12. \A S \in SUBSET rows : L[S] = IF S = {} THEN <<>> ELSE <<Earliest(S)>> \o L[S \ {Earliest(S)}]
  <2>. HIDE DEF L
  <2>. QED BY <1>9, <1>11
<1>. HIDE DEF L
<1>. DEFINE G == {S \in SUBSET rows : L[S] \in Seq(rows)}
<1>13. ASSUME NEW S \in SUBSET rows, \A U \in SUBSET S : U # S => U \in G
       PROVE  L[S] \in Seq(rows)
  <2>1. CASE S = {}
    <3>1. L[S] = <<>>
      BY <1>12, <2>1
    <3>. QED BY <1>5, <3>1
  <2>2. CASE S # {}
    <3>1. Earliest(S) \in S /\ Earliest(S) \in rows
      BY <1>1, <2>2
    <3>2. S \ {Earliest(S)} \in G
      BY <1>13, <3>1
    <3>3. L[S \ {Earliest(S)}] \in Seq(rows)
      BY <3>2
    <3>4. <<Earliest(S)>> \o L[S \ {Earliest(S)}] \in Seq(rows)
      BY <1>4, <3>1, <3>3
    <3>. QED BY <1>12, <2>2, <3>4
  <2>. QED BY <2>1, <2>2
<1>14. \A S \in SUBSET rows : (\A U \in SUBSET S : U # S => U \in G) => S \in G
  BY <1>13
<1>. HIDE DEF G
<1>15. \A S \in SUBSET rows : S \in G
  BY <1>14, SetInduction
<1>16. \A S \in SUBSET rows : L[S] \in Seq(rows)
  BY <1>15 DEF G
<1>17. rows # {} => Len(L[rows]) > 0
  BY <1>1, <1>4, <1>12, <1>16
<1>. QED BY <1>10, <1>16, <1>17

\* Fractions that are not negative, and those that are positive.
Amounts == Nat \X (Nat \ {0})
Positive == (Nat \ {0}) \X (Nat \ {0})

\* Products of positive integers.
LEMMA ProductPositive ==
  ASSUME NEW a \in Nat \ {0}, NEW b \in Nat \ {0}
  PROVE  a * b \in Nat \ {0}
OBVIOUS

\* Products of positive fractions.
LEMMA TimesPositive ==
  ASSUME NEW a \in Positive, NEW b \in Positive
  PROVE  Times(a, b) \in Positive
<1>1. a[1] * b[1] \in Nat \ {0} /\ a[2] * b[2] \in Nat \ {0}
  BY ProductPositive DEF Positive
<1>. QED BY <1>1 DEF Times, Positive

\* Adding nothing.
LEMMA PlusZero ==
  ASSUME NEW a \in Ratios
  PROVE  Plus(a, Whole(0)) = a /\ Plus(Whole(0), a) = a
<1>1. a = <<a[1], a[2]>> /\ a[1] \in Int /\ a[2] \in Nat \ {0}
  BY DEF Ratios
<1>2. \A x \in Int : x % 1 = 0 /\ x \div 1 = x
  OBVIOUS
<1>3. Plus(a, Whole(0)) = <<a[1] + 0 * (a[2] \div 1), a[2]>>
  BY <1>1, <1>2 DEF Plus, Whole
<1>4. Plus(Whole(0), a) = a
  <2>1. CASE 1 % a[2] = 0
    <3>1. a[2] = 1
      BY <1>1, <2>1
    <3>2. Plus(Whole(0), a) = <<0 + a[1] * (1 \div 1), 1>>
      BY <1>2, <3>1 DEF Plus, Whole
    <3>. QED BY <1>1, <1>2, <3>1, <3>2
  <2>2. CASE 1 % a[2] # 0
    <3>1. Plus(Whole(0), a) = <<0 * (a[2] \div 1) + a[1], a[2]>>
      BY <1>1, <1>2, <2>2 DEF Plus, Whole
    <3>. QED BY <1>1, <1>2, <3>1
  <2>. QED BY <2>1, <2>2
<1>. QED BY <1>1, <1>2, <1>3, <1>4

\* Subtracting one.
LEMMA MinusOne ==
  ASSUME NEW a \in Ratios
  PROVE  Minus(a, Whole(1)) = <<a[1] - a[2], a[2]>>
<1>1. a[1] \in Int /\ a[2] \in Nat \ {0}
  BY DEF Ratios
<1>2. \A x \in Int : x % 1 = 0 /\ x \div 1 = x
  OBVIOUS
<1>3. Times(<<-1, 1>>, Whole(1)) = <<-1, 1>>
  BY DEF Times, Whole
<1>4. Minus(a, Whole(1)) = <<a[1] + (-1) * (a[2] \div 1), a[2]>>
  BY <1>1, <1>2, <1>3 DEF Minus, Plus
<1>. QED BY <1>1, <1>2, <1>4

-----------------------------------------------------------------------------
(* The walk of a backtest.                                                  *)

\* Rows of prices, in any order.
Priced(rows) == \A r \in rows : r.at \in Nat /\ r.price \in Nat \ {0}

\* The price of the k-th row is that of a signal at this time.
Fits(seq, k, at) == seq[k].at >= at \/ (k = Len(seq) /\ seq[k].at < at)

\* A signal is traded at a price not before it, or the last one.
LEMMA PriceFits ==
  ASSUME NEW rows, Priced(rows), NEW seq \in Seq(rows), NEW from \in 1..Len(seq), NEW at \in Nat
  PROVE  PriceIndex(seq, from, at) \in 1..Len(seq) /\ Fits(seq, PriceIndex(seq, from, at), at)
<1>. DEFINE later == {i \in from..Len(seq) : seq[i].at >= at}
<1>1. Len(seq) \in Nat /\ \A i \in 1..Len(seq) : seq[i] \in rows
  OBVIOUS
<1>2. \A i \in 1..Len(seq) : seq[i].at \in Nat
  BY <1>1 DEF Priced
<1>3. CASE later = {}
  <2>1. PriceIndex(seq, from, at) = Len(seq)
    BY <1>3 DEF PriceIndex
  <2>2. Len(seq) \in from..Len(seq) /\ Len(seq) \in 1..Len(seq)
    BY <1>1
  <2>3. ~(seq[Len(seq)].at >= at)
    BY <1>3, <2>2
  <2>. QED BY <1>2, <2>1, <2>2, <2>3 DEF Fits
<1>4. CASE later # {}
  <2>1. PriceIndex(seq, from, at) = CHOOSE i \in later : \A j \in later : i <= j
    BY <1>4 DEF PriceIndex
  <2>2. later \subseteq Nat /\ \A i \in later : i \in 1..Len(seq) /\ seq[i].at >= at
    BY <1>1
  <2>. HIDE DEF later
  <2>3. \E i \in later : \A j \in later : i <= j
    BY <1>4, <2>2, Least
  <2>4. PriceIndex(seq, from, at) \in later
    BY <2>1, <2>3, Zenon
  <2>. QED BY <2>2, <2>4 DEF Fits
<1>. QED BY <1>3, <1>4

\* Buying and selling alternate, at prices that fit.
Alternates(trades, seq) ==
  \A i \in 1..Len(trades) :
    /\ trades[i].side = IF i % 2 = 1 THEN "buy" ELSE "sell"
    /\ \E k \in 1..Len(seq) : seq[k].price = trades[i].price /\ Fits(seq, k, trades[i].at)

\* q[k] is what the first k gains compound to.
Compounds(q, trades, n) ==
  /\ q[0] = Whole(1)
  /\ \A k \in 1..n : q[k] = Times(q[k - 1], Gain(trades, k))

\* After an even number of trades all is cash, and after an odd one all is shares.
Holding(w) ==
  LET n == Len(w.trades) IN
  \E q \in [0..(n \div 2) -> Positive] :
    /\ Compounds(q, w.trades, n \div 2)
    /\ IF n % 2 = 0 THEN w.cash = q[n \div 2] /\ w.shares = Whole(0)
                    ELSE w.cash = Whole(0) /\ w.shares = Times(q[n \div 2], <<1, w.trades[n].price>>)

Walkers(seq) == [index : 1..Len(seq), cash : Amounts, shares : Amounts, trades : Seq(TradeRows),
                 equity : Seq(Positive)]

WalkOK(w, seq) == w \in Walkers(seq) /\ Alternates(w.trades, seq) /\ Holding(w)

\* Every second trade closes a position.
LEMMA Halves ==
  ASSUME NEW n \in Nat
  PROVE  /\ n \div 2 \in Nat /\ n \div 2 \in 0..(n \div 2) /\ n % 2 \in {0, 1}
         /\ n % 2 = 0 => (n + 1) % 2 = 1 /\ (n + 1) \div 2 = n \div 2
         /\ n % 2 = 1 => /\ (n + 1) % 2 = 0 /\ (n + 1) \div 2 = n \div 2 + 1
                         /\ 2 * (n \div 2 + 1) = n + 1
OBVIOUS

\* What is held is worth something at any price.
LEMMA Worth ==
  ASSUME NEW seq, NEW w \in Walkers(seq), Holding(w), NEW price \in Nat \ {0}
  PROVE  Plus(w.cash, Times(w.shares, Whole(price))) \in Positive
<1>. DEFINE n == Len(w.trades)
<1>0. n \in Nat
  BY DEF Walkers
<1>. HIDE DEF n
<1>1. n \in Nat /\ n \div 2 \in 0..(n \div 2) /\ n % 2 \in {0, 1}
  BY <1>0, Halves
<1>2. PICK q \in [0..(n \div 2) -> Positive] :
        IF n % 2 = 0 THEN w.cash = q[n \div 2] /\ w.shares = Whole(0)
                     ELSE w.cash = Whole(0) /\ w.shares = Times(q[n \div 2], <<1, w.trades[n].price>>)
  BY DEF Holding, n
<1>3. q[n \div 2] \in Positive
  BY <1>1, <1>2
<1>4. Positive \subseteq Ratios
  BY DEF Positive, Ratios
<1>5. CASE n % 2 = 0
  <2>1. Times(Whole(0), Whole(price)) = Whole(0)
    BY DEF Times, Whole
  <2>. QED BY <1>2, <1>3, <1>4, <1>5, <2>1, PlusZero
<1>6. CASE n % 2 = 1
  <2>1. n \in 1..n
    BY <1>1, <1>6
  <2>2. w.trades[n] \in TradeRows
    BY <2>1 DEF Walkers, n
  <2>3. <<1, w.trades[n].price>> \in Positive /\ Whole(price) \in Positive
    BY <2>2 DEF TradeRows, Positive, Whole
  <2>4. w.cash = Whole(0) /\ w.shares = Times(q[n \div 2], <<1, w.trades[n].price>>)
    BY <1>2, <1>6
  <2>5. w.shares \in Positive
    BY <1>3, <2>3, <2>4, TimesPositive
  <2>6. Times(w.shares, Whole(price)) \in Positive
    BY <2>3, <2>5, TimesPositive
  <2>. QED BY <1>4, <2>4, <2>6, PlusZero
<1>. QED BY <1>1, <1>5, <1>6

\* Trades that only grow have the same gains.
LEMMA GainsGrow ==
  ASSUME NEW trades \in Seq(TradeRows), NEW t \in TradeRows, NEW k \in 1..(Len(trades) \div 2)
  PROVE  Gain(Append(trades, t), k) = Gain(trades, k)
<1>1. 2 * k \in 1..Len(trades) /\ 2 * k - 1 \in 1..Len(trades)
  OBVIOUS
<1>2. \A i \in 1..Len(trades) : Append(trades, t)[i] = trades[i]
  OBVIOUS
<1>. QED BY <1>1, <1>2 DEF Gain

\* A buy turns the cash into shares.
LEMMA BuyOK ==
  ASSUME NEW rows, Priced(rows), NEW seq \in Seq(rows), NEW w, WalkOK(w, seq), w.shares[1] = 0,
         NEW k \in 1..Len(seq), NEW at \in Nat, Fits(seq, k, at)
  PROVE  LET t == [side |-> "buy", at |-> at, price |-> seq[k].price]
         IN \A v \in Walkers(seq) :
              /\ v.trades = Append(w.trades, t) /\ v.cash = Whole(0)
              /\ v.shares = Times(w.cash, <<1, seq[k].price>>)
              => WalkOK(v, seq)
<1>. DEFINE t == [side |-> "buy", at |-> at, price |-> seq[k].price]
            n == Len(w.trades)
<1>1. SUFFICES ASSUME NEW v \in Walkers(seq), v.trades = Append(w.trades, t), v.cash = Whole(0),
                      v.shares = Times(w.cash, <<1, seq[k].price>>)
               PROVE  WalkOK(v, seq)
  OBVIOUS
<1>2. w.trades \in Seq(TradeRows) /\ n \in Nat /\ n = Len(w.trades)
  BY DEF WalkOK, Walkers
<1>0. n \in Nat
  BY <1>2
<1>3. seq[k] \in rows
  OBVIOUS
<1>4. t \in TradeRows
  BY <1>3 DEF Priced, TradeRows
<1>. HIDE DEF n, t
<1>5. PICK q \in [0..(n \div 2) -> Positive] :
        /\ Compounds(q, w.trades, n \div 2)
        /\ IF n % 2 = 0 THEN w.cash = q[n \div 2] /\ w.shares = Whole(0)
                        ELSE w.cash = Whole(0) /\ w.shares = Times(q[n \div 2], <<1, w.trades[n].price>>)
  BY DEF WalkOK, Holding, n
<1>6. n % 2 = 0
  <2>. SUFFICES ASSUME n % 2 # 0 PROVE FALSE
    OBVIOUS
  <2>1. n \div 2 \in 0..(n \div 2)
    BY <1>0, Halves
  <2>2. q[n \div 2] \in Positive
    BY <2>1
  <2>3. w.shares = Times(q[n \div 2], <<1, w.trades[n].price>>)
    BY <1>5
  <2>4. w.shares[1] = q[n \div 2][1] * 1
    BY <2>3 DEF Times
  <2>. QED BY <2>2, <2>4 DEF Positive
<1>7. /\ Len(v.trades) = n + 1 /\ v.trades[n + 1] = t /\ (n + 1) % 2 = 1
      /\ (n + 1) \div 2 = n \div 2 /\ \A i \in 1..n : v.trades[i] = w.trades[i]
  <2>1. (n + 1) % 2 = 1 /\ (n + 1) \div 2 = n \div 2
    BY <1>0, <1>6, Halves
  <2>2. Len(v.trades) = n + 1 /\ v.trades[n + 1] = t
    BY <1>1, <1>2, <1>4
  <2>3. \A i \in 1..n : v.trades[i] = w.trades[i]
    BY <1>1, <1>2, <1>4
  <2>. QED BY <2>1, <2>2, <2>3
<1>8. Compounds(q, v.trades, n \div 2)
  BY <1>1, <1>2, <1>4, <1>5, GainsGrow DEF Compounds
<1>9. Holding(v)
  <2>1. v.cash = Whole(0) /\ v.shares = Times(q[n \div 2], <<1, v.trades[n + 1].price>>)
    <3>1. v.trades[n + 1].price = seq[k].price
      BY <1>7 DEF t
    <3>2. w.cash = q[n \div 2]
      BY <1>5, <1>6
    <3>. QED BY <1>1, <3>1, <3>2
  <2>. QED BY <1>7, <1>8, <2>1 DEF Holding
<1>10. Alternates(v.trades, seq)
  <2>1. ASSUME NEW i \in 1..(n + 1)
        PROVE  /\ v.trades[i].side = IF i % 2 = 1 THEN "buy" ELSE "sell"
               /\ \E j \in 1..Len(seq) : seq[j].price = v.trades[i].price /\ Fits(seq, j, v.trades[i].at)
    <3>1. CASE i = n + 1
      BY <1>7, <3>1 DEF t
    <3>2. CASE i \in 1..n
      BY <1>7, <3>2 DEF WalkOK, Alternates, n
    <3>. QED BY <1>2, <3>1, <3>2
  <2>. QED BY <1>7, <2>1 DEF Alternates
<1>. QED BY <1>9, <1>10 DEF WalkOK

\* A sale turns the shares into cash, and closes a position.
LEMMA SellOK ==
  ASSUME NEW rows, Priced(rows), NEW seq \in Seq(rows), NEW w, WalkOK(w, seq), w.shares[1] > 0,
         NEW k \in 1..Len(seq), NEW at \in Nat, Fits(seq, k, at)
  PROVE  LET t == [side |-> "sell", at |-> at, price |-> seq[k].price]
         IN \A v \in Walkers(seq) :
              /\ v.trades = Append(w.trades, t) /\ v.shares = Whole(0)
              /\ v.cash = Times(w.shares, Whole(seq[k].price))
              => WalkOK(v, seq)
<1>. DEFINE t == [side |-> "sell", at |-> at, price |-> seq[k].price]
            n == Len(w.trades)
            m == n \div 2
<1>1. SUFFICES ASSUME NEW v \in Walkers(seq), v.trades = Append(w.trades, t), v.shares = Whole(0),
                      v.cash = Times(w.shares, Whole(seq[k].price))
               PROVE  WalkOK(v, seq)
  OBVIOUS
<1>2. w.trades \in Seq(TradeRows) /\ n \in Nat /\ n = Len(w.trades)
  BY DEF WalkOK, Walkers
<1>3. seq[k] \in rows
  OBVIOUS
<1>4. t \in TradeRows /\ seq[k].price \in Nat \ {0} /\ t.price = seq[k].price
  BY <1>3 DEF Priced, TradeRows
<1>5. PICK q \in [0..m -> Positive] :
        /\ Compounds(q, w.trades, m)
        /\ IF n % 2 = 0 THEN w.cash = q[m] /\ w.shares = Whole(0)
                        ELSE w.cash = Whole(0) /\ w.shares = Times(q[m], <<1, w.trades[n].price>>)
  BY DEF WalkOK, Holding
<1>6. n \in Nat
  BY <1>2
<1>. HIDE DEF n, t
<1>7. n % 2 = 1
  <2>. SUFFICES ASSUME n % 2 = 0 PROVE FALSE
    BY <1>6, Halves
  <2>1. w.shares = Whole(0)
    BY <1>5
  <2>. QED BY <2>1 DEF Whole
<1>8. /\ m \in Nat /\ m \in 0..m /\ m + 1 \in 0..(m + 1) /\ (n + 1) \div 2 = m + 1 /\ (n + 1) % 2 = 0
      /\ 2 * (m + 1) = n + 1 /\ n \in 1..n
  BY <1>6, <1>7, Halves
<1>. HIDE DEF m
<1>9. /\ Len(v.trades) = n + 1 /\ v.trades[n + 1] = t
      /\ \A i \in 1..n : v.trades[i] = w.trades[i]
  BY <1>1, <1>2, <1>4
<1>10. w.trades[n].price \in Nat \ {0} /\ q[m] \in Positive
  <2>1. w.trades[n] \in TradeRows
    BY <1>2, <1>8
  <2>. QED BY <1>5, <1>8, <2>1 DEF TradeRows
<1>11. Gain(v.trades, m + 1) = <<seq[k].price, w.trades[n].price>>
  <2>1. 2 * (m + 1) = n + 1 /\ 2 * (m + 1) - 1 = n
    BY <1>6, <1>8
  <2>. QED BY <1>4, <1>8, <1>9, <2>1 DEF Gain
<1>12. v.cash = Times(q[m], Gain(v.trades, m + 1)) /\ v.cash \in Positive
  <2>. DEFINE a == q[m][1]
              b == q[m][2]
              c == seq[k].price
              d == w.trades[n].price
  <2>1. a \in Nat \ {0} /\ b \in Nat \ {0} /\ c \in Nat \ {0} /\ d \in Nat \ {0}
    BY <1>4, <1>10 DEF Positive
  <2>2. w.shares = <<a * 1, b * d>>
    BY <1>5, <1>7 DEF Times
  <2>3. v.cash = <<(a * 1) * c, (b * d) * 1>>
    BY <1>1, <2>2 DEF Times, Whole
  <2>4. Times(q[m], Gain(v.trades, m + 1)) = <<a * c, b * d>>
    BY <1>11 DEF Times
  <2>. HIDE DEF a, b, c, d
  <2>5. a * c \in Nat \ {0} /\ b * d \in Nat \ {0} /\ a * 1 = a
    BY <2>1, ProductPositive
  <2>. QED BY <2>3, <2>4, <2>5 DEF Positive
<1>. DEFINE p == [i \in 0..(m + 1) |-> IF i \in 0..m THEN q[i] ELSE v.cash]
<1>13. p \in [0..(m + 1) -> Positive] /\ p[m + 1] = v.cash /\ p[0] = q[0]
  BY <1>5, <1>8, <1>12
<1>14. Compounds(p, v.trades, m + 1)
  <2>1. ASSUME NEW i \in 1..(m + 1) PROVE p[i] = Times(p[i - 1], Gain(v.trades, i))
    <3>1. CASE i = m + 1
      <4>1. i - 1 = m /\ m \in 0..m /\ m \in 0..(m + 1)
        BY <1>8, <3>1
      <4>2. p[i - 1] = q[m]
        BY <4>1
      <4>. QED BY <1>12, <1>13, <3>1, <4>2
    <3>2. CASE i \in 1..m
      <4>1. i \in 0..m /\ i - 1 \in 0..m /\ i \in 0..(m + 1) /\ i - 1 \in 0..(m + 1)
        BY <1>8, <3>2
      <4>2. p[i] = q[i] /\ p[i - 1] = q[i - 1]
        BY <4>1
      <4>3. Gain(v.trades, i) = Gain(w.trades, i)
        BY <1>1, <1>2, <1>4, <3>2, GainsGrow DEF m
      <4>. HIDE DEF p
      <4>. QED BY <1>5, <3>2, <4>2, <4>3 DEF Compounds
    <3>. QED BY <1>8, <3>1, <3>2
  <2>. HIDE DEF p
  <2>. QED BY <1>5, <1>13, <2>1 DEF Compounds
<1>. HIDE DEF p
<1>15. Holding(v)
  BY <1>1, <1>8, <1>9, <1>13, <1>14 DEF Holding
<1>16. Alternates(v.trades, seq)
  <2>1. ASSUME NEW i \in 1..(n + 1)
        PROVE  /\ v.trades[i].side = IF i % 2 = 1 THEN "buy" ELSE "sell"
               /\ \E j \in 1..Len(seq) : seq[j].price = v.trades[i].price /\ Fits(seq, j, v.trades[i].at)
    <3>1. CASE i = n + 1
      <4>1. v.trades[i] = t /\ i % 2 = 0
        BY <1>8, <1>9, <3>1
      <4>2. t.side = "sell" /\ t.at = at /\ t.price = seq[k].price
        BY DEF t
      <4>. QED BY <4>1, <4>2
    <3>2. CASE i \in 1..n
      BY <1>9, <3>2 DEF WalkOK, Alternates, n
    <3>. QED BY <1>6, <3>1, <3>2
  <2>. QED BY <1>9, <2>1 DEF Alternates
<1>. QED BY <1>15, <1>16 DEF WalkOK

\* Each signal leaves the walk in order.
LEMMA StepOK ==
  ASSUME NEW rows, Priced(rows), NEW seq \in Seq(rows), NEW w, WalkOK(w, seq),
         NEW s, s.at \in Nat, NEW strategy, NEW threshold
  PROVE  WalkOK(Step(seq, strategy, threshold, w, s), seq)
<1>. DEFINE k == PriceIndex(seq, w.index, s.at)
            price == seq[k].price
            trade(side) == [side |-> side, at |-> s.at, price |-> price]
            traded ==
              IF BuyCondition(strategy, threshold, s) /\ w.shares[1] = 0
                THEN [w EXCEPT !.shares = Times(w.cash, <<1, price>>), !.cash = Whole(0),
                               !.trades = Append(@, trade("buy"))]
              ELSE IF SellCondition(strategy, threshold, s) /\ w.shares[1] > 0
                THEN [w EXCEPT !.cash = Times(w.shares, Whole(price)), !.shares = Whole(0),
                               !.trades = Append(@, trade("sell"))]
              ELSE w
            u == [traded EXCEPT !.index = k]
            worth == Plus(traded.cash, Times(traded.shares, Whole(price)))
<1>1. w \in Walkers(seq) /\ w.index \in 1..Len(seq)
  BY DEF WalkOK, Walkers
<1>2. k \in 1..Len(seq) /\ Fits(seq, k, s.at)
  BY <1>1, PriceFits
<1>3. seq[k] \in rows /\ price \in Nat \ {0}
  BY <1>2 DEF Priced
<1>4. Step(seq, strategy, threshold, w, s) =
        [traded EXCEPT !.index = k, !.equity = Append(@, worth)]
  BY DEF Step
<1>. HIDE DEF k
<1>5. /\ w.cash \in Amounts /\ w.shares \in Amounts /\ w.trades \in Seq(TradeRows)
      /\ w.equity \in Seq(Positive)
  BY <1>1 DEF Walkers
<1>6. trade("buy") \in TradeRows /\ trade("sell") \in TradeRows
  BY <1>3 DEF TradeRows
<1>7. /\ Whole(0) \in Amounts /\ Whole(price) \in Amounts /\ <<1, price>> \in Amounts
  BY <1>3 DEF Amounts, Whole
<1>8. \A a, b \in Amounts : Times(a, b) \in Amounts
  <2>. SUFFICES ASSUME NEW a \in Amounts, NEW b \in Amounts PROVE Times(a, b) \in Amounts
    OBVIOUS
  <2>1. a[1] * b[1] \in Nat /\ a[2] * b[2] \in Nat \ {0}
    BY ProductPositive DEF Amounts
  <2>. QED BY <2>1 DEF Times, Amounts
<1>. HIDE DEF price
<1>9. WalkOK(u, seq) /\ u.equity = w.equity /\ u.cash = traded.cash /\ u.shares = traded.shares
      /\ traded \in Walkers(seq)
  <2>1. CASE BuyCondition(strategy, threshold, s) /\ w.shares[1] = 0
    <3>1. /\ Times(w.cash, <<1, price>>) \in Amounts
          /\ Append(w.trades, trade("buy")) \in Seq(TradeRows)
      BY <1>5, <1>6, <1>7, <1>8
    <3>2. traded = [w EXCEPT !.shares = Times(w.cash, <<1, price>>), !.cash = Whole(0),
                             !.trades = Append(@, trade("buy"))]
      BY <2>1
    <3>. HIDE DEF trade, traded
    <3>3. traded \in Walkers(seq) /\ u \in Walkers(seq)
      BY <1>1, <1>2, <1>7, <3>1, <3>2 DEF Walkers
    <3>4. /\ u.trades = Append(w.trades, trade("buy")) /\ u.cash = Whole(0)
          /\ u.shares = Times(w.cash, <<1, price>>)
          /\ u.equity = w.equity /\ u.cash = traded.cash /\ u.shares = traded.shares
      BY <1>1, <3>2, <3>3 DEF Walkers
    <3>. HIDE DEF u
    <3>5. WalkOK(u, seq)
      BY <1>2, <2>1, <3>3, <3>4, BuyOK DEF trade, price
    <3>. QED BY <3>3, <3>4, <3>5
  <2>2. CASE ~(BuyCondition(strategy, threshold, s) /\ w.shares[1] = 0)
             /\ SellCondition(strategy, threshold, s) /\ w.shares[1] > 0
    <3>1. /\ Times(w.shares, Whole(price)) \in Amounts
          /\ Append(w.trades, trade("sell")) \in Seq(TradeRows)
      BY <1>5, <1>6, <1>7, <1>8
    <3>2. traded = [w EXCEPT !.cash = Times(w.shares, Whole(price)), !.shares = Whole(0),
                             !.trades = Append(@, trade("sell"))]
      BY <2>2
    <3>. HIDE DEF trade, traded
    <3>3. traded \in Walkers(seq) /\ u \in Walkers(seq)
      BY <1>1, <1>2, <1>7, <3>1, <3>2 DEF Walkers
    <3>4. /\ u.trades = Append(w.trades, trade("sell")) /\ u.shares = Whole(0)
          /\ u.cash = Times(w.shares, Whole(price))
          /\ u.equity = w.equity /\ u.cash = traded.cash /\ u.shares = traded.shares
      BY <1>1, <3>2, <3>3 DEF Walkers
    <3>. HIDE DEF u
    <3>5. WalkOK(u, seq)
      BY <1>2, <2>2, <3>3, <3>4, SellOK DEF trade, price
    <3>. QED BY <3>3, <3>4, <3>5
  <2>3. CASE /\ ~(BuyCondition(strategy, threshold, s) /\ w.shares[1] = 0)
             /\ ~(SellCondition(strategy, threshold, s) /\ w.shares[1] > 0)
    <3>1. traded = w
      BY <2>3
    <3>. HIDE DEF traded
    <3>2. u \in Walkers(seq) /\ u.trades = w.trades /\ u.cash = w.cash /\ u.shares = w.shares
          /\ u.equity = w.equity
      BY <1>1, <1>2, <3>1 DEF Walkers
    <3>. HIDE DEF u
    <3>3. Holding(u)
      BY <3>2 DEF WalkOK, Holding
    <3>. QED BY <1>1, <3>1, <3>2, <3>3 DEF WalkOK
  <2>. QED BY <2>1, <2>2, <2>3
<1>. HIDE DEF traded
<1>10. u \in Walkers(seq) /\ Holding(u)
  BY <1>9 DEF WalkOK
<1>11. worth \in Positive
  BY <1>3, <1>9, <1>10, Worth
<1>. DEFINE v == [traded EXCEPT !.index = k, !.equity = Append(@, worth)]
<1>12. traded.equity = w.equity
  BY <1>9 DEF Walkers
<1>. HIDE DEF worth
<1>13. /\ v \in Walkers(seq) /\ v.trades = u.trades /\ v.cash = u.cash /\ v.shares = u.shares
  <2>1. Append(w.equity, worth) \in Seq(Positive)
    BY <1>5, <1>11
  <2>2. v = [traded EXCEPT !.index = k, !.equity = Append(w.equity, worth)]
    BY <1>12
  <2>. HIDE DEF v
  <2>3. v \in Walkers(seq)
    BY <1>2, <1>9, <2>1, <2>2 DEF Walkers
  <2>4. v.trades = traded.trades /\ v.cash = traded.cash /\ v.shares = traded.shares
    BY <1>9, <2>2 DEF Walkers
  <2>5. u.trades = traded.trades
    BY <1>9 DEF Walkers
  <2>. QED BY <1>9, <2>3, <2>4, <2>5
<1>. HIDE DEF u, v
<1>14. Holding(v)
  BY <1>10, <1>13 DEF Holding
<1>15. WalkOK(v, seq)
  BY <1>9, <1>13, <1>14 DEF WalkOK
<1>. QED BY <1>4, <1>15 DEF v

\* Before the first signal all is cash.
LEMMA StartOK ==
  ASSUME NEW seq, Len(seq) \in Nat \ {0}
  PROVE  WalkOK([index |-> 1, cash |-> Whole(1), shares |-> Whole(0), trades |-> <<>>,
                 equity |-> <<>>], seq)
<1>. DEFINE w == [index |-> 1, cash |-> Whole(1), shares |-> Whole(0), trades |-> <<>>, equity |-> <<>>]
            q == [k \in {0} |-> Whole(1)]
<1>1. w \in Walkers(seq)
  BY DEF Walkers, Amounts, Whole
<1>2. Len(w.trades) = 0 /\ 0 \div 2 = 0 /\ 0 % 2 = 0 /\ 0..0 = {0} /\ 1..0 = {}
  OBVIOUS
<1>3. q \in [0..0 -> Positive] /\ q[0] = Whole(1) /\ Compounds(q, w.trades, 0)
  BY <1>2 DEF Positive, Whole, Compounds
<1>4. w.cash = Whole(1) /\ w.shares = Whole(0)
  OBVIOUS
<1>5. Alternates(w.trades, seq)
  BY <1>2 DEF Alternates
<1>. HIDE DEF w, q
<1>6. Holding(w)
  BY <1>2, <1>3, <1>4 DEF Holding
<1>. QED BY <1>1, <1>5, <1>6 DEF WalkOK, w

\* And so after all of them.
LEMMA WalkEnds ==
  ASSUME NEW rows, Priced(rows), NEW seq \in Seq(rows), Len(seq) > 0,
         NEW signalRows, NEW list \in Seq(signalRows), \A s \in signalRows : s.at \in Nat,
         NEW strategy, NEW threshold
  PROVE  WalkOK(Walk(list, seq, strategy, threshold), seq)
<1>. DEFINE n == Len(list)
            Done == {w \in Walkers(seq) : WalkOK(w, seq)}
            base == [index |-> 1, cash |-> Whole(1), shares |-> Whole(0), trades |-> <<>>, equity |-> <<>>]
            F(f) == [S \in SUBSET (1..n) |->
                       IF S = {} THEN base
                       ELSE Step(seq, strategy, threshold, f[S \ {Max(S)}], list[Max(S)])]
            T == CHOOSE f : f = F(f)
            g == [p \in (1..n) \X Done |-> Step(seq, strategy, threshold, p[2], list[p[1]])]
<1>1. n \in Nat /\ DOMAIN list = 1..n /\ \A i \in 1..n : list[i].at \in Nat
  OBVIOUS
<1>2. base \in Done
  BY StartOK DEF WalkOK
<1>3. \A i \in 1..n, w \in Done : Step(seq, strategy, threshold, w, list[i]) \in Done
  BY <1>1, StepOK DEF WalkOK
<1>4. \A i \in 1..n, w \in Done : g[<<i, w>>] = Step(seq, strategy, threshold, w, list[i])
  OBVIOUS
<1>5. Walk(list, seq, strategy, threshold) = T[1..n]
  BY <1>1 DEF Walk, FoldLeft, MapThenFoldSet
<1>. HIDE DEF g, Done, base
<1>6. Maps(g, 1..n, Done)
  BY <1>3, <1>4 DEF Maps
<1>. HIDE DEF n
<1>7. PICK f \in [SUBSET (1..n) -> Done] : FoldsUp(f, n, base, g)
  BY <1>1, <1>2, <1>6, FoldExists
<1>8. ASSUME NEW S \in SUBSET (1..n)
      PROVE  f[S] = IF S = {} THEN base
                    ELSE Step(seq, strategy, threshold, f[S \ {Max(S)}], list[Max(S)])
  <2>1. CASE S # {}
    <3>1. Max(S) \in 1..n /\ S \ {Max(S)} \in SUBSET (1..n)
      BY <1>1, <2>1, MaxOf
    <3>2. f[S \ {Max(S)}] \in Done
      BY <1>7, <3>1
    <3>. QED BY <1>4, <1>7, <2>1, <3>1, <3>2 DEF FoldsUp
  <2>. QED BY <1>7, <2>1 DEF FoldsUp
<1>9. f = F(f)
  <2>1. F(f) = [S \in SUBSET (1..n) |-> f[S]]
    BY <1>8
  <2>. HIDE DEF F
  <2>. QED BY <1>7, <2>1
<1>10. T = F(T)
  <2>. HIDE DEF F
  <2>. QED BY <1>9
<1>11. \A S \in SUBSET (1..n) :
         F(T)[S] = IF S = {} THEN base
                   ELSE Step(seq, strategy, threshold, T[S \ {Max(S)}], list[Max(S)])
  <2>. HIDE DEF T
  <2>. QED OBVIOUS
<1>. HIDE DEF F
<1>12. \A S \in SUBSET (1..n) :
         T[S] = IF S = {} THEN base
                ELSE Step(seq, strategy, threshold, T[S \ {Max(S)}], list[Max(S)])
  <2>. HIDE DEF T
  <2>. QED BY <1>10, <1>11
<1>. HIDE DEF T
<1>. DEFINE q == [i \in 0..n |-> T[1..i]]
<1>13. q[0] \in Done
  <2>1. 1..0 = {} /\ 0 \in 0..n
    BY <1>1
  <2>. QED BY <1>2, <1>12, <2>1
<1>14. ASSUME NEW i \in 1..n, q[i - 1] \in Done PROVE q[i] \in Done
  <2>1. /\ 1..i \in SUBSET (1..n) /\ 1..i # {} /\ Max(1..i) = i
        /\ (1..i) \ {i} = 1..(i - 1) /\ i - 1 \in 0..n /\ i \in 0..n
    <3>1. n \in Nat
      BY <1>1
    <3>2. i \in 0..n
      BY <3>1
    <3>. QED BY <3>1, <3>2, LastPosition
  <2>2. T[1..i] = Step(seq, strategy, threshold, T[1..(i - 1)], list[i])
    BY <1>12, <2>1
  <2>3. q[i] = T[1..i] /\ q[i - 1] = T[1..(i - 1)]
    BY <2>1
  <2>. HIDE DEF q
  <2>. QED BY <1>3, <1>14, <2>2, <2>3
<1>15. q[n] \in Done
  <2>. HIDE DEF q
  <2>1. \A i \in 0..n : q[i] \in Done
    BY <1>1, <1>13, <1>14, Steps
  <2>. QED BY <1>1, <2>1
<1>16. q[n] = T[1..n]
  BY <1>1
<1>. QED BY <1>5, <1>15, <1>16 DEF Done, WalkOK

-----------------------------------------------------------------------------
(* What the trades compound to, and how many close a position.              *)

\* The gain of a position is positive.
LEMMA GainPositive ==
  ASSUME NEW trades \in Seq(TradeRows), NEW k \in 1..(Len(trades) \div 2)
  PROVE  Gain(trades, k) \in Positive
<1>1. 2 * k \in 1..Len(trades) /\ 2 * k - 1 \in 1..Len(trades)
  OBVIOUS
<1>2. trades[2 * k] \in TradeRows /\ trades[2 * k - 1] \in TradeRows
  BY <1>1
<1>. QED BY <1>2 DEF Gain, TradeRows, Positive

\* What gains compound to one after the other is their fold.
LEMMA CompoundOf ==
  ASSUME NEW trades \in Seq(TradeRows), NEW m \in Nat, m = Len(trades) \div 2,
         NEW q \in [0..m -> Positive], Compounds(q, trades, m)
  PROVE  Compound(trades, m) = q[m]
<1>. DEFINE gains == [k \in 1..m |-> Gain(trades, k)]
            base == Whole(1)
            F(f) == [S \in SUBSET (1..m) |->
                       IF S = {} THEN base ELSE Times(f[S \ {Max(S)}], gains[Max(S)])]
            T == CHOOSE f : f = F(f)
            g == [p \in (1..m) \X Positive |-> Times(p[2], gains[p[1]])]
<1>1. m \in Nat
  OBVIOUS
<1>2. base \in Positive /\ \A k \in 1..m : gains[k] \in Positive /\ gains[k] = Gain(trades, k)
  BY GainPositive DEF Whole, Positive
<1>3. Compound(trades, m) = T[1..m]
  BY Zenon DEF Compound, FoldLeft, MapThenFoldSet
<1>. HIDE DEF gains, base
<1>4. \A i \in 1..m, x \in Positive : Times(x, gains[i]) \in Positive
  BY <1>2, TimesPositive
<1>5. \A i \in 1..m, x \in Positive : g[<<i, x>>] = Times(x, gains[i])
  OBVIOUS
<1>. HIDE DEF g
<1>6. Maps(g, 1..m, Positive)
  BY <1>4, <1>5 DEF Maps
<1>7. PICK f \in [SUBSET (1..m) -> Positive] : FoldsUp(f, m, base, g)
  BY <1>1, <1>2, <1>6, FoldExists
<1>8. ASSUME NEW S \in SUBSET (1..m)
      PROVE  f[S] = IF S = {} THEN base ELSE Times(f[S \ {Max(S)}], gains[Max(S)])
  <2>1. CASE S # {}
    <3>1. Max(S) \in 1..m /\ S \ {Max(S)} \in SUBSET (1..m)
      BY <1>1, <2>1, MaxOf
    <3>2. f[S \ {Max(S)}] \in Positive
      BY <1>7, <3>1
    <3>. QED BY <1>5, <1>7, <2>1, <3>1, <3>2 DEF FoldsUp
  <2>. QED BY <1>7, <2>1 DEF FoldsUp
<1>9. f = F(f)
  <2>1. F(f) = [S \in SUBSET (1..m) |-> f[S]]
    BY <1>8
  <2>. HIDE DEF F
  <2>. QED BY <1>7, <2>1
<1>10. T = F(T)
  <2>. HIDE DEF F
  <2>. QED BY <1>9
<1>11. \A S \in SUBSET (1..m) :
         F(T)[S] = IF S = {} THEN base ELSE Times(T[S \ {Max(S)}], gains[Max(S)])
  <2>. HIDE DEF T
  <2>. QED OBVIOUS
<1>. HIDE DEF F
<1>12. \A S \in SUBSET (1..m) :
         T[S] = IF S = {} THEN base ELSE Times(T[S \ {Max(S)}], gains[Max(S)])
  <2>. HIDE DEF T
  <2>. QED BY <1>10, <1>11
<1>. HIDE DEF T
<1>. DEFINE p == [i \in 0..m |-> IF T[1..i] = q[i] THEN 0 ELSE 1]
<1>13. p[0] \in {0}
  <2>1. 1..0 = {} /\ 0 \in 0..m
    OBVIOUS
  <2>2. T[1..0] = q[0]
    BY <1>12, <2>1 DEF Compounds, base
  <2>. QED BY <2>1, <2>2
<1>14. ASSUME NEW i \in 1..m, p[i - 1] \in {0} PROVE p[i] \in {0}
  <2>1. /\ 1..i \in SUBSET (1..m) /\ 1..i # {} /\ Max(1..i) = i
        /\ (1..i) \ {i} = 1..(i - 1) /\ i - 1 \in 0..m /\ i \in 0..m
    <3>1. i \in 0..m
      BY <1>1
    <3>. QED BY <1>1, <3>1, LastPosition
  <2>2. T[1..i] = Times(T[1..(i - 1)], gains[i])
    BY <1>12, <2>1
  <2>3. T[1..(i - 1)] = q[i - 1]
    BY <1>14, <2>1
  <2>4. q[i] = Times(q[i - 1], gains[i])
    BY <1>2 DEF Compounds
  <2>5. T[1..i] = q[i]
    BY <2>2, <2>3, <2>4
  <2>. QED BY <2>1, <2>5
<1>15. p[m] \in {0} /\ m \in 0..m
  <2>. HIDE DEF p
  <2>1. \A i \in 0..m : p[i] \in {0}
    BY <1>1, <1>13, <1>14, Steps
  <2>2. m \in 0..m
    BY <1>1
  <2>. QED BY <2>1, <2>2
<1>16. T[1..m] = q[m]
  BY <1>15
<1>. QED BY <1>3, <1>16

\* Half of the positions, rounded down, are even.
LEMMA EvenPositions ==
  ASSUME NEW n \in Nat
  PROVE  /\ IsFiniteSet({i \in 1..n : i % 2 = 0})
         /\ Cardinality({i \in 1..n : i % 2 = 0}) = n \div 2
<1>. DEFINE E(k) == {i \in 1..k : i % 2 = 0}
            Have == {k \in Nat : IsFiniteSet(E(k)) /\ Cardinality(E(k)) = k \div 2}
<1>1. 0 \in Have
  <2>1. E(0) = {} /\ 0 \div 2 = 0
    OBVIOUS
  <2>2. IsFiniteSet(E(0)) /\ Cardinality(E(0)) = 0 \div 2
    BY <2>1, FS_EmptySet
  <2>. QED BY <2>2
<1>2. ASSUME NEW k \in Nat, k \in Have PROVE k + 1 \in Have
  <2>1. IsFiniteSet(E(k)) /\ Cardinality(E(k)) = k \div 2
    BY <1>2
  <2>2. CASE k % 2 = 0
    <3>1. (k + 1) % 2 = 1 /\ (k + 1) \div 2 = k \div 2
      BY <2>2, Halves
    <3>2. E(k + 1) = E(k)
      BY <3>1
    <3>. HIDE DEF E
    <3>. QED BY <2>1, <3>1, <3>2
  <2>3. CASE k % 2 = 1
    <3>1. (k + 1) % 2 = 0 /\ (k + 1) \div 2 = k \div 2 + 1
      BY <2>3, Halves
    <3>2. E(k + 1) = E(k) \union {k + 1} /\ k + 1 \notin E(k)
      BY <3>1
    <3>. HIDE DEF E
    <3>3. IsFiniteSet(E(k + 1)) /\ Cardinality(E(k + 1)) = k \div 2 + 1
      BY <2>1, <3>2, FS_AddElement
    <3>. QED BY <3>1, <3>3
  <2>4. k % 2 \in {0, 1}
    BY Halves
  <2>. QED BY <2>2, <2>3, <2>4
<1>. HIDE DEF Have
<1>3. \A k \in Nat : k \in Have
  BY <1>1, <1>2, Induction
<1>. QED BY <1>3 DEF Have

\* Every second trade is a sale, and a win is a sale.
LEMMA SalesOf ==
  ASSUME NEW seq, NEW trades \in Seq(TradeRows), Alternates(trades, seq)
  PROVE  /\ Cardinality({i \in DOMAIN trades : trades[i].side = "sell"}) = Len(trades) \div 2
         /\ Cardinality(Wins(trades)) <= Len(trades) \div 2
<1>. DEFINE n == Len(trades)
            sales == {i \in DOMAIN trades : trades[i].side = "sell"}
            even == {i \in 1..n : i % 2 = 0}
<1>1. n \in Nat /\ DOMAIN trades = 1..n
  OBVIOUS
<1>2. \A i \in 1..n : i % 2 \in {0, 1}
  OBVIOUS
<1>3. sales = even
  <2>1. \A i \in 1..n : trades[i].side = "sell" <=> i % 2 = 0
    BY <1>2 DEF Alternates
  <2>. QED BY <1>1, <2>1
<1>. HIDE DEF n
<1>4. IsFiniteSet(even) /\ Cardinality(even) = n \div 2
  <2>1. n \in Nat
    BY <1>1
  <2>. QED BY <2>1, EvenPositions
<1>5. Wins(trades) \subseteq sales
  BY DEF Wins
<1>. HIDE DEF sales, even
<1>6. Cardinality(Wins(trades)) <= Cardinality(even)
  BY <1>3, <1>4, <1>5, FS_Subset
<1>. QED BY <1>3, <1>4, <1>6 DEF sales, n

-----------------------------------------------------------------------------
(* The drawdown.                                                            *)

\* Scaling by a positive number keeps the order, and so does undoing it.
LEMMA Scale ==
  ASSUME NEW x \in Int, NEW y \in Int, NEW k \in Nat \ {0}
  PROVE  x <= y <=> x * k <= y * k
<1>1. CASE x <= y
  <2>1. PICK d \in Nat : y = x + d
    <3>1. y - x \in Nat /\ y = x + (y - x)
      BY <1>1
    <3>. QED BY <3>1
  <2>2. d * k \in Nat /\ x * k \in Int
    OBVIOUS
  <2>3. y * k = x * k + d * k
    BY <2>1
  <2>. QED BY <1>1, <2>2, <2>3
<1>2. CASE y < x
  <2>1. PICK d \in Nat \ {0} : x = y + d
    <3>1. x - y \in Nat \ {0} /\ x = y + (x - y)
      BY <1>2
    <3>. QED BY <3>1
  <2>2. d * k \in Nat \ {0} /\ y * k \in Int
    BY ProductPositive
  <2>3. x * k = y * k + d * k
    BY <2>1
  <2>. QED BY <1>2, <2>2, <2>3
<1>. QED BY <1>1, <1>2

\* Products of integers.
LEMMA ProductInt == \A a, b \in Int : a * b \in Int
OBVIOUS

\* The order of fractions, whatever their denominators.
LEMMA AtMostTransitive ==
  ASSUME NEW a \in Ratios, NEW b \in Ratios, NEW c \in Ratios, AtMost(a, b), AtMost(b, c)
  PROVE  AtMost(a, c)
<1>. DEFINE a1 == a[1]
            a2 == a[2]
            b1 == b[1]
            b2 == b[2]
            c1 == c[1]
            c2 == c[2]
<1>1. /\ a1 \in Int /\ b1 \in Int /\ c1 \in Int
      /\ a2 \in Nat \ {0} /\ b2 \in Nat \ {0} /\ c2 \in Nat \ {0}
  BY DEF Ratios
<1>2. a1 * b2 <= b1 * a2 /\ b1 * c2 <= c1 * b2
  BY DEF AtMost
<1>. HIDE DEF a1, a2, b1, b2, c1, c2
<1>3. /\ a1 * b2 \in Int /\ b1 * a2 \in Int /\ b1 * c2 \in Int /\ c1 * b2 \in Int
      /\ a1 * c2 \in Int /\ c1 * a2 \in Int
  BY <1>1
<1>4. (a1 * b2) * c2 <= (b1 * a2) * c2
  BY <1>1, <1>2, <1>3, Scale
<1>5. (b1 * c2) * a2 <= (c1 * b2) * a2
  BY <1>1, <1>2, <1>3, Scale
<1>6. (b1 * a2) * c2 = (b1 * c2) * a2
  BY <1>1
<1>7. (a1 * b2) * c2 = (a1 * c2) * b2
  BY <1>1
<1>8. (c1 * b2) * a2 = (c1 * a2) * b2
  BY <1>1
<1>9. (a1 * c2) * b2 <= (c1 * a2) * b2
  <2>1. /\ (a1 * b2) * c2 \in Int /\ (b1 * a2) * c2 \in Int /\ (c1 * b2) * a2 \in Int
    BY <1>1, <1>3
  <2>. QED BY <1>4, <1>5, <1>6, <1>7, <1>8, <2>1
<1>10. a1 * c2 <= c1 * a2
  BY <1>1, <1>3, <1>9, Scale
<1>. QED BY <1>10 DEF AtMost, a1, a2, c1, c2

\* One of two fractions is at most the other.
LEMMA AtMostTotal ==
  ASSUME NEW a \in Ratios, NEW b \in Ratios
  PROVE  AtMost(a, a) /\ (AtMost(a, b) \/ AtMost(b, a))
<1>1. a[1] * b[2] \in Int /\ b[1] * a[2] \in Int /\ a[1] * a[2] \in Int
  BY DEF Ratios
<1>. QED BY <1>1 DEF AtMost

\* There is a highest point so far.
LEMMA PeakIn ==
  ASSUME NEW equity \in Seq(Positive), NEW i \in 1..Len(equity)
  PROVE  Peak(equity, i) \in 1..i /\ \A k \in 1..i : AtMost(equity[k], equity[Peak(equity, i)])
<1>. DEFINE Top(k, j) == j \in 1..k /\ \A x \in 1..k : AtMost(equity[x], equity[j])
            Have == {k \in Nat : k + 1 <= i => \E j \in 1..(k + 1) : Top(k + 1, j)}
<1>0. i \in Nat /\ i - 1 \in Nat /\ (i - 1) + 1 = i
  OBVIOUS
<1>1. \A k \in 1..i : equity[k] \in Ratios
  <2>1. \A k \in 1..Len(equity) : equity[k] \in Positive
    OBVIOUS
  <2>. QED BY <2>1 DEF Positive, Ratios
<1>2. 0 \in Have
  <2>1. 1 \in 1..i /\ AtMost(equity[1], equity[1])
    <3>1. 1 \in 1..i
      BY <1>0
    <3>. QED BY <1>1, <3>1, AtMostTotal
  <2>2. \A x \in 1..(0 + 1) : x = 1
    OBVIOUS
  <2>3. Top(0 + 1, 1)
    BY <2>1, <2>2
  <2>. HIDE DEF Top
  <2>. QED BY <2>3
<1>3. ASSUME NEW k \in Nat, k \in Have, (k + 1) + 1 <= i
      PROVE  \E j \in 1..((k + 1) + 1) : Top((k + 1) + 1, j)
  <2>1. k + 1 <= i
    BY <1>3
  <2>2. PICK j \in 1..(k + 1) : Top(k + 1, j)
    BY <1>3, <2>1
  <2>. DEFINE z == (k + 1) + 1
  <2>3. z \in 1..i /\ j \in 1..i /\ z \in 1..z /\ j \in 1..z
    BY <1>0, <1>3
  <2>4. \A x \in 1..z : x = z \/ x \in 1..(k + 1)
    OBVIOUS
  <2>5. \A x \in 1..(k + 1) : x \in 1..i
    BY <1>0, <2>1
  <2>. HIDE DEF z
  <2>6. equity[z] \in Ratios /\ equity[j] \in Ratios /\ AtMost(equity[z], equity[z])
    BY <1>1, <2>3, AtMostTotal
  <2>7. CASE AtMost(equity[z], equity[j])
    <3>1. Top(z, j)
      BY <2>2, <2>3, <2>4, <2>7
    <3>. HIDE DEF Top
    <3>. QED BY <2>3, <3>1 DEF z
  <2>8. CASE AtMost(equity[j], equity[z])
    <3>1. ASSUME NEW x \in 1..(k + 1) PROVE AtMost(equity[x], equity[z])
      <4>1. equity[x] \in Ratios /\ AtMost(equity[x], equity[j])
        BY <1>1, <2>2, <2>5
      <4>. QED BY <2>6, <2>8, <4>1, AtMostTransitive
    <3>2. Top(z, z)
      BY <2>3, <2>4, <2>6, <3>1
    <3>. HIDE DEF Top
    <3>. QED BY <2>3, <3>2 DEF z
  <2>. QED BY <2>6, <2>7, <2>8, AtMostTotal
<1>4. \A k \in Nat : k \in Have => k + 1 \in Have
  <2>. HIDE DEF Top
  <2>. QED BY <1>3
<1>. HIDE DEF Have
<1>5. \A k \in Nat : k \in Have
  BY <1>2, <1>4, Induction
<1>6. i - 1 \in Have
  BY <1>0, <1>5
<1>7. \E j \in 1..i : Top(i, j)
  <2>. HIDE DEF Top
  <2>. QED BY <1>0, <1>6 DEF Have
<1>8. \E j \in 1..i : \A k \in 1..i : AtMost(equity[k], equity[j])
  BY <1>7
<1>. QED BY <1>8, Zenon DEF Peak

\* How far the equity is at j from what it was at i.
FallFrom(equity, i, j) ==
  <<equity[j][1] * equity[i][2] - equity[j][2] * equity[i][1], equity[j][2] * equity[i][1]>>

\* Falls are no deeper than everything, and not rises.
Falls == {x \in Ratios : AtMost(Whole(-1), x) /\ AtMost(x, Whole(0))}

\* From the peak the fall is the deepest.
LEMMA FallDeepest ==
  ASSUME NEW equity \in Seq(Positive), NEW j \in 1..Len(equity)
  PROVE  /\ Fall(equity, j) \in Falls
         /\ \A i \in 1..j : FallFrom(equity, i, j) \in Ratios /\ AtMost(Fall(equity, j), FallFrom(equity, i, j))
<1>. DEFINE t == Peak(equity, j)
            a == equity[j][1]
            b == equity[j][2]
            p == equity[t][1]
            q == equity[t][2]
<1>1. t \in 1..j /\ \A k \in 1..j : AtMost(equity[k], equity[t])
  BY PeakIn
<1>2. \A k \in 1..j : equity[k] \in Positive
  <2>1. \A k \in 1..Len(equity) : equity[k] \in Positive
    OBVIOUS
  <2>. QED BY <2>1
<1>3. j \in 1..j
  OBVIOUS
<1>. HIDE DEF t
<1>4. a \in Nat \ {0} /\ b \in Nat \ {0} /\ p \in Nat \ {0} /\ q \in Nat \ {0}
  BY <1>1, <1>2, <1>3 DEF Positive
<1>5. Fall(equity, j) = <<a * q - p * b, p * b>>
  BY DEF Fall, t
<1>6. a * q <= p * b
  BY <1>1, <1>3 DEF AtMost
<1>. HIDE DEF a, b, p, q
<1>7. a * q \in Nat \ {0} /\ p * b \in Nat \ {0}
  BY <1>4, ProductPositive
<1>8. Fall(equity, j) \in Falls
  <2>. DEFINE u == a * q
              v == p * b
  <2>1. u \in Nat /\ v \in Nat \ {0} /\ u <= v
    BY <1>6, <1>7
  <2>2. Fall(equity, j) = <<u - v, v>>
    BY <1>5
  <2>. HIDE DEF u, v
  <2>3. <<u - v, v>> \in Ratios
    BY <2>1 DEF Ratios
  <2>4. AtMost(Whole(-1), <<u - v, v>>)
    BY <2>1 DEF AtMost, Whole
  <2>5. AtMost(<<u - v, v>>, Whole(0))
    BY <2>1 DEF AtMost, Whole
  <2>. QED BY <2>2, <2>3, <2>4, <2>5 DEF Falls
<1>9. ASSUME NEW i \in 1..j
      PROVE  FallFrom(equity, i, j) \in Ratios /\ AtMost(Fall(equity, j), FallFrom(equity, i, j))
  <2>. DEFINE c == equity[i][1]
              d == equity[i][2]
  <2>1. c \in Nat \ {0} /\ d \in Nat \ {0}
    BY <1>2 DEF Positive
  <2>2. c * q <= p * d
    BY <1>1 DEF AtMost, p, q
  <2>3. FallFrom(equity, i, j) = <<a * d - b * c, b * c>>
    BY DEF FallFrom, a, b
  <2>. HIDE DEF c, d
  <2>4. /\ a * d \in Nat \ {0} /\ b * c \in Nat \ {0} /\ a * b \in Nat \ {0} /\ c * q \in Nat \ {0}
        /\ p * d \in Nat \ {0}
    BY <1>4, <2>1, ProductPositive
  <2>5. FallFrom(equity, i, j) \in Ratios
    BY <2>3, <2>4 DEF Ratios
  <2>6. (c * q) * (a * b) <= (p * d) * (a * b)
    <3>1. c * q \in Int /\ p * d \in Int
      BY <2>4
    <3>. QED BY <2>2, <2>4, <3>1, Scale
  <2>7. (a * q - p * b) * (b * c) = (c * q) * (a * b) - (p * b) * (b * c)
    BY <1>4, <2>1
  <2>8. (a * d - b * c) * (p * b) = (p * d) * (a * b) - (p * b) * (b * c)
    BY <1>4, <2>1
  <2>9. (c * q) * (a * b) \in Int /\ (p * d) * (a * b) \in Int /\ (p * b) * (b * c) \in Int
    BY <1>7, <2>4
  <2>10. (a * q - p * b) * (b * c) <= (a * d - b * c) * (p * b)
    BY <2>6, <2>7, <2>8, <2>9
  <2>11. AtMost(<<a * q - p * b, p * b>>, <<a * d - b * c, b * c>>)
    BY <2>10 DEF AtMost
  <2>. QED BY <1>5, <2>3, <2>5, <2>11
<1>. QED BY <1>8, <1>9

\* No fall is deeper than the drawdown.
LEMMA DrawdownOK ==
  ASSUME NEW equity \in Seq(Positive)
  PROVE  /\ Drawdown(equity) \in Falls
         /\ \A j \in DOMAIN equity : \A i \in 1..j : AtMost(Drawdown(equity), FallFrom(equity, i, j))
<1>. DEFINE n == Len(equity)
            base == Whole(0)
            seq == [i \in DOMAIN equity |-> i]
            Worst(x, i) == IF AtMost(x, Fall(equity, i)) THEN x ELSE Fall(equity, i)
            F(f) == [S \in SUBSET (1..n) |->
                       IF S = {} THEN base ELSE Worst(f[S \ {Max(S)}], seq[Max(S)])]
            T == CHOOSE f : f = F(f)
            g == [p \in (1..n) \X Falls |-> Worst(p[2], p[1])]
<1>1. n \in Nat /\ DOMAIN equity = 1..n
  OBVIOUS
<1>0. n \in Nat
  BY <1>1
<1>2. base \in Falls
  BY DEF Falls, Ratios, AtMost, Whole
<1>3. Drawdown(equity) = T[1..n]
  <2>1. DOMAIN seq = 1..n
    BY <1>1
  <2>. QED BY <2>1, Zenon DEF Drawdown, FoldLeft, MapThenFoldSet
<1>4. \A i \in 1..n : seq[i] = i
  BY <1>1
<1>. HIDE DEF n, base, seq
<1>5. \A i \in 1..n : Fall(equity, i) \in Falls
  BY FallDeepest DEF n
<1>6. \A i \in 1..n, x \in Falls : Worst(x, i) \in Falls
  BY <1>5
<1>7. \A i \in 1..n, x \in Falls : g[<<i, x>>] = Worst(x, i)
  OBVIOUS
<1>8. \A i \in 1..n, x \in Falls :
        AtMost(Worst(x, i), x) /\ AtMost(Worst(x, i), Fall(equity, i))
  <2>. SUFFICES ASSUME NEW i \in 1..n, NEW x \in Falls
                PROVE  AtMost(Worst(x, i), x) /\ AtMost(Worst(x, i), Fall(equity, i))
    OBVIOUS
  <2>1. x \in Ratios /\ Fall(equity, i) \in Ratios
    BY <1>5 DEF Falls
  <2>. QED BY <2>1, AtMostTotal
<1>. HIDE DEF g, Worst
<1>9. Maps(g, 1..n, Falls)
  BY <1>6, <1>7 DEF Maps
<1>10. PICK f \in [SUBSET (1..n) -> Falls] : FoldsUp(f, n, base, g)
  BY <1>0, <1>2, <1>9, FoldExists
<1>11. ASSUME NEW S \in SUBSET (1..n)
       PROVE  f[S] = IF S = {} THEN base ELSE Worst(f[S \ {Max(S)}], seq[Max(S)])
  <2>1. CASE S # {}
    <3>1. Max(S) \in 1..n /\ S \ {Max(S)} \in SUBSET (1..n)
      BY <1>0, <2>1, MaxOf
    <3>2. f[S \ {Max(S)}] \in Falls
      BY <1>10, <3>1
    <3>. QED BY <1>4, <1>7, <1>10, <2>1, <3>1, <3>2 DEF FoldsUp
  <2>. QED BY <1>10, <2>1 DEF FoldsUp
<1>12. f = F(f)
  <2>1. F(f) = [S \in SUBSET (1..n) |-> f[S]]
    BY <1>11
  <2>. HIDE DEF F
  <2>. QED BY <1>10, <2>1
<1>13. T = F(T)
  <2>. HIDE DEF F
  <2>. QED BY <1>12
<1>14. \A S \in SUBSET (1..n) :
         F(T)[S] = IF S = {} THEN base ELSE Worst(T[S \ {Max(S)}], seq[Max(S)])
  <2>. HIDE DEF T
  <2>. QED OBVIOUS
<1>. HIDE DEF F
<1>15. \A S \in SUBSET (1..n) :
         T[S] = IF S = {} THEN base ELSE Worst(T[S \ {Max(S)}], seq[Max(S)])
  <2>. HIDE DEF T
  <2>. QED BY <1>13, <1>14
<1>. HIDE DEF T
<1>. DEFINE Below(i, x) == x \in Falls /\ \A k \in 1..i : AtMost(x, Fall(equity, k))
            Have == {i \in Nat : i <= n => Below(i, T[1..i])}
<1>16. 0 \in Have
  <2>1. 1..0 = {} /\ {} \in SUBSET (1..n)
    OBVIOUS
  <2>. QED BY <1>2, <1>15, <2>1
<1>17. ASSUME NEW k \in Nat, k \in Have, k + 1 <= n PROVE Below(k + 1, T[1..(k + 1)])
  <2>. DEFINE i == k + 1
              x == T[1..k]
  <2>0. k <= n /\ i \in 1..n /\ i - 1 = k
    BY <1>0, <1>17
  <2>1. Below(k, x)
    BY <1>17, <2>0
  <2>2. \A y \in 1..(k + 1) : y = k + 1 \/ y \in 1..k
    OBVIOUS
  <2>. HIDE DEF i
  <2>3. /\ 1..i \in SUBSET (1..n) /\ 1..i # {} /\ Max(1..i) = i /\ (1..i) \ {i} = 1..(i - 1)
    BY <1>0, <2>0, LastPosition
  <2>4. T[1..i] = Worst(x, i)
    BY <1>4, <1>15, <2>0, <2>3
  <2>. HIDE DEF x
  <2>5. x \in Falls /\ Worst(x, i) \in Falls
    BY <1>6, <2>0, <2>1
  <2>6. AtMost(Worst(x, i), x) /\ AtMost(Worst(x, i), Fall(equity, i))
    BY <1>8, <2>0, <2>5
  <2>7. ASSUME NEW y \in 1..k PROVE AtMost(Worst(x, i), Fall(equity, y))
    <3>1. y \in 1..n /\ AtMost(x, Fall(equity, y))
      BY <1>0, <2>0, <2>1
    <3>2. Fall(equity, y) \in Ratios /\ x \in Ratios /\ Worst(x, i) \in Ratios
      BY <1>5, <2>5, <3>1 DEF Falls
    <3>. QED BY <2>6, <3>1, <3>2, AtMostTransitive
  <2>. QED BY <2>2, <2>4, <2>5, <2>6, <2>7 DEF i
<1>18. \A k \in Nat : k \in Have => k + 1 \in Have
  <2>. HIDE DEF Below
  <2>. QED BY <1>17
<1>. HIDE DEF Have
<1>19. \A k \in Nat : k \in Have
  BY <1>16, <1>18, Induction
<1>20. Below(n, T[1..n])
  <2>. HIDE DEF Below
  <2>. QED BY <1>0, <1>19 DEF Have
<1>21. ASSUME NEW j \in 1..n, NEW i \in 1..j PROVE AtMost(T[1..n], FallFrom(equity, i, j))
  <2>1. T[1..n] \in Ratios /\ Fall(equity, j) \in Ratios /\ AtMost(T[1..n], Fall(equity, j))
    BY <1>5, <1>20 DEF Falls
  <2>2. FallFrom(equity, i, j) \in Ratios /\ AtMost(Fall(equity, j), FallFrom(equity, i, j))
    BY FallDeepest DEF n
  <2>. QED BY <2>1, <2>2, AtMostTransitive
<1>22. T[1..n] \in Falls
  BY <1>20
<1>. QED BY <1>1, <1>3, <1>21, <1>22 DEF n

\* The drawdown of a backtest, as Reconciles states it.
LEMMA FallFromIs ==
  ASSUME NEW equity \in Seq(Positive), NEW i \in DOMAIN equity, NEW j \in DOMAIN equity
  PROVE  Minus(Times(equity[j], <<equity[i][2], equity[i][1]>>), Whole(1)) = FallFrom(equity, i, j)
<1>. DEFINE x == Times(equity[j], <<equity[i][2], equity[i][1]>>)
<1>1. equity[i] \in Positive /\ equity[j] \in Positive
  <2>1. \A k \in DOMAIN equity : equity[k] \in Positive
    OBVIOUS
  <2>. QED BY <2>1
<1>2. <<equity[i][2], equity[i][1]>> \in Positive
  BY <1>1 DEF Positive
<1>3. x \in Positive
  BY <1>1, <1>2, TimesPositive
<1>4. x[1] = equity[j][1] * equity[i][2] /\ x[2] = equity[j][2] * equity[i][1]
  BY DEF Times
<1>. HIDE DEF x
<1>5. x \in Ratios
  BY <1>3 DEF Positive, Ratios
<1>6. Minus(x, Whole(1)) = <<x[1] - x[2], x[2]>>
  BY <1>5, MinusOne
<1>. QED BY <1>4, <1>6 DEF x, FallFrom

-----------------------------------------------------------------------------
(* A backtest reconciles.                                                   *)

\* What is held at the end is what the trades compound to, with an open position
\* at the last price.
LEMMA TotalOf ==
  ASSUME NEW seq, NEW w, WalkOK(w, seq), NEW price \in Nat \ {0}
  PROVE  LET n == Len(w.trades)
             closed == Compound(w.trades, n \div 2)
             total == IF n % 2 = 0 THEN closed ELSE Times(closed, <<price, w.trades[n].price>>)
         IN /\ Plus(w.cash, Times(w.shares, Whole(price))) = total
            /\ total \in Positive
<1>. DEFINE n == Len(w.trades)
            m == n \div 2
            closed == Compound(w.trades, m)
            total == IF n % 2 = 0 THEN closed ELSE Times(closed, <<price, w.trades[n].price>>)
<1>. SUFFICES Plus(w.cash, Times(w.shares, Whole(price))) = total /\ total \in Positive
  OBVIOUS
<1>1. w \in Walkers(seq) /\ w.trades \in Seq(TradeRows) /\ n \in Nat
  BY DEF WalkOK, Walkers
<1>0. n \in Nat
  BY <1>1
<1>2. PICK q \in [0..m -> Positive] :
        /\ Compounds(q, w.trades, m)
        /\ IF n % 2 = 0 THEN w.cash = q[m] /\ w.shares = Whole(0)
                        ELSE w.cash = Whole(0) /\ w.shares = Times(q[m], <<1, w.trades[n].price>>)
  BY DEF WalkOK, Holding
<1>3. m \in Nat /\ m \in 0..m /\ n % 2 \in {0, 1}
  <2>. HIDE DEF n
  <2>. QED BY <1>0, Halves
<1>4. closed = q[m]
  <2>1. m = Len(w.trades) \div 2
    OBVIOUS
  <2>. HIDE DEF m
  <2>. QED BY <1>1, <1>2, <1>3, <2>1, CompoundOf
<1>. HIDE DEF n, m, closed
<1>5. q[m] \in Positive /\ Positive \subseteq Ratios
  BY <1>2, <1>3 DEF Positive, Ratios
<1>6. CASE n % 2 = 0
  <2>1. Times(Whole(0), Whole(price)) = Whole(0)
    BY DEF Times, Whole
  <2>2. Plus(w.cash, Times(w.shares, Whole(price))) = q[m]
    BY <1>2, <1>5, <1>6, <2>1, PlusZero
  <2>. QED BY <1>4, <1>5, <1>6, <2>2
<1>7. CASE n % 2 = 1
  <2>. DEFINE a == q[m][1]
              b == q[m][2]
              d == w.trades[n].price
  <2>1. d \in Nat \ {0}
    <3>1. n \in 1..n
      BY <1>0, <1>7
    <3>2. w.trades[n] \in TradeRows
      BY <1>1, <3>1 DEF n
    <3>. QED BY <3>2 DEF TradeRows
  <2>2. a \in Nat \ {0} /\ b \in Nat \ {0}
    BY <1>5 DEF Positive
  <2>3. w.cash = Whole(0) /\ w.shares = <<a * 1, b * d>>
    <3>1. w.cash = Whole(0) /\ w.shares = Times(q[m], <<1, d>>)
      BY <1>2, <1>7
    <3>. QED BY <3>1 DEF Times
  <2>4. Times(w.shares, Whole(price)) = <<(a * 1) * price, (b * d) * 1>>
    BY <2>3 DEF Times, Whole
  <2>5. Times(q[m], <<price, d>>) = <<a * price, b * d>>
    BY DEF Times
  <2>. HIDE DEF a, b, d
  <2>6. a * price \in Nat \ {0} /\ b * d \in Nat \ {0} /\ a * 1 = a /\ (b * d) * 1 = b * d
    BY <2>1, <2>2, ProductPositive
  <2>7. Times(w.shares, Whole(price)) = Times(q[m], <<price, d>>)
    BY <2>4, <2>5, <2>6
  <2>8. Times(q[m], <<price, d>>) \in Positive
    BY <2>5, <2>6 DEF Positive
  <2>9. Plus(w.cash, Times(w.shares, Whole(price))) = Times(q[m], <<price, d>>)
    BY <1>5, <2>3, <2>7, <2>8, PlusZero
  <2>. QED BY <1>4, <1>7, <2>8, <2>9 DEF d
<1>. HIDE DEF total
<1>. QED BY <1>3, <1>6, <1>7

\* A return is equal to itself.
LEMMA ReturnIs ==
  ASSUME NEW a \in Positive
  PROVE  Equal(Minus(a, Whole(1)), Minus(a, Whole(1)))
<1>1. a \in Ratios
  BY DEF Positive, Ratios
<1>2. Minus(a, Whole(1)) = <<a[1] - a[2], a[2]>>
  BY <1>1, MinusOne
<1>3. Minus(a, Whole(1)) \in Ratios
  BY <1>1, <1>2 DEF Ratios
<1>. QED BY <1>3, AtMostTotal DEF Equal

\* Without signals or prices nothing is traded.
LEMMA NothingReconciles ==
  ASSUME NEW shown
  PROVE  Reconciles([trades |-> <<>>, equity |-> <<>>, wins |-> 0, closed |-> 0,
                     max_drawdown |-> Whole(0), total_return |-> Whole(0)], shown)
<1>. DEFINE run == [trades |-> <<>>, equity |-> <<>>, wins |-> 0, closed |-> 0,
                    max_drawdown |-> Whole(0), total_return |-> Whole(0)]
            none == <<>>
            q == [k \in 0..0 |-> Whole(1)]
<1>1. Len(none) = 0 /\ 0 \div 2 = 0 /\ 0 % 2 = 0 /\ 1..0 = {} /\ DOMAIN none = {} /\ none \in Seq(TradeRows)
  OBVIOUS
<1>2. q \in [0..0 -> Positive] /\ q[0] = Whole(1) /\ Compounds(q, none, 0)
  BY <1>1 DEF Positive, Whole, Compounds
<1>. HIDE DEF q, none
<1>3. Compound(none, 0) = Whole(1)
  <2>1. 0 \in Nat /\ 0 = Len(none) \div 2
    BY <1>1
  <2>. QED BY <1>1, <1>2, <2>1, CompoundOf
<1>4. Minus(Whole(1), Whole(1)) = Whole(0)
  <2>1. Whole(1) \in Ratios
    BY DEF Ratios, Whole
  <2>2. Minus(Whole(1), Whole(1)) = <<Whole(1)[1] - Whole(1)[2], Whole(1)[2]>>
    BY <2>1, MinusOne
  <2>. QED BY <2>2 DEF Whole
<1>5. Equal(Whole(0), Whole(0)) /\ AtMost(Whole(-1), Whole(0)) /\ AtMost(Whole(0), Whole(0))
  BY DEF Equal, AtMost, Whole
<1>6. /\ run.trades = none /\ run.equity = none /\ run.wins = 0 /\ run.closed = 0
      /\ run.max_drawdown = Whole(0) /\ run.total_return = Whole(0)
  BY DEF none
<1>. HIDE DEF run
<1>7. Reconciles(run, shown)
  BY <1>1, <1>3, <1>4, <1>5, <1>6 DEF Reconciles
<1>. QED BY <1>7 DEF run

\* A backtest of any signals along any prices reconciles.
LEMMA BacktestOK ==
  ASSUME NEW shown, IsFiniteSet(shown), Priced(shown),
         NEW rows, IsFiniteSet(rows), \A s \in rows : s.at \in Nat,
         NEW strategy, NEW threshold
  PROVE  Reconciles(run_backtest(rows, shown, strategy, threshold), shown)
<1>. DEFINE run == run_backtest(rows, shown, strategy, threshold)
<1>1. CASE rows = {} \/ shown = {}
  <2>1. run = [trades |-> <<>>, equity |-> <<>>, wins |-> 0, closed |-> 0,
               max_drawdown |-> Whole(0), total_return |-> Whole(0)]
    BY <1>1, Zenon DEF run_backtest
  <2>. HIDE DEF run
  <2>2. Reconciles(run, shown)
    BY <2>1, NothingReconciles
  <2>. QED BY <2>2 DEF run
<1>2. CASE ~(rows = {} \/ shown = {})
  <2>. DEFINE seq == Ordered(shown)
              list == Ordered(rows)
              w == Walk(list, seq, strategy, threshold)
              last == Last(seq)
              n == Len(w.trades)
              closed == Compound(w.trades, n \div 2)
              total == IF n % 2 = 0 THEN closed ELSE Times(closed, <<last.price, w.trades[n].price>>)
              held == Plus(w.cash, Times(w.shares, Whole(last.price)))
              sales == {i \in DOMAIN w.trades : w.trades[i].side = "sell"}
  <2>1. seq \in Seq(shown) /\ Len(seq) > 0 /\ list \in Seq(rows)
    <3>1. \A r \in shown : r.at \in Nat
      BY DEF Priced
    <3>. QED BY <1>2, <3>1, OrderedType
  <2>2. /\ run.trades = w.trades /\ run.equity = w.equity
        /\ run.wins = Cardinality(Wins(w.trades)) /\ run.closed = Cardinality(sales)
        /\ run.max_drawdown = Drawdown(w.equity) /\ run.total_return = Minus(held, Whole(1))
    <3>1. run = [trades |-> w.trades, equity |-> w.equity,
                 wins |-> Cardinality(Wins(w.trades)), closed |-> Cardinality(sales),
                 max_drawdown |-> Drawdown(w.equity), total_return |-> Minus(held, Whole(1))]
      BY <1>2, Zenon DEF run_backtest
    <3>. HIDE DEF run, w, held, sales
    <3>. QED BY <3>1
  <2>. HIDE DEF run, seq, list
  <2>3. WalkOK(w, seq)
    BY <2>1, WalkEnds
  <2>4. /\ last = seq[Len(seq)] /\ Len(seq) \in 1..Len(seq) /\ last.price \in Nat \ {0}
        /\ \A k \in 1..Len(seq) : seq[k] \in shown
    <3>1. last = seq[Len(seq)]
      BY DEF Last
    <3>2. Len(seq) \in 1..Len(seq) /\ \A k \in 1..Len(seq) : seq[k] \in shown
      BY <2>1
    <3>. HIDE DEF last
    <3>. QED BY <3>1, <3>2 DEF Priced
  <2>. HIDE DEF w, last
  <2>5. w.trades \in Seq(TradeRows) /\ w.equity \in Seq(Positive) /\ Alternates(w.trades, seq)
    BY <2>3 DEF WalkOK, Walkers
  <2>6. held = total /\ total \in Positive
    BY <2>3, <2>4, TotalOf
  <2>7. Equal(run.total_return, Minus(total, Whole(1)))
    <3>. HIDE DEF held, total
    <3>. QED BY <2>2, <2>6, ReturnIs
  <2>8. Cardinality(sales) = n \div 2 /\ Cardinality(Wins(w.trades)) <= n \div 2
    BY <2>5, SalesOf
  <2>9. ASSUME NEW i \in 1..n
        PROVE  /\ w.trades[i].side = IF i % 2 = 1 THEN "buy" ELSE "sell"
               /\ \E p \in shown :
                    /\ p.price = w.trades[i].price
                    /\ p.at >= w.trades[i].at \/ (p = last /\ p.at < w.trades[i].at)
    <3>1. PICK k \in 1..Len(seq) : seq[k].price = w.trades[i].price /\ Fits(seq, k, w.trades[i].at)
      BY <2>5 DEF Alternates
    <3>2. seq[k] \in shown /\ (seq[k].at >= w.trades[i].at \/ (seq[k] = last /\ seq[k].at < w.trades[i].at))
      BY <2>4, <3>1 DEF Fits
    <3>3. w.trades[i].side = IF i % 2 = 1 THEN "buy" ELSE "sell"
      BY <2>5 DEF Alternates
    <3>. QED BY <3>1, <3>2, <3>3
  <2>10. Drawdown(w.equity) \in Falls
    BY <2>5, DrawdownOK
  <2>11. ASSUME NEW i \in DOMAIN w.equity, NEW j \in DOMAIN w.equity, i < j
         PROVE  AtMost(run.max_drawdown,
                       Minus(Times(w.equity[j], <<w.equity[i][2], w.equity[i][1]>>), Whole(1)))
    <3>1. i \in 1..j
      BY <2>5, <2>11
    <3>2. AtMost(Drawdown(w.equity), FallFrom(w.equity, i, j))
      BY <2>5, <3>1, DrawdownOK
    <3>. QED BY <2>2, <2>5, <3>2, FallFromIs
  <2>12. AtMost(Whole(-1), run.max_drawdown) /\ AtMost(run.max_drawdown, Whole(0))
    BY <2>2, <2>10 DEF Falls
  <2>13. run.closed = n \div 2 /\ run.wins <= run.closed
    BY <2>2, <2>8
  <2>. HIDE DEF sales, held
  <2>14. Reconciles(run, shown)
    BY <2>2, <2>7, <2>9, <2>11, <2>12, <2>13, Zenon DEF Reconciles, last, seq
  <2>. QED BY <2>14 DEF run
<1>. QED BY <1>1, <1>2

\* A backtest that has read its signals can walk over them, and one that is
\* answered reconciles.
BacktestRequestOK(r) ==
  /\ pc[r] = "prices" => IsFiniteSet(read[r]) /\ \A s \in read[r] : s.at \in Nat
  /\ answer[r] # None /\ answer[r].kind = "backtest" => Reconciles(answer[r].run, answer[r].prices)

BacktestInv ==
  /\ IsFiniteSet(prices) /\ Priced(prices)
  /\ \A r \in Requests : BacktestRequestOK(r)

\* Prices are added to by the market stream only, and stay positive.
LEMMA PricesStayPriced ==
  ASSUME ExportInv, BacktestInv, [Next]_vars
  PROVE  IsFiniteSet(prices)' /\ Priced(prices)'
<1>1. CASE StorePrice
  <2>1. PICK q \in Quotes : prices' = prices \union
          {[id |-> Cardinality(prices) + 1, ticker |-> Subject, at |-> now + 1, price |-> q]}
    BY <1>1 DEF StorePrice
  <2>2. q \in Nat \ {0} /\ now + 1 \in Nat
    BY PricesAssumption DEF ExportInv, TablesInv
  <2>3. IsFiniteSet(prices')
    BY <2>1, FS_AddElement DEF BacktestInv
  <2>4. \A x \in prices' : x.at \in Nat /\ x.price \in Nat \ {0}
    BY <2>1, <2>2 DEF BacktestInv, Priced
  <2>. QED BY <2>3, <2>4 DEF Priced
<1>2. CASE ~StorePrice
  <2>1. prices' = prices
    BY <1>2 DEF Next, vars, Pipeline, StampSignal, InsertSignal, StampAlert, InsertAlert, NoAlert,
                EndRun, Export, AskExport, ExportSignals, ExportAlerts, AskBacktest, Backtest,
                ForecastStep, AskForecast, HasModel, WantModel, TakeLock, Load, LoadFails, Infer,
                InferenceFails, forecastFrame, tables
  <2>. QED BY <2>1 DEF BacktestInv, Priced
<1>. QED BY <1>1, <1>2

\* No other step answers a backtest.
LEMMA NoBacktest ==
  ASSUME BacktestInv, NEW r \in Requests, pc'[r] # "prices",
         answer'[r] = answer[r] \/ answer'[r].kind # "backtest"
  PROVE  BacktestRequestOK(r)'
BY DEF BacktestInv, BacktestRequestOK

\* A forecast is no backtest.
LEMMA ForecastKeepsBacktest ==
  ASSUME ExportInv, BacktestInv, NEW r \in Requests, ForecastStep(r)
  PROVE  BacktestRequestOK(r)'
<1>1. CASE HasModel(r) \/ WantModel(r) \/ TakeLock(r) \/ Load(r)
  <2>1. answer' = answer
    BY <1>1 DEF HasModel, WantModel, TakeLock, Load
  <2>2. pc'[r] \in {"infer", "lock", "load"}
    BY <1>1 DEF HasModel, WantModel, TakeLock, Load, Goto, ExportInv
  <2>. QED BY <2>1, <2>2, NoBacktest
<1>2. CASE LoadFails(r) \/ Infer(r) \/ InferenceFails(r)
  <2>1. pc'[r] = "done" /\ answer'[r].kind \in {"refused", "forecast"}
    BY <1>2 DEF LoadFails, Infer, InferenceFails, Answer, Goto, Refusal, Forecast, ExportInv
  <2>. QED BY <2>1, NoBacktest
<1>3. CASE AskForecast(r)
  <2>1. \/ pc'[r] = "done" /\ answer'[r].kind \in {"refused", "forecast"}
        \/ pc'[r] = "model" /\ answer' = answer
    BY <1>3 DEF AskForecast, Answer, Goto, Refusal, Forecast, ExportInv
  <2>. QED BY <2>1, NoBacktest
<1>. QED BY <1>1, <1>2, <1>3 DEF ForecastStep

\* Of the other requests only a backtest reads signals to walk over, and only
\* rows of the table.
LEMMA ExportKeepsBacktest ==
  ASSUME ExportInv, BacktestInv, NEW r \in Requests, Export(r)
  PROVE  BacktestRequestOK(r)'
<1>1. CASE AskExport(r) \/ ExportSignals(r)
  <2>1. answer' = answer /\ pc'[r] \in {"signals", "alerts"}
    BY <1>1 DEF AskExport, ExportSignals, Goto, ExportInv
  <2>. QED BY <2>1, NoBacktest
<1>2. CASE ExportAlerts(r)
  <2>1. /\ pc'[r] = "done" /\ AskedOK(r)
        /\ answer'[r] = [kind |-> asked[r].kind, signals |-> read[r], alerts |-> Exported(r, alerts)]
    BY <1>2 DEF ExportAlerts, Answer, Goto, ExportInv, RequestOK
  <2>2. answer'[r].kind = asked[r].kind
    BY <2>1
  <2>3. asked[r].kind # "backtest"
    BY <2>1 DEF AskedOK
  <2>. QED BY <2>1, <2>2, <2>3, NoBacktest
<1>3. CASE AskBacktest(r)
  <2>1. pc[r] = "new" /\ pc'[r] = "prices" /\ answer' = answer
    BY <1>3 DEF AskBacktest, Goto, ExportInv
  <2>2. \E from, to : read' = [read EXCEPT ![r] = Within(Of(signals, Subject), from, to)]
    BY <1>3 DEF AskBacktest, Reads
  <2>3. read'[r] \subseteq signals
    BY <2>2 DEF Within, Of, ExportInv
  <2>4. IsFiniteSet(read'[r]) /\ \A s \in read'[r] : s.at \in Nat
    BY <2>3, FS_Subset DEF ExportInv, TablesInv, Past
  <2>. QED BY <2>1, <2>4 DEF BacktestInv, BacktestRequestOK
<1>4. CASE Backtest(r)
  <2>. DEFINE shown == Within(Of(prices, Subject), asked[r].from, asked[r].to)
              run == run_backtest(read[r], shown, asked[r].strategy, asked[r].threshold)
  <2>1. pc[r] = "prices" /\ Answer(r, [kind |-> "backtest", prices |-> shown, run |-> run])
    BY <1>4, Zenon DEF Backtest
  <2>2. shown \subseteq prices
    BY DEF Within, Of
  <2>3. IsFiniteSet(shown) /\ Priced(shown)
    BY <2>2, FS_Subset DEF BacktestInv, Priced
  <2>4. IsFiniteSet(read[r]) /\ \A s \in read[r] : s.at \in Nat
    BY <2>1 DEF BacktestInv, BacktestRequestOK
  <2>. HIDE DEF shown
  <2>5. Reconciles(run, shown)
    BY <2>3, <2>4, BacktestOK
  <2>. HIDE DEF run
  <2>6. pc'[r] = "done" /\ answer'[r] = [kind |-> "backtest", prices |-> shown, run |-> run]
    BY <2>1 DEF Answer, Goto, ExportInv
  <2>7. answer'[r].run = run /\ answer'[r].prices = shown
    BY <2>6
  <2>. QED BY <2>5, <2>6, <2>7 DEF BacktestRequestOK
<1>. QED BY <1>1, <1>2, <1>3, <1>4 DEF Export

\* Whatever step is taken, answered backtests go on reconciling.
LEMMA NextKeepsBacktestInv == ExportInv /\ BacktestInv /\ [Next]_vars => BacktestInv'
<1>. SUFFICES ASSUME ExportInv, BacktestInv, [Next]_vars PROVE BacktestInv'
  OBVIOUS
<1>1. IsFiniteSet(prices)' /\ Priced(prices)'
  BY PricesStayPriced
<1>2. ASSUME NEW q \in Requests, pc'[q] = pc[q], read'[q] = read[q], answer'[q] = answer[q]
      PROVE  BacktestRequestOK(q)'
  BY <1>2 DEF BacktestInv, BacktestRequestOK
<1>3. CASE \E r \in Requests : Export(r) \/ ForecastStep(r)
  <2>1. PICK r \in Requests : Export(r) \/ ForecastStep(r)
    BY <1>3
  <2>2. BacktestRequestOK(r)'
    BY <2>1, ExportKeepsBacktest, ForecastKeepsBacktest
  <2>3. \A q \in Requests \ {r} : BacktestRequestOK(q)'
    BY <1>2, <2>1, RequestFrame
  <2>. QED BY <1>1, <2>2, <2>3 DEF BacktestInv
<1>4. CASE ~\E r \in Requests : Export(r) \/ ForecastStep(r)
  <2>1. UNCHANGED <<pc, read, answer>>
    BY <1>4 DEF Next, vars, Pipeline, StampSignal, InsertSignal, StampAlert, InsertAlert, NoAlert,
                EndRun, StorePrice, requestVars
  <2>. QED BY <1>1, <1>2, <2>1 DEF BacktestInv
<1>. QED BY <1>3, <1>4

\* run_backtest (analytics/services.py) reads the signals, and then prices that
\* may be newer: whatever it has read, buying and selling alternate at prices
\* that were not past, the return is what the trades compound to, and no fall of
\* the equity is deeper than the drawdown that is shown with it.
THEOREM BacktestsReconcile == Spec => []BacktestReconciles
<1>1. Init => BacktestInv
  BY HistoriesAssumption, PricesAssumption DEF Init, BacktestInv, BacktestRequestOK, Priced
<1>2. BacktestInv => BacktestReconciles
  BY DEF BacktestInv, BacktestRequestOK, BacktestReconciles
<1>. QED BY <1>1, <1>2, InitExportInv, NextKeepsExportInv, NextKeepsBacktestInv, PTL DEF Spec

-----------------------------------------------------------------------------
(* Identities and stamps.                                                   *)

\* What a table and a pipeline number is new.
LEMMA IdsFinite ==
  ASSUME NEW rows, IsFiniteSet(rows)
  PROVE  IsFiniteSet(Ids(rows)) /\ Cardinality(Ids(rows)) <= Cardinality(rows)
<1>. DEFINE f == [x \in rows |-> x.id]
<1>1. f \in Surjection(rows, Ids(rows))
  BY DEF Surjection, Ids
<1>. QED BY <1>1, FS_Surjection

LEMMA NewIdIsNew ==
  ASSUME NEW rows, IsFiniteSet(rows)
  PROVE  /\ NewId(rows) \in Nat /\ NewId(rows) \notin Ids(rows)
         /\ \A q \in Pipelines : draft[q] # None => NewId(rows) # draft[q].id
<1>. DEFINE busy == {q \in Pipelines : draft[q] # None}
            f == [q \in busy |-> draft[q].id]
            held == {draft[q].id : q \in busy}
            used == Ids(rows) \union held
            a == Cardinality(rows)
            b == Cardinality(Pipelines)
            range == 1..a + b + 1
<1>1. a \in Nat /\ b \in Nat
  BY SizesAssumption, FS_CardinalityType
<1>2. IsFiniteSet(busy) /\ Cardinality(busy) <= b
  BY SizesAssumption, FS_Subset
<1>3. IsFiniteSet(held) /\ Cardinality(held) <= Cardinality(busy)
  <2>1. f \in Surjection(busy, held)
    BY DEF Surjection
  <2>. QED BY <1>2, <2>1, FS_Surjection
<1>4. IsFiniteSet(used) /\ Cardinality(used) <= a + b
  <2>1. IsFiniteSet(Ids(rows)) /\ Cardinality(Ids(rows)) <= a
    BY IdsFinite
  <2>2. IsFiniteSet(Ids(rows) \cap held)
    BY <1>3, FS_Subset
  <2>3. /\ Cardinality(Ids(rows)) \in Nat /\ Cardinality(held) \in Nat /\ Cardinality(busy) \in Nat
        /\ Cardinality(Ids(rows) \cap held) \in Nat
    BY <1>2, <1>3, <2>1, <2>2, FS_CardinalityType
  <2>4. IsFiniteSet(used) /\ Cardinality(used) = Cardinality(Ids(rows)) + Cardinality(held)
                                                 - Cardinality(Ids(rows) \cap held)
    BY <1>3, <2>1, FS_Union
  <2>. HIDE DEF used, held, busy, a, b
  <2>. QED BY <1>1, <1>2, <1>3, <2>1, <2>3, <2>4
<1>5. \E n \in range : n \notin used
  <2>1. SUFFICES ASSUME range \subseteq used PROVE FALSE
    OBVIOUS
  <2>2. Cardinality(range) <= Cardinality(used)
    BY <1>4, <2>1, FS_Subset
  <2>3. PICK m \in Int : m = a + b + 1 /\ ~(1 > m)
    BY <1>1
  <2>4. Cardinality(1..m) = m - 1 + 1
    BY <2>3, FS_Interval
  <2>5. Cardinality(used) \in Nat /\ Cardinality(range) = m
    BY <1>4, <2>3, <2>4, FS_CardinalityType
  <2>. HIDE DEF used, range, a, b
  <2>. QED BY <1>1, <1>4, <2>2, <2>3, <2>5
<1>6. NewId(rows) = CHOOSE n \in range : n \notin used
  BY Zenon DEF NewId
<1>7. NewId(rows) \in range /\ NewId(rows) \notin used
  <2>. HIDE DEF range, used
  <2>. QED BY <1>5, <1>6
<1>8. NewId(rows) \in Nat
  BY <1>1, <1>7
<1>. QED BY <1>7, <1>8

\* What a run of the pipeline holds.
RunOK(p) ==
  /\ stage[p] \in {"idle", "signal", "decided", "alert"}
  /\ stage[p] = "idle" => draft[p] = None
  /\ stage[p] \in {"signal", "decided"} => draft[p] \in NewSignals
  /\ stage[p] = "alert" => draft[p] \in AlertRows /\ draft[p].id = draft[p].signal.id

Working == {p \in Pipelines : stage[p] # "idle"}

\* A run has an identity of its own, that of its signal and then of its alert.
IdsInv ==
  /\ \A p \in Pipelines : RunOK(p)
  /\ \A p, q \in Working : draft[p].id = draft[q].id => p = q
  /\ \A p \in Working : stage[p] = "signal" => draft[p].id \notin Ids(signals)
  /\ \A p \in Working : draft[p].id \notin Ids(alerts)
  /\ signals \subseteq SignalRows /\ alerts \subseteq AlertRows
  /\ \A x, y \in signals : x.id = y.id => x = y
  /\ \A x, y \in alerts : x.id = y.id => x = y
  /\ \A x \in alerts : x.id = x.signal.id

\* Whatever is stamped, stored or not, has a time of its own.
Stamped == signals \union alerts \union {draft[p] : p \in Working}

StampsInv ==
  /\ \A x \in Stamped : Past(x.at)
  /\ \A x, y \in Stamped : x.at = y.at => x = y

LEMMA InitIdsInv == Init => IdsInv /\ StampsInv
<1>. SUFFICES ASSUME Init PROVE IdsInv /\ StampsInv
  OBVIOUS
<1>1. PICK h \in Histories : signals = h.signals /\ prices = h.prices
  BY DEF Init
<1>2. /\ alerts = {} /\ \A p \in Pipelines : stage[p] = "idle" /\ draft[p] = None
  BY DEF Init
<1>3. Working = {}
  BY <1>2 DEF Working
<1>4. IdsInv
  <2>1. signals \subseteq SignalRows
    BY <1>1 DEF SignalRows
  <2>2. \A x, y \in signals : x.id = y.id => x = y
    BY <1>1, IdsAssumption
  <2>. QED BY <1>2, <1>3, <2>1, <2>2 DEF IdsInv, RunOK
<1>5. Stamped = signals
  BY <1>2, <1>3 DEF Stamped
<1>. QED BY <1>4, <1>5, InitExportInv DEF StampsInv, ExportInv, TablesInv

\* The steps of the pipeline.
LEMMA StampSignalKeepsIds ==
  ASSUME TablesInv, IdsInv, StampsInv, NEW p \in Pipelines, StampSignal(p)
  PROVE  IdsInv' /\ StampsInv'
<1>1. /\ now \in Nat /\ now' = now + 1 /\ UNCHANGED <<signals, alerts>>
      /\ stage[p] = "idle" /\ stage' = [stage EXCEPT ![p] = "signal"]
  BY DEF StampSignal, Tick, tables, TablesInv
<1>2. PICK x \in Readings : draft' = [draft EXCEPT ![p] =
        [id |-> NewId(signals), ticker |-> Subject, at |-> now + 1,
         signal |-> x.signal, index |-> x.index, ratio |-> x.ratio]]
  BY DEF StampSignal
<1>3. PICK row : row = [id |-> NewId(signals), ticker |-> Subject, at |-> now + 1,
                        signal |-> x.signal, index |-> x.index, ratio |-> x.ratio]
  OBVIOUS
<1>4. /\ stage'[p] = "signal" /\ draft'[p] = row
      /\ \A q \in Pipelines \ {p} : stage'[q] = stage[q] /\ draft'[q] = draft[q]
  BY <1>1, <1>2, <1>3 DEF TablesInv
<1>5. /\ NewId(signals) \in Nat /\ NewId(signals) \notin Ids(signals)
      /\ \A q \in Pipelines : draft[q] # None => NewId(signals) # draft[q].id
  BY NewIdIsNew DEF TablesInv
<1>6. row \in NewSignals /\ row.id = NewId(signals) /\ row.at = now + 1
  BY <1>1, <1>3, <1>5 DEF NewSignals
<1>7. p \notin Working /\ Working' = Working \union {p}
  BY <1>1, <1>4 DEF Working
<1>8. \A q \in Working : draft[q] # None
  BY RowsAssumption DEF IdsInv, RunOK, Working
<1>9. row.id \notin Ids(alerts)
  <2>1. \A y \in alerts : y.id \in Ids(signals)
    BY DEF IdsInv, TablesInv, Raised, Follows, Ids
  <2>. QED BY <1>5, <1>6, <2>1 DEF Ids
<1>10. IdsInv'
  <2>1. \A q \in Pipelines : RunOK(q)'
    BY <1>4, <1>6 DEF IdsInv, RunOK
  <2>2. \A q, o \in Working' : draft'[q].id = draft'[o].id => q = o
    BY <1>4, <1>5, <1>6, <1>7, <1>8 DEF IdsInv, Working
  <2>3. /\ \A q \in Working' : stage'[q] = "signal" => draft'[q].id \notin Ids(signals)
        /\ \A q \in Working' : draft'[q].id \notin Ids(alerts)
    BY <1>4, <1>5, <1>6, <1>7, <1>9 DEF IdsInv, Working
  <2>. QED BY <1>1, <2>1, <2>2, <2>3 DEF IdsInv, Ids
<1>11. Stamped' \subseteq Stamped \union {row}
  BY <1>1, <1>4, <1>7 DEF Stamped, Working
<1>12. StampsInv'
  <2>1. \A y \in Stamped : Past(y.at)' /\ y.at # row.at
    BY <1>1, <1>6 DEF StampsInv, Past
  <2>2. Past(row.at)'
    BY <1>1, <1>6 DEF Past
  <2>. QED BY <1>11, <2>1, <2>2 DEF StampsInv
<1>. QED BY <1>10, <1>12

LEMMA InsertSignalKeepsIds ==
  ASSUME TablesInv, IdsInv, StampsInv, NEW p \in Pipelines, InsertSignal(p)
  PROVE  IdsInv' /\ StampsInv'
<1>1. /\ stage[p] = "signal" /\ stage' = [stage EXCEPT ![p] = "decided"]
      /\ UNCHANGED <<now, alerts, draft>> /\ signals' = signals \union {draft[p]}
  BY DEF InsertSignal
<1>2. stage'[p] = "decided" /\ \A q \in Pipelines \ {p} : stage'[q] = stage[q]
  BY <1>1 DEF TablesInv
<1>3. p \in Working /\ Working' = Working
  BY <1>1, <1>2 DEF Working
<1>4. draft[p] \in NewSignals /\ draft[p].id \notin Ids(signals)
  BY <1>1, <1>3 DEF IdsInv, RunOK
<1>5. Ids(signals') = Ids(signals) \union {draft[p].id}
  BY <1>1 DEF Ids
<1>6. IdsInv'
  <2>1. \A q \in Pipelines : RunOK(q)'
    BY <1>1, <1>2, <1>4 DEF IdsInv, RunOK
  <2>2. \A q \in Working' : stage'[q] = "signal" => draft'[q].id \notin Ids(signals')
    BY <1>1, <1>2, <1>3, <1>5 DEF IdsInv, Working
  <2>3. signals' \subseteq SignalRows /\ \A x, y \in signals' : x.id = y.id => x = y
    BY <1>1, <1>4 DEF IdsInv, SignalRows, Ids
  <2>. QED BY <1>1, <1>3, <2>1, <2>2, <2>3 DEF IdsInv, Ids
<1>7. Stamped' = Stamped
  BY <1>1, <1>3 DEF Stamped
<1>. QED BY <1>1, <1>6, <1>7 DEF StampsInv, Past

LEMMA StampAlertKeepsIds ==
  ASSUME TablesInv, IdsInv, StampsInv, NEW p \in Pipelines, StampAlert(p)
  PROVE  IdsInv' /\ StampsInv'
<1>1. /\ now \in Nat /\ now' = now + 1 /\ UNCHANGED <<signals, alerts>>
      /\ stage[p] = "decided" /\ stage' = [stage EXCEPT ![p] = "alert"]
      /\ draft' = [draft EXCEPT ![p] = [id |-> draft[p].id, at |-> now + 1, signal |-> draft[p]]]
  BY DEF StampAlert, Tick, tables, TablesInv
<1>2. PICK row : row = [id |-> draft[p].id, at |-> now + 1, signal |-> draft[p]]
  OBVIOUS
<1>3. /\ stage'[p] = "alert" /\ draft'[p] = row
      /\ \A q \in Pipelines \ {p} : stage'[q] = stage[q] /\ draft'[q] = draft[q]
  BY <1>1, <1>2 DEF TablesInv
<1>4. draft[p] \in NewSignals /\ draft[p].id \in Nat
  BY <1>1 DEF IdsInv, RunOK, NewSignals
<1>5. /\ row \in AlertRows /\ row.id = draft[p].id /\ row.id = row.signal.id /\ row.at = now + 1
  BY <1>1, <1>2, <1>4 DEF AlertRows
<1>6. p \in Working /\ Working' = Working
  BY <1>1, <1>3 DEF Working
<1>7. \A q \in Pipelines : draft'[q].id = draft[q].id
  BY <1>3, <1>5
<1>8. IdsInv'
  <2>1. \A q \in Pipelines : RunOK(q)'
    BY <1>3, <1>5 DEF IdsInv, RunOK
  <2>2. \A q \in Working' : /\ stage'[q] = "signal" => draft'[q].id \notin Ids(signals)
                            /\ draft'[q].id \notin Ids(alerts)
    BY <1>3, <1>6, <1>7 DEF IdsInv, Working
  <2>3. \A q, o \in Working' : draft'[q].id = draft'[o].id => q = o
    BY <1>6, <1>7 DEF IdsInv, Working
  <2>. QED BY <1>1, <2>1, <2>2, <2>3 DEF IdsInv, Ids
<1>9. Stamped' \subseteq Stamped \union {row}
  BY <1>1, <1>3, <1>6 DEF Stamped, Working
<1>10. StampsInv'
  <2>1. \A y \in Stamped : Past(y.at)' /\ y.at # row.at
    BY <1>1, <1>5 DEF StampsInv, Past
  <2>2. Past(row.at)'
    BY <1>1, <1>5 DEF Past
  <2>. QED BY <1>9, <2>1, <2>2 DEF StampsInv
<1>. QED BY <1>8, <1>10

LEMMA EndRunKeepsIds ==
  ASSUME TablesInv, IdsInv, StampsInv, NEW p \in Pipelines, InsertAlert(p) \/ NoAlert(p)
  PROVE  IdsInv' /\ StampsInv'
<1>1. /\ UNCHANGED <<now, signals>> /\ stage' = [stage EXCEPT ![p] = "idle"]
      /\ draft' = [draft EXCEPT ![p] = None] /\ stage[p] \in {"decided", "alert"}
      /\ alerts' = alerts \/ (stage[p] = "alert" /\ alerts' = alerts \union {draft[p]})
  BY DEF InsertAlert, NoAlert, EndRun
<1>2. /\ stage'[p] = "idle" /\ draft'[p] = None
      /\ \A q \in Pipelines \ {p} : stage'[q] = stage[q] /\ draft'[q] = draft[q]
  BY <1>1 DEF TablesInv
<1>3. p \in Working /\ Working' = Working \ {p}
  BY <1>1, <1>2 DEF Working
<1>4. stage[p] = "alert" => draft[p] \in AlertRows /\ draft[p].id = draft[p].signal.id
  BY DEF IdsInv, RunOK
<1>5. \A q \in Working' : draft[q].id # draft[p].id /\ q \in Working /\ q \in Pipelines \ {p}
  BY <1>3 DEF IdsInv, Working
<1>6. IdsInv'
  <2>1. \A q \in Pipelines : RunOK(q)'
    BY <1>2 DEF IdsInv, RunOK
  <2>2. \A q \in Working' : draft'[q].id \notin Ids(alerts')
    BY <1>1, <1>2, <1>5 DEF IdsInv, Ids
  <2>3. /\ alerts' \subseteq AlertRows /\ \A x \in alerts' : x.id = x.signal.id
        /\ \A x, y \in alerts' : x.id = y.id => x = y
    BY <1>1, <1>3, <1>4 DEF IdsInv, Ids
  <2>4. /\ \A q, o \in Working' : draft'[q].id = draft'[o].id => q = o
        /\ \A q \in Working' : stage'[q] = "signal" => draft'[q].id \notin Ids(signals)
    BY <1>2, <1>5 DEF IdsInv
  <2>. QED BY <1>1, <2>1, <2>2, <2>3, <2>4 DEF IdsInv, Ids
<1>7. Stamped' \subseteq Stamped
  BY <1>1, <1>2, <1>3, <1>5 DEF Stamped
<1>. QED BY <1>1, <1>6, <1>7 DEF StampsInv, Past

\* Time that passes, and what does not concern the pipeline, disturbs no identity.
LEMMA OthersKeepIds ==
  ASSUME TablesInv, IdsInv, StampsInv, now' \in {now, now + 1},
         UNCHANGED <<signals, alerts, stage, draft>>
  PROVE  IdsInv' /\ StampsInv'
<1>1. now \in Nat /\ \A t : Past(t) => Past(t)'
  BY DEF Past, TablesInv
<1>2. Working' = Working /\ Stamped' = Stamped
  BY DEF Working, Stamped
<1>3. IdsInv'
  BY <1>2 DEF IdsInv, RunOK, Ids
<1>. QED BY <1>1, <1>2, <1>3 DEF StampsInv

LEMMA NextKeepsIds ==
  ASSUME ExportInv, IdsInv, StampsInv, [Next]_vars
  PROVE  IdsInv' /\ StampsInv'
<1>. USE DEF ExportInv
<1>1. CASE \E p \in Pipelines : Pipeline(p)
  BY <1>1, StampSignalKeepsIds, InsertSignalKeepsIds, StampAlertKeepsIds, EndRunKeepsIds DEF Pipeline
<1>2. CASE \E r \in Requests : Export(r) \/ ForecastStep(r)
  BY <1>2, RequestFrame, OthersKeepIds
<1>3. CASE StorePrice \/ UNCHANGED vars
  <2>1. now' \in {now, now + 1} /\ UNCHANGED <<signals, alerts, stage, draft>>
    BY <1>3 DEF StorePrice, Tick, pipelineVars, vars, tables
  <2>. QED BY <2>1, OthersKeepIds
<1>. QED BY <1>1, <1>2, <1>3 DEF Next

-----------------------------------------------------------------------------
(* Prices, and responses.                                                   *)

\* The market stream numbers prices in their order.
PricesInv ==
  /\ now <= MaxTime
  /\ IsFiniteSet(prices) /\ prices \subseteq PriceRows
  /\ \A x \in prices : x.id \in 1..Cardinality(prices)
  /\ \A x, y \in prices : x.id = y.id => x = y

LEMMA InitPricesInv == Init => PricesInv
<1>. SUFFICES ASSUME Init PROVE PricesInv
  OBVIOUS
<1>1. PICK h \in Histories : signals = h.signals /\ prices = h.prices
  BY DEF Init
<1>2. now \in {0} \union {x.at : x \in signals \union prices}
  BY InitNow
<1>3. now <= MaxTime
  BY <1>1, <1>2, IdsAssumption, SizesAssumption
<1>4. IsFiniteSet(prices) /\ prices \subseteq PriceRows
  BY <1>1, HistoriesAssumption DEF PriceRows
<1>5. /\ \A x \in prices : x.id \in 1..Cardinality(prices)
      /\ \A x, y \in prices : x.id = y.id => x = y
  BY <1>1, IdsAssumption
<1>. QED BY <1>3, <1>4, <1>5 DEF PricesInv

LEMMA NextKeepsPrices ==
  ASSUME ExportInv, PricesInv, [Next]_vars
  PROVE  PricesInv'
<1>1. now' <= MaxTime
  <2>1. now' = now \/ Tick
    BY Zenon DEF Next, vars, Pipeline, StampSignal, InsertSignal, StampAlert, InsertAlert, NoAlert,
           EndRun, StorePrice, Export, AskExport, ExportSignals, ExportAlerts, AskBacktest, Backtest,
           ForecastStep, AskForecast, HasModel, WantModel, TakeLock, Load, LoadFails, Infer,
           InferenceFails, forecastFrame
  <2>. QED BY <2>1, SizesAssumption DEF PricesInv, ExportInv, TablesInv, Tick
<1>2. CASE StorePrice
  <2>1. PICK q \in Quotes : prices' = prices \union
          {[id |-> Cardinality(prices) + 1, ticker |-> Subject, at |-> now + 1, price |-> q]}
    BY <1>2 DEF StorePrice
  <2>2. PICK row : row = [id |-> Cardinality(prices) + 1, ticker |-> Subject, at |-> now + 1, price |-> q]
    OBVIOUS
  <2>3. PICK n \in Nat : n = Cardinality(prices)
    BY FS_CardinalityType DEF PricesInv
  <2>4. row \in PriceRows /\ row.id = n + 1
    BY <2>2, <2>3 DEF ExportInv, TablesInv, PriceRows
  <2>5. \A x \in prices : x.id \in 1..n /\ x.id # n + 1
    BY <2>3 DEF PricesInv
  <2>6. prices' = prices \union {row} /\ row \notin prices
    BY <2>1, <2>2, <2>4, <2>5
  <2>7. IsFiniteSet(prices') /\ Cardinality(prices') = n + 1
    BY <2>3, <2>6, FS_AddElement DEF PricesInv
  <2>8. \A x \in prices' : x.id \in 1..n + 1
    BY <2>4, <2>5, <2>6
  <2>9. \A x, y \in prices' : x.id = y.id => x = y
    BY <2>4, <2>5, <2>6 DEF PricesInv
  <2>. QED BY <1>1, <2>4, <2>6, <2>7, <2>8, <2>9 DEF PricesInv
<1>3. CASE ~StorePrice
  <2>1. prices' = prices
    BY <1>3 DEF Next, vars, Pipeline, StampSignal, InsertSignal, StampAlert, InsertAlert, NoAlert,
                EndRun, Export, AskExport, ExportSignals, ExportAlerts, AskBacktest, Backtest,
                ForecastStep, AskForecast, HasModel, WantModel, TakeLock, Load, LoadFails, Infer,
                InferenceFails, forecastFrame, tables
  <2>. QED BY <1>1, <2>1 DEF PricesInv
<1>. QED BY <1>2, <1>3

\* What a backtest returns.
LEMMA BacktestType ==
  ASSUME NEW shown, IsFiniteSet(shown), Priced(shown),
         NEW rows, IsFiniteSet(rows), \A s \in rows : s.at \in Nat,
         NEW strategy, NEW threshold
  PROVE  run_backtest(rows, shown, strategy, threshold) \in Backtests
<1>. DEFINE run == run_backtest(rows, shown, strategy, threshold)
<1>1. \A n \in Int : Whole(n) \in Ratios
  BY DEF Whole, Ratios
<1>2. CASE rows = {} \/ shown = {}
  <2>1. run = [trades |-> <<>>, equity |-> <<>>, wins |-> 0, closed |-> 0,
               max_drawdown |-> Whole(0), total_return |-> Whole(0)]
    BY <1>2, Zenon DEF run_backtest
  <2>2. <<>> \in Seq(TradeRows) /\ <<>> \in Seq(Ratios) /\ 0 \in Nat
    OBVIOUS
  <2>. HIDE DEF run
  <2>. QED BY <1>1, <2>1, <2>2 DEF Backtests, run
<1>3. CASE ~(rows = {} \/ shown = {})
  <2>. DEFINE seq == Ordered(shown)
              list == Ordered(rows)
              w == Walk(list, seq, strategy, threshold)
              last == Last(seq)
              held == Plus(w.cash, Times(w.shares, Whole(last.price)))
              sales == {i \in DOMAIN w.trades : w.trades[i].side = "sell"}
  <2>1. seq \in Seq(shown) /\ Len(seq) > 0 /\ list \in Seq(rows)
    <3>1. \A r \in shown : r.at \in Nat
      BY DEF Priced
    <3>. QED BY <1>3, <3>1, OrderedType
  <2>2. run = [trades |-> w.trades, equity |-> w.equity,
               wins |-> Cardinality(Wins(w.trades)), closed |-> Cardinality(sales),
               max_drawdown |-> Drawdown(w.equity), total_return |-> Minus(held, Whole(1))]
    BY <1>3, Zenon DEF run_backtest
  <2>. HIDE DEF run, seq, list
  <2>3. WalkOK(w, seq)
    BY <2>1, WalkEnds
  <2>4. last.price \in Nat \ {0}
    <3>1. last = seq[Len(seq)] /\ seq[Len(seq)] \in shown
      BY <2>1 DEF Last
    <3>. HIDE DEF last
    <3>. QED BY <3>1 DEF Priced
  <2>. HIDE DEF w, last
  <2>5. /\ w.trades \in Seq(TradeRows) /\ w.equity \in Seq(Positive) /\ Alternates(w.trades, seq)
    BY <2>3 DEF WalkOK, Walkers
  <2>6. held \in Positive
    BY <2>3, <2>4, TotalOf
  <2>7. Minus(held, Whole(1)) \in Ratios
    <3>. HIDE DEF held
    <3>1. held \in Ratios /\ held[1] \in Nat \ {0} /\ held[2] \in Nat \ {0}
      BY <2>6 DEF Positive, Ratios
    <3>2. Minus(held, Whole(1)) = <<held[1] - held[2], held[2]>>
      BY <3>1, MinusOne
    <3>. QED BY <3>1, <3>2 DEF Ratios
  <2>8. Drawdown(w.equity) \in Ratios
    BY <2>5, DrawdownOK DEF Falls
  <2>9. w.equity \in Seq(Ratios)
    <3>1. Positive \subseteq Ratios
      BY DEF Positive, Ratios
    <3>. QED BY <2>5, <3>1
  <2>10. Cardinality(Wins(w.trades)) \in Nat /\ Cardinality(sales) \in Nat
    <3>1. DOMAIN w.trades = 1..Len(w.trades) /\ 1 \in Int /\ Len(w.trades) \in Int
      BY <2>5
    <3>2. IsFiniteSet(DOMAIN w.trades)
      BY <3>1, FS_Interval
    <3>3. Wins(w.trades) \subseteq DOMAIN w.trades /\ sales \subseteq DOMAIN w.trades
      BY DEF Wins
    <3>. HIDE DEF sales
    <3>. QED BY <3>2, <3>3, FS_Subset, FS_CardinalityType
  <2>. HIDE DEF sales, held
  <2>11. run \in Backtests
    BY <2>2, <2>5, <2>7, <2>8, <2>9, <2>10 DEF Backtests
  <2>. QED BY <2>11 DEF run
<1>. QED BY <1>2, <1>3

\* What a request holds, and what it is answered.
ResponseOK(r) ==
  /\ pc[r] = "alerts" => read[r] \subseteq SignalRows
  /\ pc[r] = "done" => answer[r] \in Responses

ResponsesInv ==
  /\ \A r \in Requests : ResponseOK(r)
  /\ cache # None => cache.expires \in 0..MaxTime + CacheTTL

\* A forecast is of prices, and an export of signals and alerts.
LEMMA ForecastResponds ==
  ASSUME NEW history, history \subseteq prices, PricesInv
  PROVE  Forecast(history) \in Responses
<1>1. history \in SUBSET PriceRows
  BY DEF PricesInv
<1>2. Forecast(history) \in [kind : {"forecast"}, history : SUBSET PriceRows]
  BY <1>1 DEF Forecast
<1>. QED BY <1>2, Zenon DEF Responses

LEMMA RefusalResponds ==
  ASSUME NEW code \in {"INSUFFICIENT_HISTORY", "TIMESFM_UNAVAILABLE", "FORECAST_INFERENCE_FAILED"}
  PROVE  Refusal(code) \in Responses
BY DEF Refusal, Responses

LEMMA ExportResponds ==
  ASSUME NEW kind \in {"ticker", "bulk"}, NEW rows, rows \subseteq SignalRows,
         NEW others, others \subseteq AlertRows
  PROVE  [kind |-> kind, signals |-> rows, alerts |-> others] \in Responses
<1>1. [kind |-> kind, signals |-> rows, alerts |-> others]
        \in [kind : {"ticker", "bulk"}, signals : SUBSET SignalRows, alerts : SUBSET AlertRows]
  OBVIOUS
<1>. QED BY <1>1, Zenon DEF Responses

LEMMA BacktestResponds ==
  ASSUME NEW shown, shown \subseteq PriceRows, NEW run \in Backtests
  PROVE  [kind |-> "backtest", prices |-> shown, run |-> run] \in Responses
<1>1. [kind |-> "backtest", prices |-> shown, run |-> run]
        \in [kind : {"backtest"}, prices : SUBSET PriceRows, run : Backtests]
  OBVIOUS
<1>. QED BY <1>1, Zenon DEF Responses

LEMMA ForecastKeepsResponses ==
  ASSUME ExportInv, ForecastInv, PricesInv, ResponsesInv, NEW r \in Requests, ForecastStep(r)
  PROVE  ResponseOK(r)' /\ (cache' # None => cache'.expires \in 0..MaxTime + CacheTTL)
<1>. USE DEF ResponseOK
<1>1. CASE AskForecast(r)
  <2>1. UNCHANGED cache /\ pc[r] = "new"
    BY <1>1 DEF AskForecast, modelVars
  <2>2. CASE cache # None /\ now < cache.expires
    <3>1. pc'[r] = "done" /\ answer'[r] = Forecast(cache.history)
      BY <1>1, <2>2 DEF AskForecast, Answer, Goto, ExportInv
    <3>2. cache.history \subseteq prices
      BY <2>2 DEF ForecastInv, Enough
    <3>. QED BY <2>1, <3>1, <3>2, ForecastResponds DEF ResponsesInv
  <2>3. CASE ~(cache # None /\ now < cache.expires)
    <3>1. \/ pc'[r] = "done" /\ answer'[r] = Refusal("INSUFFICIENT_HISTORY")
          \/ pc'[r] = "model"
      BY <1>1, <2>3 DEF AskForecast, Answer, Goto, ExportInv
    <3>. QED BY <2>1, <3>1, RefusalResponds DEF ResponsesInv
  <2>. QED BY <2>2, <2>3
<1>2. CASE HasModel(r) \/ WantModel(r) \/ TakeLock(r) \/ Load(r)
  <2>1. cache' = cache /\ pc'[r] \in {"infer", "lock", "load"}
    BY <1>2 DEF HasModel, WantModel, TakeLock, Load, Goto, ExportInv, modelVars
  <2>. QED BY <2>1 DEF ResponsesInv
<1>3. CASE LoadFails(r) \/ InferenceFails(r)
  <2>1. cache' = cache /\ pc'[r] = "done"
    BY <1>3 DEF LoadFails, InferenceFails, Answer, Goto, ExportInv, modelVars
  <2>2. answer'[r] \in {Refusal("TIMESFM_UNAVAILABLE"), Refusal("FORECAST_INFERENCE_FAILED")}
    BY <1>3 DEF LoadFails, InferenceFails, Answer, ExportInv
  <2>. QED BY <2>1, <2>2, RefusalResponds DEF ResponsesInv
<1>4. CASE Infer(r)
  <2>1. /\ pc[r] = "infer" /\ pc'[r] = "done" /\ answer'[r] = Forecast(read[r])
        /\ cache' = [history |-> read[r], expires |-> now + CacheTTL]
    BY <1>4 DEF Infer, Answer, Goto, ExportInv
  <2>2. read[r] \subseteq prices
    BY <2>1 DEF ForecastInv, ForecastOK, Enough
  <2>3. now + CacheTTL \in 0..MaxTime + CacheTTL
    BY SizesAssumption DEF PricesInv, ExportInv, TablesInv
  <2>4. cache'.expires = now + CacheTTL
    BY <2>1
  <2>. QED BY <2>1, <2>2, <2>3, <2>4, ForecastResponds
<1>. QED BY <1>1, <1>2, <1>3, <1>4 DEF ForecastStep

LEMMA ExportKeepsResponses ==
  ASSUME ExportInv, IdsInv, BacktestInv, PricesInv, ResponsesInv, NEW r \in Requests, Export(r)
  PROVE  ResponseOK(r)' /\ (cache' # None => cache'.expires \in 0..MaxTime + CacheTTL)
<1>. USE DEF ResponseOK
<1>1. cache' = cache
  BY DEF Export, AskExport, ExportSignals, ExportAlerts, AskBacktest, Backtest, modelVars
<1>2. \A rows, from, to, bounded : Section(rows, from, to, bounded) \subseteq rows
  BY DEF Section
<1>3. CASE AskExport(r) \/ AskBacktest(r)
  <2>1. pc'[r] \in {"signals", "prices"}
    BY <1>3 DEF AskExport, AskBacktest, Goto, ExportInv
  <2>. QED BY <1>1, <2>1 DEF ResponsesInv
<1>4. CASE ExportSignals(r)
  <2>1. pc'[r] = "alerts" /\ read'[r] = Exported(r, signals)
    BY <1>4 DEF ExportSignals, Reads, Goto, ExportInv
  <2>2. read'[r] \subseteq SignalRows
    BY <1>2, <2>1 DEF Exported, IdsInv
  <2>. QED BY <1>1, <2>1, <2>2 DEF ResponsesInv
<1>5. CASE ExportAlerts(r)
  <2>1. /\ pc[r] = "alerts" /\ pc'[r] = "done" /\ AskedOK(r)
        /\ answer'[r] = [kind |-> asked[r].kind, signals |-> read[r], alerts |-> Exported(r, alerts)]
    BY <1>5 DEF ExportAlerts, Answer, Goto, ExportInv, RequestOK
  <2>2. Exported(r, alerts) \subseteq AlertRows /\ read[r] \subseteq SignalRows
    BY <1>2, <2>1 DEF Exported, IdsInv, ResponsesInv
  <2>3. asked[r].kind \in {"ticker", "bulk"}
    BY <2>1 DEF AskedOK
  <2>. QED BY <1>1, <2>1, <2>2, <2>3, ExportResponds DEF ResponsesInv
<1>6. CASE Backtest(r)
  <2>. DEFINE shown == Within(Of(prices, Subject), asked[r].from, asked[r].to)
              run == run_backtest(read[r], shown, asked[r].strategy, asked[r].threshold)
  <2>1. pc[r] = "prices" /\ Answer(r, [kind |-> "backtest", prices |-> shown, run |-> run])
    BY <1>6, Zenon DEF Backtest
  <2>2. shown \subseteq prices
    BY DEF Within, Of
  <2>3. IsFiniteSet(shown) /\ Priced(shown) /\ shown \subseteq PriceRows
    BY <2>2, FS_Subset DEF BacktestInv, Priced, PricesInv
  <2>4. IsFiniteSet(read[r]) /\ \A s \in read[r] : s.at \in Nat
    BY <2>1 DEF BacktestInv, BacktestRequestOK
  <2>. HIDE DEF shown
  <2>5. run \in Backtests
    BY <2>3, <2>4, BacktestType
  <2>. HIDE DEF run
  <2>6. pc'[r] = "done" /\ answer'[r] = [kind |-> "backtest", prices |-> shown, run |-> run]
    BY <2>1 DEF Answer, Goto, ExportInv
  <2>. QED BY <1>1, <2>3, <2>5, <2>6, BacktestResponds DEF ResponsesInv
<1>. QED BY <1>3, <1>4, <1>5, <1>6 DEF Export

LEMMA NextKeepsResponses ==
  ASSUME ExportInv, IdsInv, ForecastInv, BacktestInv, PricesInv, ResponsesInv, [Next]_vars
  PROVE  ResponsesInv'
<1>1. ASSUME NEW q \in Requests, pc'[q] = pc[q], read'[q] = read[q], answer'[q] = answer[q]
      PROVE  ResponseOK(q)'
  BY <1>1 DEF ResponsesInv, ResponseOK
<1>2. CASE \E r \in Requests : Export(r) \/ ForecastStep(r)
  <2>1. PICK r \in Requests : Export(r) \/ ForecastStep(r)
    BY <1>2
  <2>2. ResponseOK(r)' /\ (cache' # None => cache'.expires \in 0..MaxTime + CacheTTL)
    BY <2>1, ExportKeepsResponses, ForecastKeepsResponses
  <2>3. \A q \in Requests \ {r} : ResponseOK(q)'
    BY <1>1, <2>1, RequestFrame
  <2>. QED BY <2>2, <2>3 DEF ResponsesInv
<1>3. CASE ~\E r \in Requests : Export(r) \/ ForecastStep(r)
  <2>1. UNCHANGED <<pc, read, answer, cache>>
    BY <1>3 DEF Next, vars, Pipeline, StampSignal, InsertSignal, StampAlert, InsertAlert, NoAlert,
                EndRun, StorePrice, requestVars, modelVars
  <2>. QED BY <1>1, <2>1 DEF ResponsesInv
<1>. QED BY <1>2, <1>3

\* All of it together is what the tables, the pipelines and the requests may be.
RowsInv == IdsInv /\ StampsInv /\ PricesInv /\ ResponsesInv

LEMMA InvariantsAreTypes ==
  LoadInv /\ ExportInv /\ ForecastInv /\ RowsInv => TypeOK
<1>. SUFFICES ASSUME LoadInv, ExportInv, ForecastInv, IdsInv, StampsInv, PricesInv, ResponsesInv
              PROVE  TypeOK
  BY DEF RowsInv
<1>1. now \in 0..MaxTime
  BY SizesAssumption DEF PricesInv, ExportInv, TablesInv
<1>2. loads \in 0..Cardinality(Requests)
  <2>1. Cardinality(Requests) \in Nat
    BY SizesAssumption, FS_CardinalityType
  <2>2. CASE model = None
    BY <2>1, <2>2 DEF LoadInv
  <2>3. CASE model # None
    <3>1. Requests # {} /\ loads = 1
      BY <2>3 DEF LoadInv
    <3>2. Cardinality(Requests) # 0
      BY <3>1, SizesAssumption, FS_EmptySet
    <3>. QED BY <2>1, <3>1, <3>2
  <2>. QED BY <2>2, <2>3
<1>3. \A x, y \in signals \union alerts : x.at = y.at => x = y
  BY DEF StampsInv, Stamped
<1>4. /\ signals \subseteq SignalRows /\ alerts \subseteq AlertRows /\ prices \subseteq PriceRows
      /\ \A rows \in {signals, alerts, prices} : \A x, y \in rows : x.id = y.id => x = y
  BY DEF IdsInv, PricesInv
<1>5. \A p \in Pipelines : /\ stage[p] = "idle" <=> draft[p] = None
                           /\ stage[p] \in {"idle", "signal", "decided", "alert"}
  BY RowsAssumption DEF IdsInv, RunOK
<1>6. pc \in [Requests -> {"new", "signals", "alerts", "prices", "model", "lock", "load", "infer", "done"}]
  BY DEF LoadInv, Places
<1>7. \A r \in Requests : /\ pc[r] = "done" <=> answer[r] # None
                          /\ answer[r] \in Responses \union {None}
  <2>1. None \notin Responses
    BY RowsAssumption
  <2>. QED BY <2>1 DEF ExportInv, RequestOK, ResponsesInv, ResponseOK
<1>8. answer \in [Requests -> Responses \union {None}]
  BY <1>7 DEF ExportInv
<1>9. /\ model \in Requests \union {None} /\ lock \in Requests \union {None}
      /\ \A r \in Requests : lock = r <=> pc[r] = "load"
  BY DEF LoadInv
<1>10. cache # None => cache.history # {} /\ cache.expires \in 0..MaxTime + CacheTTL
  <2>. SUFFICES ASSUME cache # None PROVE cache.history # {} /\ cache.expires \in 0..MaxTime + CacheTTL
    OBVIOUS
  <2>1. Cardinality(cache.history) >= MinHistory /\ MinHistory \in Nat \ {0}
    BY BoundsAssumption, SizesAssumption DEF ForecastInv, Enough
  <2>2. Cardinality({}) = 0
    BY FS_EmptySet
  <2>. QED BY <2>1, <2>2 DEF ResponsesInv
<1>. QED BY <1>1, <1>2, <1>3, <1>4, <1>5, <1>6, <1>7, <1>8, <1>9, <1>10 DEF TypeOK

\* Rows have identities and times of their own, whichever pipelines and requests
\* interleave: a signal or an alert that is only stamped takes none from a row
\* that is stored meanwhile; and what is answered, cached and locked is what the
\* place of its request says.
THEOREM TypeCorrect == Spec => []TypeOK
<1>. DEFINE Inv == LoadInv /\ ExportInv /\ ForecastInv /\ BacktestInv /\ RowsInv
<1>1. Init => Inv
  <2>. SUFFICES ASSUME Init PROVE Inv
    OBVIOUS
  <2>1. ForecastInv
    BY HistoriesAssumption DEF Init, ForecastInv, ForecastOK
  <2>2. BacktestInv
    BY HistoriesAssumption, PricesAssumption DEF Init, BacktestInv, BacktestRequestOK, Priced
  <2>3. ResponsesInv
    BY DEF Init, ResponsesInv, ResponseOK
  <2>. QED
    BY <2>1, <2>2, <2>3, InitLoadInv, InitExportInv, InitIdsInv, InitPricesInv DEF RowsInv
<1>2. Inv /\ [Next]_vars => Inv'
  <2>. SUFFICES ASSUME Inv, [Next]_vars PROVE Inv'
    OBVIOUS
  <2>1. LoadInv' /\ ExportInv' /\ ForecastInv' /\ BacktestInv'
    BY NextKeepsLoadInv, NextKeepsExportInv, NextKeepsForecastInv, NextKeepsBacktestInv
  <2>2. RowsInv'
    BY NextKeepsIds, NextKeepsPrices, NextKeepsResponses DEF RowsInv
  <2>. QED BY <2>1, <2>2
<1>3. Inv => TypeOK
  BY InvariantsAreTypes
<1>. QED BY <1>1, <1>2, <1>3, PTL DEF Spec

=================================================================================
