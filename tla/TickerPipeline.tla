----------------------------- MODULE TickerPipeline -----------------------------
(***************************************************************************)
(* run_pipeline_for_ticker (apps/pipeline/pipeline.py) for one ticker, run  *)
(* at the same time by the Celery task and by the news stream daemon        *)
(* (apps/social/news_stream.py), which takes no lock: fetch and store       *)
(* posts, score what is unscored, compute a signal from the posts of the    *)
(* last half hour, store it with its decision log, flag a suspected pump    *)
(* with an alert of its own, and raise an alert unless one of the same type *)
(* is recent (apps/signals/alerts.py).                                      *)
(*                                                                          *)
(* Every query and every write is a transaction of its own.  A Tick is half *)
(* an hour, and only ages that the code still tells apart are kept, so that *)
(* the number of runs needs no bound.  What aggregation makes of the posts  *)
(* and prices it reads is any of Readings, in units of 1/Scale.             *)
(***************************************************************************)
EXTENDS Integers, Sequences, FiniteSets

CONSTANTS Workers,     \* processes that run the periodic task
          Streams,     \* news stream processes
          Posts,       \* what the feeds may return for the ticker
          Stories,     \* the posts the news stream may deliver
          Readings,    \* raw sentiment, momentum and mention-rate spike
          MinPosts,    \* MIN_POST_COUNT of alerts.py
          PumpPosts,   \* MIN_POST_COUNT of detector.py
          Cooldown,    \* ALERT_COOLDOWN, in ticks
          MaxCrashes   \* bound: runs that end in a crash or an exception, and
                       \* pump alerts that cannot be stored

Scale == 40

ASSUME ProcessesAssumption == Workers \cap Streams = {} /\ IsFiniteSet(Workers \union Streams)
ASSUME StoriesAssumption == Stories \subseteq Posts /\ IsFiniteSet(Posts)
ASSUME ReadingsAssumption ==
  Readings \subseteq [raw : -Scale..Scale, momentum : -Scale..Scale, spike : BOOLEAN]
ASSUME BoundsAssumption ==
  MinPosts \in Nat \ {0} /\ PumpPosts \in Nat /\ Cooldown \in Nat /\ MaxCrashes \in Nat

VARIABLES
  age,       \* of each stored post, in ticks, up to TooOld; Unstored before
  scored,    \* posts with a sentiment score
  unlogged,  \* SignalSnapshot rows without a DecisionLog row
  unraised,  \* ManipulationFlag rows without their AlertFlag row
  alerts,    \* ages of the AlertFlag rows of each cooled type within the cooldown
  pc,        \* where each process is
  batch,     \* unscored posts a run has loaded
  tooOld,    \* posts that were out of the window when the run took its cutoff
  count,     \* post_count, the number of posts in the window
  listed,    \* the number of posts the aggregation then read
  reading,   \* what the aggregation made of them
  crashes

locals == <<batch, tooOld, count, listed, reading>>
rows == <<unlogged, unraised>>
vars == <<age, scored, rows, alerts, pc, locals, crashes>>

Processes == Workers \union Streams

\* The types that check_and_create_alert gives.  The fourth one, pump_suspected,
\* has no cooldown: its alerts are as many as the runs that suspect a pump.
CooledTypes == {"hype_fade", "extreme_sentiment", "divergence"}

Unstored == -1
TooOld   == 2    \* ticks: the window is one tick, half an hour

Stored   == {x \in Posts : age[x] # Unstored}

\* Mutant: what the feeds returned is scored, stored or not.
UnscoredAnywhere == Posts \ scored

Unscored == Stored \ scored

NoReading == [raw |-> 0, momentum |-> 0, spike |-> FALSE]

Init ==
  /\ age = [x \in Posts |-> Unstored]
  /\ scored = {}
  /\ unlogged = 0 /\ unraised = 0
  /\ alerts = [type \in CooledTypes |-> <<>>]
  /\ pc = [p \in Processes |-> "idle"]
  /\ batch = [p \in Processes |-> {}]
  /\ tooOld = [p \in Processes |-> {}]
  /\ count = [p \in Processes |-> 0]
  /\ listed = [p \in Processes |-> 0]
  /\ reading = [p \in Processes |-> NoReading]
  /\ crashes = 0

Goto(p, stage) == pc' = [pc EXCEPT ![p] = stage]

Forget(p) ==
  /\ batch' = [batch EXCEPT ![p] = {}]
  /\ tooOld' = [tooOld EXCEPT ![p] = {}]
  /\ count' = [count EXCEPT ![p] = 0]
  /\ listed' = [listed EXCEPT ![p] = 0]
  /\ reading' = [reading EXCEPT ![p] = NoReading]

-----------------------------------------------------------------------------
(* Runs begin.                                                              *)

\* The Celery task reaches this ticker.
BeginPeriodic(p) ==
  /\ p \in Workers
  /\ pc[p] = "idle"
  /\ Goto(p, "fetching")
  /\ UNCHANGED <<age, scored, rows, alerts, locals, crashes>>

\* handle_news: get_or_create, and a run only if the post is new.  A story that
\* is stored already is dropped.
DeliverStory(p, x) ==
  /\ p \in Streams
  /\ pc[p] = "idle"
  /\ x \notin Stored
  /\ age' = [age EXCEPT ![x] = 0]
  /\ Goto(p, "fetching")
  /\ UNCHANGED <<scored, rows, alerts, locals, crashes>>

-----------------------------------------------------------------------------
(* Steps 1 to 4: posts.                                                     *)

\* A fetcher returns a post of quality, and get_or_create finds it new.
StorePost(p, x) ==
  /\ pc[p] = "fetching"
  /\ x \notin Stored
  /\ age' = [age EXCEPT ![x] = 0]
  /\ UNCHANGED <<scored, rows, alerts, pc, locals, crashes>>

\* Mutant: only posts still in the window are loaded for scoring.
RecentUnscored == {x \in Unscored : age[x] < TooOld}

ToScore == Unscored

\* The fetchers are done, failed ones included; the unscored posts are listed.
LoadUnscored(p) ==
  /\ pc[p] = "fetching"
  /\ batch' = [batch EXCEPT ![p] = ToScore]
  /\ Goto(p, "scoring")
  /\ UNCHANGED <<age, scored, rows, alerts, tooOld, count, listed, reading, crashes>>

\* compute_signal takes its cutoff.
TakeCutoff(p) ==
  /\ batch' = [batch EXCEPT ![p] = {}]
  /\ tooOld' = [tooOld EXCEPT ![p] = {x \in Stored : age[x] = TooOld}]
  /\ Goto(p, "counting")

\* score_batch and bulk_update; other runs may have scored the posts meanwhile.
ScoreBatch(p) ==
  /\ pc[p] = "scoring"
  /\ scored' = scored \union batch[p]
  /\ TakeCutoff(p)
  /\ UNCHANGED <<age, rows, alerts, count, listed, reading, crashes>>

\* The scorer raises: logged, nothing is saved, and the run goes on.
ScoringFails(p) ==
  /\ pc[p] = "scoring"
  /\ batch[p] # {}
  /\ TakeCutoff(p)
  /\ UNCHANGED <<age, scored, rows, alerts, count, listed, reading, crashes>>

-----------------------------------------------------------------------------
(* Step 5: the signal.                                                      *)

\* Mutant: each of the two queries takes a cutoff of its own.
MovingWindow(p) == {x \in scored : age[x] < TooOld}

\* Scored posts fetched since the cutoff; those stored after it are among them.
Window(p) == scored \ tooOld[p]

\* post_count; without posts the run ends.
CountPosts(p) ==
  /\ pc[p] = "counting"
  /\ IF Window(p) = {} THEN Goto(p, "idle") /\ Forget(p)
     ELSE /\ count' = [count EXCEPT ![p] = Cardinality(Window(p))]
          /\ Goto(p, "reading")
          /\ UNCHANGED <<batch, tooOld, listed, reading>>
  /\ UNCHANGED <<age, scored, rows, alerts, crashes>>

\* The same query again, for the posts; and the prices.
ReadPosts(p) ==
  /\ pc[p] = "reading"
  /\ listed' = [listed EXCEPT ![p] = Cardinality(Window(p))]
  /\ \E r \in Readings : reading' = [reading EXCEPT ![p] = r]
  /\ tooOld' = [tooOld EXCEPT ![p] = {}]
  /\ Goto(p, "computed")
  /\ UNCHANGED <<age, scored, rows, alerts, batch, count, crashes>>

\* Fade the hype: half the sentiment when mentions spike.
TwiceSentiment(r) == IF r.spike THEN r.raw ELSE 2 * r.raw

Distance(a, b) == IF a > b THEN a - b ELSE b - a

\* Four times the consistency, 1 - |sentiment - momentum| / 2.
FourConsistency(r) == 4 * Scale - Distance(TwiceSentiment(r), 2 * r.momentum)

\* CONSISTENCY_THRESHOLD of engine.py, 0.5.
Consistent(r) == FourConsistency(r) > 2 * Scale

\* BUY_SENTIMENT_THRESHOLD 0.5 and SELL_SENTIMENT_THRESHOLD -0.3.
RuleSignal(r) ==
  IF TwiceSentiment(r) > Scale /\ Consistent(r) THEN "BUY"
  ELSE IF 10 * TwiceSentiment(r) < -6 * Scale /\ Consistent(r) THEN "SELL"
  ELSE "HOLD"

\* The SignalSnapshot row is stored.
CreateSnapshot(p) ==
  /\ pc[p] = "computed"
  /\ unlogged' = unlogged + 1
  /\ Goto(p, "strategies")
  /\ UNCHANGED <<age, scored, unraised, alerts, locals, crashes>>

\* Mutant: an exception of the strategy engine ends the run.
UncaughtStrategies(ok) == IF ok THEN "logging" ELSE "idle"

\* An exception of the strategy engine is logged.
AfterStrategies(ok) == "logging"

EvaluateStrategies(p) ==
  /\ pc[p] = "strategies"
  /\ \E ok \in BOOLEAN : Goto(p, AfterStrategies(ok))
  /\ UNCHANGED <<age, scored, rows, alerts, locals, crashes>>

LogDecision(p) ==
  /\ pc[p] = "logging"
  /\ unlogged' = unlogged - 1
  /\ Goto(p, "detecting")
  /\ UNCHANGED <<age, scored, unraised, alerts, locals, crashes>>

-----------------------------------------------------------------------------
(* Step 5.5: manipulation.                                                  *)

\* detect_pump_pattern.  What it makes of volumes and earlier signals is left
\* open; an exception is logged, as is that of the next step.
DetectPump(p) ==
  /\ pc[p] = "detecting"
  /\ \/ Goto(p, "checking") /\ UNCHANGED unraised
     \/ /\ count[p] >= PumpPosts
        /\ unraised' = unraised + 1
        /\ Goto(p, "flagging")
  /\ UNCHANGED <<age, scored, unlogged, alerts, locals, crashes>>

\* The alert of type pump_suspected is stored, whatever alerts there are.
RaisePump(p) ==
  /\ pc[p] = "flagging"
  /\ unraised' = unraised - 1
  /\ Goto(p, "checking")
  /\ UNCHANGED <<age, scored, unlogged, alerts, locals, crashes>>

\* Or it cannot be stored, and the flag stays without.
RaisingFails(p) ==
  /\ pc[p] = "flagging"
  /\ crashes < MaxCrashes
  /\ crashes' = crashes + 1
  /\ Goto(p, "checking")
  /\ UNCHANGED <<age, scored, rows, alerts, locals>>

-----------------------------------------------------------------------------
(* Step 6: alerts.                                                          *)

\* Enough posts, and hype or a consistency under 0.35.
AlertDue(p) ==
  /\ count[p] >= MinPosts
  /\ reading[p].spike \/ 10 * FourConsistency(reading[p]) < 14 * Scale

\* EXTREME_SENTIMENT_THRESHOLD 0.7.
AlertType(r) ==
  IF r.spike THEN "hype_fade"
  ELSE IF 10 * Distance(TwiceSentiment(r), 0) > 14 * Scale THEN "extreme_sentiment"
  ELSE "divergence"

\* Mutant: no cooldown.
NoCooldown(type) == TRUE

CooldownOver(type) == alerts[type] = <<>>

\* check_and_create_alert up to its query for a recent alert.  Without an alert
\* the run is over, but for what it pushes to the WebSocket groups.
CheckAlert(p) ==
  /\ pc[p] = "checking"
  /\ IF AlertDue(p) /\ CooldownOver(AlertType(reading[p]))
       THEN Goto(p, "alerting") /\ UNCHANGED locals
       ELSE Goto(p, "idle") /\ Forget(p)
  /\ UNCHANGED <<age, scored, rows, alerts, crashes>>

\* The AlertFlag row is stored.
CreateAlert(p) ==
  /\ pc[p] = "alerting"
  /\ alerts' = [alerts EXCEPT ![AlertType(reading[p])] = Append(@, 0)]
  /\ Goto(p, "idle")
  /\ Forget(p)
  /\ UNCHANGED <<age, scored, rows, crashes>>

-----------------------------------------------------------------------------
\* A run ends in an exception, or its process dies and is started again.
Crash(p) ==
  /\ pc[p] # "idle"
  /\ crashes < MaxCrashes
  /\ crashes' = crashes + 1
  /\ Goto(p, "idle")
  /\ Forget(p)
  /\ UNCHANGED <<age, scored, rows, alerts>>

\* The alerts of one type half an hour later, oldest first: those past the
\* cooldown drop out.
Aged(ages) ==
  LET over == Cardinality({i \in 1..Len(ages) : ages[i] >= Cooldown}) IN
  [i \in 1..Len(ages) - over |-> ages[i + over] + 1]

\* Half an hour passes.
Tick ==
  /\ age' = [x \in Posts |-> IF age[x] \in {Unstored, TooOld} THEN age[x] ELSE age[x] + 1]
  /\ alerts' = [type \in CooledTypes |-> Aged(alerts[type])]
  /\ UNCHANGED <<scored, rows, pc, locals, crashes>>

Begin(p) == BeginPeriodic(p) \/ \E x \in Stories : DeliverStory(p, x)

Proceed(p) ==
  \/ LoadUnscored(p) \/ ScoreBatch(p) \/ ScoringFails(p)
  \/ CountPosts(p) \/ ReadPosts(p) \/ CreateSnapshot(p) \/ EvaluateStrategies(p)
  \/ LogDecision(p) \/ DetectPump(p) \/ RaisePump(p) \/ RaisingFails(p)
  \/ CheckAlert(p) \/ CreateAlert(p)

Next ==
  \/ \E p \in Processes : Begin(p) \/ Proceed(p) \/ Crash(p)
  \/ \E p \in Processes, x \in Posts : StorePost(p, x)
  \/ Tick

\* The periodic task keeps coming, runs proceed (no server keeps a fetch for ever;
\* see Ingestion), and the scorer does not fail every time; the news stream may
\* stay silent.
Fairness ==
  /\ \A p \in Processes : WF_vars(Proceed(p)) /\ SF_vars(ScoreBatch(p))
  /\ \A p \in Workers : WF_vars(BeginPeriodic(p))

SafeSpec == Init /\ [][Next]_vars
Spec == SafeSpec /\ Fairness

-----------------------------------------------------------------------------
(* Properties.                                                              *)

Stages == {"idle", "fetching", "scoring", "counting", "reading", "computed",
           "strategies", "logging", "detecting", "flagging", "checking", "alerting"}

\* The type of every variable.
TypeOK ==
  /\ age \in [Posts -> {Unstored} \union 0..TooOld]
  /\ scored \subseteq Stored
  /\ unlogged \in Nat /\ unraised \in Nat
  /\ alerts \in [CooledTypes -> Seq(Nat)]
  /\ pc \in [Processes -> Stages]
  /\ batch \in [Processes -> SUBSET Stored]
  /\ tooOld \in [Processes -> SUBSET Stored]
  /\ count \in [Processes -> 0..Cardinality(Posts)]
  /\ listed \in [Processes -> 0..Cardinality(Posts)]
  /\ reading \in [Processes -> Readings \union {NoReading}]
  /\ crashes \in 0..MaxCrashes

\* A snapshot counts its posts with one query and aggregates them with another.
\* Other runs may store and score posts in between, but none leaves the window:
\* every post counted is aggregated.
CountedAreAggregated ==
  \A p \in Processes : pc[p] \in {"computed", "strategies", "logging", "detecting",
                                  "flagging", "checking", "alerting"} =>
    0 < count[p] /\ count[p] <= listed[p]

Logging == {p \in Processes : pc[p] \in {"strategies", "logging"}}
Flagging == {p \in Processes : pc[p] = "flagging"}

\* Every snapshot is explained by a decision log, and every flag announced by an
\* alert, once its run is past that point: a run that crashed, or an alert that
\* could not be stored, has left one behind, and never two.
SnapshotsExplained ==
  unlogged + unraised <= crashes + Cardinality(Logging) + Cardinality(Flagging)

\* check_and_create_alert looks for a recent alert before it creates one, without
\* a lock.  Runs that look at the same time repeat an alert, but a cooldown never
\* sees more alerts of its type than there are processes.  (Alerts of the type
\* pump_suspected have no cooldown and no bound.)
AlertsBounded == \A type \in CooledTypes : Len(alerts[type]) <= Cardinality(Processes)

\* An alert about sentiment and price disagreeing never goes out with a rule
\* signal to buy or to sell: two thresholds in two modules that must fit.
AlertsFitSignal ==
  \A p \in Processes : pc[p] = "alerting" =>
    reading[p].spike \/ RuleSignal(reading[p]) = "HOLD"

\* Every post is scored in the end, also one whose own run crashed after
\* storing it, or whose scoring failed.
EveryPostScored == \A x \in Posts : x \in Stored ~> x \in scored

=================================================================================
