-------------------------- MODULE TickerPipelineProofs --------------------------
(***************************************************************************)
(* What concurrent runs for one ticker cannot do, whatever the number of    *)
(* processes, posts and readings: leave their types, leave a snapshot       *)
(* unexplained or a flag unannounced without having crashed, repeat an      *)
(* alert of a type with a cooldown more often than there are processes, or  *)
(* raise one against their own rule signal.                                 *)
(***************************************************************************)
EXTENDS TickerPipeline, FiniteSetTheorems, TLAPS

LEMMA ProcessesFinite ==
  ASSUME NEW S \in SUBSET Processes
  PROVE  /\ IsFiniteSet(S) /\ Cardinality(S) \in Nat
         /\ Cardinality(S) <= Cardinality(Processes)
  <1>1. IsFiniteSet(Processes)
    BY ProcessesAssumption DEF Processes
  <1>2. IsFiniteSet(S) /\ Cardinality(S) <= Cardinality(Processes)
    BY <1>1, FS_Subset
  <1>3. QED
    BY <1>2, FS_CardinalityType

LEMMA PostsFinite ==
  ASSUME NEW S \in SUBSET Posts
  PROVE  IsFiniteSet(S) /\ Cardinality(S) \in 0..Cardinality(Posts)
  <1>1. IsFiniteSet(Posts) /\ IsFiniteSet(S) /\ Cardinality(S) <= Cardinality(Posts)
    BY StoriesAssumption, FS_Subset
  <1>2. QED
    BY <1>1, FS_CardinalityType

\* Aging keeps ages, and never adds an alert.
LEMMA AgedType ==
  ASSUME NEW s \in Seq(Nat)
  PROVE  Aged(s) \in Seq(Nat) /\ Len(Aged(s)) \in Nat /\ Len(Aged(s)) <= Len(s)
  <1> DEFINE Over == {i \in 1..Len(s) : s[i] >= Cooldown}
             n == Cardinality(Over)
  <1>1. IsFiniteSet(1..Len(s)) /\ Cardinality(1..Len(s)) = Len(s)
    <2>1. Len(s) \in Nat
      OBVIOUS
    <2>2. /\ IsFiniteSet(1..Len(s))
          /\ Cardinality(1..Len(s)) = IF 1 > Len(s) THEN 0 ELSE Len(s) - 1 + 1
      BY <2>1, FS_Interval
    <2>3. QED
      BY <2>1, <2>2
  <1>2. IsFiniteSet(Over) /\ n <= Len(s)
    BY <1>1, FS_Subset
  <1>3. n \in Nat
    BY <1>2, FS_CardinalityType
  <1> HIDE DEF n
  <1>4. Aged(s) = [i \in 1..Len(s) - n |-> s[i + n] + 1]
    BY DEF Aged, n
  <1>5. [i \in 1..Len(s) - n |-> s[i + n] + 1] \in [1..Len(s) - n -> Nat]
    BY <1>2, <1>3
  <1>6. QED
    BY <1>2, <1>3, <1>4, <1>5

-----------------------------------------------------------------------------
(* Types.                                                                         *)

\* TypeOK without the two counters that only further invariants bound.
TypeInv ==
  /\ age \in [Posts -> {Unstored} \union 0..TooOld]
  /\ scored \subseteq Stored
  /\ unlogged \in Int /\ unraised \in Int
  /\ alerts \in [CooledTypes -> Seq(Nat)]
  /\ pc \in [Processes -> Stages]
  /\ batch \in [Processes -> SUBSET Stored]
  /\ tooOld \in [Processes -> SUBSET Stored]
  /\ count \in [Processes -> 0..Cardinality(Posts)]
  /\ listed \in [Processes -> 0..Cardinality(Posts)]
  /\ reading \in [Processes -> Readings \union {NoReading}]
  /\ crashes \in 0..MaxCrashes

LEMMA InitTypeInv == Init => TypeInv
  <1>1. Cardinality(Posts) \in Nat
    BY PostsFinite
  <1>2. QED
    BY <1>1, BoundsAssumption DEF Init, TypeInv, Stored, Stages, CooledTypes

LEMMA WindowSize ==
  ASSUME TypeInv, NEW p \in Processes
  PROVE  IsFiniteSet(Window(p)) /\ Cardinality(Window(p)) \in 0..Cardinality(Posts)
  <1>1. Window(p) \in SUBSET Posts
    BY DEF TypeInv, Window, Stored
  <1>2. QED
    BY <1>1, PostsFinite

\* A post that is stored stays stored.
LEMMA StorePostType ==
  ASSUME TypeInv, NEW x \in Posts, x \notin Stored, age' = [age EXCEPT ![x] = 0]
  PROVE  age' \in [Posts -> {Unstored} \union 0..TooOld] /\ Stored \subseteq Stored'
  BY DEF TypeInv, Stored, TooOld, Unstored

LEMMA ForgetType ==
  ASSUME TypeInv, NEW p \in Processes, Forget(p)
  PROVE  /\ batch' \in [Processes -> SUBSET Stored]
         /\ tooOld' \in [Processes -> SUBSET Stored]
         /\ count' \in [Processes -> 0..Cardinality(Posts)]
         /\ listed' \in [Processes -> 0..Cardinality(Posts)]
         /\ reading' \in [Processes -> Readings \union {NoReading}]
  <1>1. Cardinality(Posts) \in Nat
    BY PostsFinite
  <1>2. QED
    BY <1>1 DEF Forget, TypeInv

LEMMA TypeStep == TypeInv /\ [Next]_vars => TypeInv'
  <1> SUFFICES ASSUME TypeInv, [Next]_vars PROVE TypeInv'
    OBVIOUS
  <1>1. ASSUME NEW p \in Processes, BeginPeriodic(p) PROVE TypeInv'
    BY <1>1 DEF BeginPeriodic, Goto, locals, rows, TypeInv, Stored, Stages
  <1>2. ASSUME NEW p \in Processes, NEW x \in Stories, DeliverStory(p, x) PROVE TypeInv'
    <2>1. x \in Posts
      BY StoriesAssumption
    <2>2. age' \in [Posts -> {Unstored} \union 0..TooOld] /\ Stored \subseteq Stored'
      BY <1>2, <2>1, StorePostType DEF DeliverStory
    <2>3. QED
      BY <1>2, <2>2 DEF DeliverStory, Goto, locals, rows, TypeInv, Stages
  <1>3. ASSUME NEW p \in Processes, NEW x \in Posts, StorePost(p, x) PROVE TypeInv'
    <2>1. age' \in [Posts -> {Unstored} \union 0..TooOld] /\ Stored \subseteq Stored'
      BY <1>3, StorePostType DEF StorePost
    <2>2. QED
      BY <1>3, <2>1 DEF StorePost, locals, rows, TypeInv
  <1>4. ASSUME NEW p \in Processes, LoadUnscored(p) PROVE TypeInv'
    BY <1>4 DEF LoadUnscored, ToScore, Unscored, Goto, rows, TypeInv, Stored, Stages
  <1>5. ASSUME NEW p \in Processes, ScoreBatch(p) \/ ScoringFails(p) PROVE TypeInv'
    <2>1. scored' \subseteq Stored /\ UNCHANGED age
      BY <1>5 DEF ScoreBatch, ScoringFails, rows, TypeInv
    <2>2. /\ batch' \in [Processes -> SUBSET Stored]
          /\ tooOld' \in [Processes -> SUBSET Stored]
          /\ pc' \in [Processes -> Stages]
      BY <1>5 DEF ScoreBatch, ScoringFails, TakeCutoff, Goto, rows, TypeInv, Stored, Stages
    <2>3. QED
      BY <1>5, <2>1, <2>2 DEF ScoreBatch, ScoringFails, rows, TypeInv, Stored
  <1>6. ASSUME NEW p \in Processes, CountPosts(p) PROVE TypeInv'
    <2>1. CASE Window(p) = {}
      <3>1. Forget(p) /\ Goto(p, "idle")
        BY <1>6, <2>1 DEF CountPosts
      <3>2. QED
        BY <1>6, <3>1, ForgetType DEF CountPosts, Goto, rows, TypeInv, Stored, Stages
    <2>2. CASE Window(p) # {}
      BY <1>6, <2>2, WindowSize DEF CountPosts, Goto, rows, TypeInv, Stored, Stages
    <2>3. QED
      BY <2>1, <2>2
  <1>7. ASSUME NEW p \in Processes, ReadPosts(p) PROVE TypeInv'
    BY <1>7, WindowSize DEF ReadPosts, Goto, rows, TypeInv, Stored, Stages
  <1>8. ASSUME NEW p \in Processes,
               \/ CreateSnapshot(p) \/ EvaluateStrategies(p) \/ LogDecision(p)
               \/ DetectPump(p) \/ RaisePump(p) \/ RaisingFails(p)
        PROVE  TypeInv'
    <2>1. unlogged' \in Int /\ unraised' \in Int
      BY <1>8 DEF CreateSnapshot, EvaluateStrategies, LogDecision, DetectPump, RaisePump,
                  RaisingFails, rows, TypeInv
    <2>2. pc' \in [Processes -> Stages]
      BY <1>8 DEF CreateSnapshot, EvaluateStrategies, AfterStrategies, LogDecision,
                  DetectPump, RaisePump, RaisingFails, Goto, TypeInv, Stages
    <2>3. UNCHANGED <<age, scored, alerts, locals>> /\ crashes' \in 0..MaxCrashes
      BY <1>8, BoundsAssumption DEF CreateSnapshot, EvaluateStrategies, LogDecision,
                  DetectPump, RaisePump, RaisingFails, TypeInv
    <2>4. QED
      BY <2>1, <2>2, <2>3 DEF locals, TypeInv, Stored
  <1>9. ASSUME NEW p \in Processes, CheckAlert(p) PROVE TypeInv'
    <2>1. CASE AlertDue(p) /\ CooldownOver(AlertType(reading[p]))
      BY <1>9, <2>1 DEF CheckAlert, Goto, locals, rows, TypeInv, Stored, Stages
    <2>2. CASE ~(AlertDue(p) /\ CooldownOver(AlertType(reading[p])))
      <3>1. Forget(p) /\ Goto(p, "idle")
        BY <1>9, <2>2 DEF CheckAlert
      <3>2. QED
        BY <1>9, <3>1, ForgetType DEF CheckAlert, Goto, rows, TypeInv, Stored, Stages
    <2>3. QED
      BY <2>1, <2>2
  <1>10. ASSUME NEW p \in Processes, CreateAlert(p) PROVE TypeInv'
    <2>1. alerts' \in [CooledTypes -> Seq(Nat)]
      <3>1. AlertType(reading[p]) \in CooledTypes
        BY DEF AlertType, CooledTypes
      <3>2. Append(alerts[AlertType(reading[p])], 0) \in Seq(Nat)
        BY <3>1 DEF TypeInv
      <3>3. QED
        BY <1>10, <3>2 DEF CreateAlert, TypeInv
    <2>2. QED
      BY <1>10, <2>1, ForgetType DEF CreateAlert, Goto, rows, TypeInv, Stored, Stages
  <1>11. ASSUME NEW p \in Processes, Crash(p) PROVE TypeInv'
    <2>1. crashes' \in 0..MaxCrashes
      BY <1>11, BoundsAssumption DEF Crash, rows, TypeInv
    <2>2. QED
      BY <1>11, <2>1, ForgetType DEF Crash, Goto, rows, TypeInv, Stored, Stages
  <1>12. ASSUME Tick PROVE TypeInv'
    <2>1. age' \in [Posts -> {Unstored} \union 0..TooOld] /\ Stored' = Stored
      <3>1. ASSUME NEW x \in Posts
            PROVE  /\ age'[x] \in {Unstored} \union 0..TooOld
                   /\ age'[x] = Unstored <=> age[x] = Unstored
        <4>1. age[x] = -1 \/ age[x] \in 0..2
          BY DEF TypeInv, TooOld, Unstored
        <4>2. age'[x] = IF age[x] = -1 \/ age[x] = 2 THEN age[x] ELSE age[x] + 1
          BY <1>12 DEF Tick, TooOld, Unstored
        <4>3. QED
          BY <4>1, <4>2 DEF TooOld, Unstored
      <3>2. age' = [x \in Posts |-> age'[x]]
        BY <1>12 DEF Tick
      <3>3. QED
        BY <3>1, <3>2 DEF Stored
    <2>2. alerts' \in [CooledTypes -> Seq(Nat)]
      BY <1>12, AgedType DEF Tick, rows, TypeInv
    <2>3. QED
      BY <1>12, <2>1, <2>2 DEF Tick, locals, rows, TypeInv
  <1>13. CASE UNCHANGED vars
    BY <1>13 DEF vars, locals, rows, TypeInv, Stored
  <1>14. QED
    BY <1>1, <1>2, <1>3, <1>4, <1>5, <1>6, <1>7, <1>8, <1>9, <1>10, <1>11, <1>12, <1>13
       DEF Next, Begin, Proceed

-----------------------------------------------------------------------------
(* Snapshots and decision logs.                                             *)

\* Snapshots without a decision log are those of runs about to write theirs, flags
\* without an alert likewise, and at most one row for each crash.
LogInv ==
  /\ Cardinality(Logging) <= unlogged
  /\ Cardinality(Flagging) <= unraised
  /\ unlogged + unraised <= crashes + Cardinality(Logging) + Cardinality(Flagging)

LEMMA LogInit == Init => LogInv
  <1> SUFFICES ASSUME Init PROVE LogInv
    OBVIOUS
  <1>1. Logging = {} /\ Flagging = {}
    BY DEF Init, Logging, Flagging
  <1>2. QED
    BY <1>1, FS_EmptySet DEF Init, LogInv

LEMMA LogStep == TypeInv /\ LogInv /\ [Next]_vars => LogInv'
  <1> SUFFICES ASSUME TypeInv, LogInv, [Next]_vars PROVE LogInv'
    OBVIOUS
  <1> DEFINE n == Cardinality(Logging)
             k == Cardinality(Flagging)
  <1>1. /\ IsFiniteSet(Logging) /\ n \in Nat /\ IsFiniteSet(Flagging) /\ k \in Nat
        /\ unlogged \in Int /\ unraised \in Int /\ crashes \in Int
        /\ n <= unlogged /\ k <= unraised /\ unlogged + unraised <= crashes + n + k
    <2>1. Logging \in SUBSET Processes /\ Flagging \in SUBSET Processes
      BY DEF Logging, Flagging
    <2>2. QED
      BY <2>1, ProcessesFinite DEF TypeInv, LogInv
  <1>2. ASSUME UNCHANGED <<unlogged, unraised, crashes>>, Logging' = Logging,
               Flagging' = Flagging
        PROVE  LogInv'
    BY <1>2 DEF LogInv
  <1>3. ASSUME NEW p \in Processes, CreateSnapshot(p) PROVE LogInv'
    <2>1. p \notin Logging /\ Logging' = Logging \union {p} /\ Flagging' = Flagging
      BY <1>3 DEF CreateSnapshot, Goto, Logging, Flagging, TypeInv
    <2>2. Cardinality(Logging') = n + 1
      BY <1>1, <2>1, FS_AddElement
    <2>3. QED
      BY <1>1, <1>3, <2>1, <2>2 DEF CreateSnapshot, LogInv
  <1>4. ASSUME NEW p \in Processes, LogDecision(p) PROVE LogInv'
    <2>1. p \in Logging /\ Logging' = Logging \ {p} /\ Flagging' = Flagging
      BY <1>4 DEF LogDecision, Goto, Logging, Flagging, TypeInv
    <2>2. Cardinality(Logging') = n - 1
      BY <1>1, <2>1, FS_RemoveElement
    <2>3. QED
      BY <1>1, <1>4, <2>1, <2>2 DEF LogDecision, LogInv
  <1>5. ASSUME NEW p \in Processes, DetectPump(p) PROVE LogInv'
    <2>1. Logging' = Logging /\ UNCHANGED <<unlogged, crashes>>
      BY <1>5 DEF DetectPump, Goto, Logging, TypeInv
    <2>2. CASE Goto(p, "checking") /\ UNCHANGED unraised
      <3>1. Flagging' = Flagging
        BY <1>5, <2>2 DEF DetectPump, Goto, Flagging, TypeInv
      <3>2. QED
        BY <1>2, <2>1, <2>2, <3>1
    <2>3. CASE Goto(p, "flagging") /\ unraised' = unraised + 1
      <3>1. p \notin Flagging /\ Flagging' = Flagging \union {p}
        BY <1>5, <2>3 DEF DetectPump, Goto, Flagging, TypeInv
      <3>2. Cardinality(Flagging') = k + 1
        BY <1>1, <3>1, FS_AddElement
      <3>3. QED
        BY <1>1, <2>1, <2>3, <3>2 DEF LogInv
    <2>4. QED
      BY <1>5, <2>2, <2>3 DEF DetectPump
  <1>6. ASSUME NEW p \in Processes, RaisePump(p) \/ RaisingFails(p) PROVE LogInv'
    <2>1. /\ p \in Flagging /\ Flagging' = Flagging \ {p} /\ Logging' = Logging
          /\ UNCHANGED unlogged
      BY <1>6 DEF RaisePump, RaisingFails, Goto, Logging, Flagging, rows, TypeInv
    <2>2. Cardinality(Flagging') = k - 1
      BY <1>1, <2>1, FS_RemoveElement
    <2>3. \/ unraised' = unraised - 1 /\ crashes' = crashes
          \/ unraised' = unraised /\ crashes' = crashes + 1
      BY <1>6 DEF RaisePump, RaisingFails, rows
    <2>4. QED
      BY <1>1, <2>1, <2>2, <2>3 DEF LogInv
  <1>7. ASSUME NEW p \in Processes, Crash(p) PROVE LogInv'
    <2>1. /\ Logging' = Logging \ {p} /\ Flagging' = Flagging \ {p}
          /\ p \notin Logging \/ p \notin Flagging
      BY <1>7 DEF Crash, Goto, Logging, Flagging, TypeInv
    <2>2. Cardinality(Logging') = n \/ Cardinality(Logging') = n - 1
      BY <1>1, <2>1, FS_RemoveElement
    <2>3. Cardinality(Flagging') = k \/ Cardinality(Flagging') = k - 1
      BY <1>1, <2>1, FS_RemoveElement
    <2>4. Cardinality(Logging') = n \/ Cardinality(Flagging') = k
      BY <2>1
    <2>5. unlogged' = unlogged /\ unraised' = unraised /\ crashes' = crashes + 1
      BY <1>7 DEF Crash, rows
    <2>6. QED
      BY <1>1, <2>2, <2>3, <2>4, <2>5 DEF LogInv
  <1>8. ASSUME NEW p \in Processes, NEW x, BeginPeriodic(p) \/ DeliverStory(p, x) PROVE LogInv'
    BY <1>2, <1>8 DEF BeginPeriodic, DeliverStory, Goto, Logging, Flagging, rows, TypeInv
  <1>9. ASSUME NEW p \in Processes, NEW x \in Posts, StorePost(p, x) PROVE LogInv'
    BY <1>2, <1>9 DEF StorePost, Logging, Flagging, rows
  <1>10. ASSUME NEW p \in Processes,
                LoadUnscored(p) \/ ScoreBatch(p) \/ ScoringFails(p) \/ CountPosts(p) \/ ReadPosts(p)
         PROVE  LogInv'
    <2>1. UNCHANGED <<unlogged, unraised, crashes>>
      BY <1>10 DEF LoadUnscored, ScoreBatch, ScoringFails, CountPosts, ReadPosts, rows
    <2>2. pc[p] \in {"fetching", "scoring", "counting", "reading"}
      BY <1>10 DEF LoadUnscored, ScoreBatch, ScoringFails, CountPosts, ReadPosts
    <2>3. \E stage \in {"scoring", "counting", "reading", "idle", "computed"} : Goto(p, stage)
      BY <1>10 DEF LoadUnscored, ScoreBatch, ScoringFails, TakeCutoff, CountPosts, ReadPosts
    <2>4. Logging' = Logging /\ Flagging' = Flagging
      BY <2>2, <2>3 DEF Goto, Logging, Flagging, TypeInv
    <2>5. QED
      BY <1>2, <2>1, <2>4
  <1>11. ASSUME NEW p \in Processes,
                EvaluateStrategies(p) \/ CheckAlert(p) \/ CreateAlert(p)
         PROVE  LogInv'
    <2>1. UNCHANGED <<unlogged, unraised, crashes>>
      BY <1>11 DEF EvaluateStrategies, CheckAlert, CreateAlert, rows
    <2>2. \/ pc[p] = "strategies" /\ Goto(p, "logging")
          \/ /\ pc[p] \in {"checking", "alerting"}
             /\ Goto(p, "alerting") \/ Goto(p, "idle")
      BY <1>11 DEF EvaluateStrategies, AfterStrategies, CheckAlert, CreateAlert
    <2>3. Logging' = Logging /\ Flagging' = Flagging
      BY <2>2 DEF Goto, Logging, Flagging, TypeInv
    <2>4. QED
      BY <1>2, <2>1, <2>3
  <1>12. CASE Tick
    BY <1>2, <1>12 DEF Tick, Logging, Flagging, rows
  <1>13. CASE UNCHANGED vars
    BY <1>2, <1>13 DEF vars, Logging, Flagging, rows
  <1>14. QED
    BY <1>3, <1>4, <1>5, <1>6, <1>7, <1>8, <1>9, <1>10, <1>11, <1>12, <1>13
       DEF Next, Begin, Proceed

LEMMA SnapshotBound == TypeInv /\ LogInv => TypeOK /\ SnapshotsExplained
  <1> SUFFICES ASSUME TypeInv, LogInv PROVE TypeOK /\ SnapshotsExplained
    OBVIOUS
  <1>1. Logging \in SUBSET Processes /\ Flagging \in SUBSET Processes
    BY DEF Logging, Flagging
  <1>2. Cardinality(Logging) \in Nat /\ Cardinality(Flagging) \in Nat
    BY <1>1, ProcessesFinite
  <1>3. unlogged \in Nat /\ unraised \in Nat
    BY <1>2 DEF TypeInv, LogInv
  <1>4. QED
    BY <1>3 DEF TypeInv, LogInv, TypeOK, SnapshotsExplained

\* Every variable keeps its type; in particular a decision log is never written
\* without its snapshot.
THEOREM TypeCorrect == SafeSpec => []TypeOK
  <1>1. Init => TypeInv /\ LogInv
    BY InitTypeInv, LogInit
  <1>2. TypeInv /\ LogInv /\ [Next]_vars => (TypeInv /\ LogInv)'
    BY TypeStep, LogStep
  <1>3. TypeInv /\ LogInv => TypeOK
    BY SnapshotBound
  <1>4. QED
    BY <1>1, <1>2, <1>3, PTL DEF SafeSpec

\* A snapshot without a decision log is one about to be logged, a flag without an
\* alert one about to be announced, or a run has crashed, or an alert not been
\* stored, for it alone.
THEOREM Explained == SafeSpec => []SnapshotsExplained
  <1>1. Init => TypeInv /\ LogInv
    BY InitTypeInv, LogInit
  <1>2. TypeInv /\ LogInv /\ [Next]_vars => (TypeInv /\ LogInv)'
    BY TypeStep, LogStep
  <1>3. TypeInv /\ LogInv => SnapshotsExplained
    BY SnapshotBound
  <1>4. QED
    BY <1>1, <1>2, <1>3, PTL DEF SafeSpec

-----------------------------------------------------------------------------
(* Alerts.                                                                  *)

\* The runs that have seen no recent alert of the type and will create one.
Pending(type) ==
  {p \in Processes : pc[p] = "alerting" /\ AlertType(reading[p]) = type}

\* The strengthening of AlertsBounded: the alerts that runs are about to create
\* count already.  A run joins them only while there is no alert.
AlertInv ==
  \A type \in CooledTypes :
    Len(alerts[type]) + Cardinality(Pending(type)) <= Cardinality(Processes)

LEMMA PendingFinite ==
  ASSUME NEW type
  PROVE  /\ IsFiniteSet(Pending(type)) /\ Cardinality(Pending(type)) \in Nat
         /\ Cardinality(Pending(type)) <= Cardinality(Processes)
         /\ Cardinality(Processes) \in Nat
  <1>1. Pending(type) \in SUBSET Processes /\ Processes \in SUBSET Processes
    BY DEF Pending
  <1>2. QED
    BY <1>1, ProcessesFinite

LEMMA AlertInit == Init => AlertInv
  <1> SUFFICES ASSUME Init, NEW type \in CooledTypes
               PROVE  Len(alerts[type]) + Cardinality(Pending(type)) <= Cardinality(Processes)
    BY DEF AlertInv
  <1>1. Len(alerts[type]) = 0
    BY DEF Init
  <1>2. QED
    BY <1>1, PendingFinite

\* A step that neither adds alerts nor pending ones.
LEMMA FewerAlerts ==
  ASSUME TypeInv, AlertInv, NEW type \in CooledTypes,
         Len(alerts'[type]) \in Nat, Len(alerts'[type]) <= Len(alerts[type]),
         Pending(type)' \subseteq Pending(type)
  PROVE  Len(alerts'[type]) + Cardinality(Pending(type)') <= Cardinality(Processes)
  <1>1. Cardinality(Pending(type)') <= Cardinality(Pending(type))
    BY PendingFinite, FS_Subset
  <1>2. Cardinality(Pending(type)') \in Nat
    BY PendingFinite, FS_Subset, FS_CardinalityType
  <1>3. Len(alerts[type]) \in Nat
    BY DEF TypeInv
  <1>4. Len(alerts[type]) + Cardinality(Pending(type)) <= Cardinality(Processes)
    BY DEF AlertInv
  <1>5. QED
    BY <1>1, <1>2, <1>3, <1>4, PendingFinite

\* Only the last steps of a run concern alerts.
Early(p) ==
  \/ BeginPeriodic(p) \/ \E x \in Stories : DeliverStory(p, x)
  \/ \E x \in Posts : StorePost(p, x)
  \/ LoadUnscored(p) \/ ScoreBatch(p) \/ ScoringFails(p) \/ CountPosts(p)
  \/ ReadPosts(p) \/ CreateSnapshot(p) \/ EvaluateStrategies(p) \/ LogDecision(p)
  \/ DetectPump(p) \/ RaisePump(p) \/ RaisingFails(p)

LEMMA EarlyStep ==
  ASSUME TypeInv, NEW p \in Processes, Early(p), NEW q \in Processes
  PROVE  /\ UNCHANGED alerts
         /\ pc'[q] = "alerting" =>
              pc[q] = "alerting" /\ reading'[q] = reading[q] /\ count'[q] = count[q]
  <1>1. CASE BeginPeriodic(p) \/ (\E x \in Stories : DeliverStory(p, x))
             \/ \E x \in Posts : StorePost(p, x)
    BY <1>1 DEF BeginPeriodic, DeliverStory, StorePost, Goto, locals, TypeInv
  <1>2. CASE LoadUnscored(p) \/ ScoreBatch(p) \/ ScoringFails(p)
    BY <1>2 DEF LoadUnscored, ScoreBatch, ScoringFails, TakeCutoff, Goto, TypeInv
  <1>3. CASE CountPosts(p)
    BY <1>3 DEF CountPosts, Forget, Goto, TypeInv
  <1>4. CASE ReadPosts(p)
    BY <1>4 DEF ReadPosts, Goto, TypeInv
  <1>5. CASE CreateSnapshot(p) \/ EvaluateStrategies(p) \/ LogDecision(p)
    BY <1>5 DEF CreateSnapshot, EvaluateStrategies, AfterStrategies, LogDecision, Goto,
                locals, TypeInv
  <1>6. CASE DetectPump(p) \/ RaisePump(p) \/ RaisingFails(p)
    BY <1>6 DEF DetectPump, RaisePump, RaisingFails, Goto, locals, TypeInv
  <1>7. QED
    BY <1>1, <1>2, <1>3, <1>4, <1>5, <1>6 DEF Early

\* A step of a run that ends it.
LEMMA LeavesAlerting ==
  ASSUME TypeInv, NEW p \in Processes, Goto(p, "idle"), Forget(p), NEW q \in Processes,
         pc'[q] = "alerting"
  PROVE  /\ q # p /\ pc[q] = "alerting"
         /\ reading'[q] = reading[q] /\ count'[q] = count[q]
  BY DEF Goto, Forget, TypeInv

LEMMA AlertStep == TypeInv /\ AlertInv /\ [Next]_vars => AlertInv'
  <1> SUFFICES ASSUME TypeInv, AlertInv, [Next]_vars, NEW type \in CooledTypes
               PROVE  Len(alerts'[type]) + Cardinality(Pending(type)') <= Cardinality(Processes)
    BY DEF AlertInv
  <1>1. Len(alerts[type]) \in Nat /\ alerts[type] \in Seq(Nat)
    BY DEF TypeInv
  <1>2. ASSUME NEW p \in Processes, Early(p)
        PROVE  Len(alerts'[type]) + Cardinality(Pending(type)') <= Cardinality(Processes)
    <2>1. UNCHANGED alerts /\ Pending(type)' \subseteq Pending(type)
      BY <1>2, EarlyStep DEF Pending
    <2>2. QED
      BY <1>1, <2>1, FewerAlerts
  <1>3. ASSUME NEW p \in Processes, CheckAlert(p)
        PROVE  Len(alerts'[type]) + Cardinality(Pending(type)') <= Cardinality(Processes)
    <2>1. UNCHANGED alerts
      BY <1>3 DEF CheckAlert
    <2>2. CASE AlertDue(p) /\ CooldownOver(AlertType(reading[p]))
      <3>1. Goto(p, "alerting") /\ UNCHANGED reading
        BY <1>3, <2>2 DEF CheckAlert, locals
      <3>2. CASE AlertType(reading[p]) = type
        <4>1. Len(alerts'[type]) = 0
          BY <2>1, <2>2, <3>2 DEF CooldownOver
        <4>2. Pending(type)' \in SUBSET Processes
          BY DEF Pending
        <4>3. QED
          BY <4>1, <4>2, ProcessesFinite
      <3>3. CASE AlertType(reading[p]) # type
        <4>1. Pending(type)' \subseteq Pending(type)
          BY <3>1, <3>3 DEF Goto, Pending, TypeInv
        <4>2. QED
          BY <1>1, <2>1, <4>1, FewerAlerts
      <3>4. QED
        BY <3>2, <3>3
    <2>3. CASE ~(AlertDue(p) /\ CooldownOver(AlertType(reading[p])))
      <3>1. Goto(p, "idle") /\ Forget(p)
        BY <1>3, <2>3 DEF CheckAlert
      <3>2. Pending(type)' \subseteq Pending(type)
        BY <3>1, LeavesAlerting DEF Pending
      <3>3. QED
        BY <1>1, <2>1, <3>2, FewerAlerts
    <2>4. QED
      BY <2>2, <2>3
  <1>4. ASSUME NEW p \in Processes, CreateAlert(p)
        PROVE  Len(alerts'[type]) + Cardinality(Pending(type)') <= Cardinality(Processes)
    <2>1. Goto(p, "idle") /\ Forget(p) /\ pc[p] = "alerting"
      BY <1>4 DEF CreateAlert
    <2>2. Pending(type)' \subseteq Pending(type) \ {p}
      BY <2>1, LeavesAlerting DEF Pending
    <2>3. CASE AlertType(reading[p]) = type
      <3>1. alerts'[type] = Append(alerts[type], 0)
        BY <1>4, <2>3 DEF CreateAlert, TypeInv
      <3>2. Len(alerts'[type]) = Len(alerts[type]) + 1
        BY <1>1, <3>1
      <3>3. p \in Pending(type)
        BY <2>1, <2>3 DEF Pending
      <3>4. /\ IsFiniteSet(Pending(type) \ {p})
            /\ Cardinality(Pending(type) \ {p}) = Cardinality(Pending(type)) - 1
        BY <3>3, PendingFinite, FS_RemoveElement
      <3>5. /\ Cardinality(Pending(type)') <= Cardinality(Pending(type)) - 1
            /\ IsFiniteSet(Pending(type)')
        BY <2>2, <3>4, FS_Subset
      <3>6. Cardinality(Pending(type)') \in Nat
        BY <3>5, FS_CardinalityType
      <3>7. Len(alerts[type]) + Cardinality(Pending(type)) <= Cardinality(Processes)
        BY DEF AlertInv
      <3>8. QED
        BY <1>1, <3>2, <3>5, <3>6, <3>7, PendingFinite
    <2>4. CASE AlertType(reading[p]) # type
      <3>1. alerts'[type] = alerts[type]
        BY <1>4, <2>4 DEF CreateAlert, TypeInv
      <3>2. QED
        BY <1>1, <2>2, <3>1, FewerAlerts
    <2>5. QED
      BY <2>3, <2>4
  <1>5. ASSUME NEW p \in Processes, Crash(p)
        PROVE  Len(alerts'[type]) + Cardinality(Pending(type)') <= Cardinality(Processes)
    <2>1. Goto(p, "idle") /\ Forget(p) /\ UNCHANGED alerts
      BY <1>5 DEF Crash
    <2>2. Pending(type)' \subseteq Pending(type)
      BY <2>1, LeavesAlerting DEF Pending
    <2>3. QED
      BY <1>1, <2>1, <2>2, FewerAlerts
  <1>6. ASSUME Tick
        PROVE  Len(alerts'[type]) + Cardinality(Pending(type)') <= Cardinality(Processes)
    <2>1. alerts'[type] = Aged(alerts[type])
      BY <1>6 DEF Tick
    <2>2. Len(alerts'[type]) \in Nat /\ Len(alerts'[type]) <= Len(alerts[type])
      BY <1>1, <2>1, AgedType
    <2>3. Pending(type)' \subseteq Pending(type)
      BY <1>6 DEF Tick, Pending, locals
    <2>4. QED
      BY <2>2, <2>3, FewerAlerts
  <1>7. CASE UNCHANGED vars
    <2>1. UNCHANGED alerts /\ Pending(type)' \subseteq Pending(type)
      BY <1>7 DEF vars, locals, Pending
    <2>2. QED
      BY <1>1, <2>1, FewerAlerts
  <1>8. QED
    BY <1>2, <1>3, <1>4, <1>5, <1>6, <1>7 DEF Next, Begin, Proceed, Early

\* An alert about to be created is due.
DueInv == \A p \in Processes : pc[p] = "alerting" => AlertDue(p)

LEMMA DueInit == Init => DueInv
  BY DEF Init, DueInv

LEMMA DueStep == TypeInv /\ DueInv /\ [Next]_vars => DueInv'
  <1> SUFFICES ASSUME TypeInv, DueInv, [Next]_vars,
                      NEW q \in Processes, pc'[q] = "alerting"
               PROVE  AlertDue(q)'
    BY DEF DueInv
  <1>1. ASSUME pc[q] = "alerting", reading'[q] = reading[q], count'[q] = count[q]
        PROVE  AlertDue(q)'
    <2>1. AlertDue(q)
      BY <1>1 DEF DueInv
    <2>2. QED
      BY <1>1, <2>1 DEF AlertDue
  <1>2. ASSUME NEW p \in Processes, Early(p) PROVE AlertDue(q)'
    BY <1>1, <1>2, EarlyStep
  <1>3. ASSUME NEW p \in Processes, CheckAlert(p) PROVE AlertDue(q)'
    <2>1. CASE AlertDue(p) /\ CooldownOver(AlertType(reading[p]))
      <3>1. Goto(p, "alerting") /\ UNCHANGED <<reading, count>>
        BY <1>3, <2>1 DEF CheckAlert, locals
      <3>2. CASE q = p
        BY <2>1, <3>1, <3>2 DEF AlertDue
      <3>3. CASE q # p
        BY <1>1, <3>1, <3>3 DEF Goto, TypeInv
      <3>4. QED
        BY <3>2, <3>3
    <2>2. CASE ~(AlertDue(p) /\ CooldownOver(AlertType(reading[p])))
      <3>1. Goto(p, "idle") /\ Forget(p)
        BY <1>3, <2>2 DEF CheckAlert
      <3>2. QED
        BY <1>1, <3>1, LeavesAlerting
    <2>3. QED
      BY <2>1, <2>2
  <1>4. ASSUME NEW p \in Processes, CreateAlert(p) \/ Crash(p) PROVE AlertDue(q)'
    <2>1. Goto(p, "idle") /\ Forget(p)
      BY <1>4 DEF CreateAlert, Crash
    <2>2. QED
      BY <1>1, <2>1, LeavesAlerting
  <1>5. CASE Tick
    BY <1>1, <1>5 DEF Tick, locals
  <1>6. CASE UNCHANGED vars
    BY <1>1, <1>6 DEF vars, locals
  <1>7. QED
    BY <1>2, <1>3, <1>4, <1>5, <1>6 DEF Next, Begin, Proceed, Early

\* A consistency under 0.35 is not over 0.5.
LEMMA DueHolds ==
  ASSUME NEW r \in Readings \union {NoReading}, 10 * FourConsistency(r) < 14 * Scale
  PROVE  RuleSignal(r) = "HOLD"
  <1>1. r.raw \in Int /\ r.momentum \in Int
    BY ReadingsAssumption DEF NoReading
  <1>2. FourConsistency(r) \in Int
    BY <1>1 DEF FourConsistency, TwiceSentiment, Distance, Scale
  <1>3. ~Consistent(r)
    BY <1>2 DEF Consistent, Scale
  <1>4. QED
    BY <1>3 DEF RuleSignal

LEMMA DueFits == TypeInv /\ DueInv => AlertsFitSignal
  BY DueHolds DEF TypeInv, DueInv, AlertDue, AlertsFitSignal

LEMMA AlertBound == AlertInv => AlertsBounded
  <1> SUFFICES ASSUME AlertInv, NEW type \in CooledTypes
               PROVE  Len(alerts[type]) <= Cardinality(Processes)
    BY DEF AlertsBounded
  <1>1. Len(alerts[type]) + Cardinality(Pending(type)) <= Cardinality(Processes)
    BY DEF AlertInv
  <1>2. QED
    BY <1>1, PendingFinite

\* However checks and creations of alerts interleave, a cooldown never sees more
\* alerts of a type than there are processes: of each type that has a cooldown,
\* which pump_suspected has not.
THEOREM CooldownHolds == SafeSpec => []AlertsBounded
  <1>1. Init => TypeInv /\ AlertInv
    BY InitTypeInv, AlertInit
  <1>2. TypeInv /\ AlertInv /\ [Next]_vars => (TypeInv /\ AlertInv)'
    BY TypeStep, AlertStep
  <1>3. QED
    BY <1>1, <1>2, AlertBound, PTL DEF SafeSpec

\* No alert of disagreement is raised on a signal to buy or to sell, whatever
\* the posts and the prices.
THEOREM AlertsFit == SafeSpec => []AlertsFitSignal
  <1>1. Init => TypeInv /\ DueInv
    BY InitTypeInv, DueInit
  <1>2. TypeInv /\ DueInv /\ [Next]_vars => (TypeInv /\ DueInv)'
    BY TypeStep, DueStep
  <1>3. QED
    BY <1>1, <1>2, DueFits, PTL DEF SafeSpec

-----------------------------------------------------------------------------
(* Posts.                                                                   *)

\* Between its two queries a run's window can only grow.
CountInv ==
  /\ CountedAreAggregated
  /\ \A p \in Processes : pc[p] = "reading" =>
       0 < count[p] /\ count[p] <= Cardinality(Window(p))

LEMMA CountInit == Init => CountInv
  BY DEF Init, CountInv, CountedAreAggregated

LEMMA CountStep == TypeInv /\ CountInv /\ [Next]_vars => CountInv'
  <1> SUFFICES ASSUME TypeInv, CountInv, [Next]_vars, TypeInv', NEW q \in Processes
               PROVE  /\ pc'[q] \in {"computed", "strategies", "logging", "detecting",
                                      "flagging", "checking", "alerting"} =>
                           0 < count'[q] /\ count'[q] <= listed'[q]
                      /\ pc'[q] = "reading" =>
                           0 < count'[q] /\ count'[q] <= Cardinality(Window(q)')
    BY TypeStep DEF CountInv, CountedAreAggregated
  <1> DEFINE Late == {"computed", "strategies", "logging", "detecting", "flagging",
                      "checking", "alerting"}
             Goal == /\ pc'[q] \in Late => 0 < count'[q] /\ count'[q] <= listed'[q]
                     /\ pc'[q] = "reading" =>
                          0 < count'[q] /\ count'[q] <= Cardinality(Window(q)')
  <1>1. /\ pc[q] \in Late => 0 < count[q] /\ count[q] <= listed[q]
        /\ pc[q] = "reading" => 0 < count[q] /\ count[q] <= Cardinality(Window(q))
        /\ count[q] \in Int /\ listed[q] \in Int
    BY DEF CountInv, CountedAreAggregated, TypeInv
  <1>2. ASSUME scored \subseteq scored', tooOld'[q] = tooOld[q], count'[q] = count[q],
               listed'[q] = listed[q], pc'[q] = pc[q] \/ (pc[q] \in Late /\ pc'[q] \in Late)
        PROVE  Goal
    <2>1. Window(q) \subseteq Window(q)'
      BY <1>2 DEF Window
    <2>2. IsFiniteSet(Window(q)')
      <3>1. Window(q)' \in SUBSET Posts
        BY DEF TypeInv, Window, Stored
      <3>2. QED
        BY <3>1, PostsFinite
    <2>3. /\ Cardinality(Window(q)) <= Cardinality(Window(q)')
          /\ Cardinality(Window(q)) \in Int /\ Cardinality(Window(q)') \in Int
      BY <2>1, <2>2, FS_Subset, FS_CardinalityType
    <2>4. QED
      BY <1>1, <1>2, <2>3
  <1>3. ASSUME pc'[q] \notin Late \union {"reading"} PROVE Goal
    BY <1>3
  <1>4. ASSUME NEW p \in Processes,
               BeginPeriodic(p) \/ (\E x \in Stories : DeliverStory(p, x))
                 \/ \E x \in Posts : StorePost(p, x)
        PROVE  Goal
    <2>1. UNCHANGED <<scored, locals>> /\ (UNCHANGED pc \/ Goto(p, "fetching"))
      BY <1>4 DEF BeginPeriodic, DeliverStory, StorePost
    <2>2. pc'[q] = pc[q] \/ pc'[q] = "fetching"
      BY <2>1 DEF Goto, TypeInv
    <2>3. QED
      BY <1>2, <1>3, <2>1, <2>2 DEF locals
  <1>5. ASSUME NEW p \in Processes, LoadUnscored(p) PROVE Goal
    <2>1. /\ UNCHANGED <<scored, tooOld, count, listed>>
          /\ pc'[q] = pc[q] \/ pc'[q] = "scoring"
      BY <1>5 DEF LoadUnscored, Goto, TypeInv
    <2>2. QED
      BY <1>2, <1>3, <2>1
  <1>6. ASSUME NEW p \in Processes, ScoreBatch(p) \/ ScoringFails(p) PROVE Goal
    <2>1. /\ scored \subseteq scored' /\ UNCHANGED <<count, listed>>
          /\ TakeCutoff(p)
      BY <1>6 DEF ScoreBatch, ScoringFails
    <2>2. CASE q = p
      <3>1. pc'[q] = "counting"
        BY <2>1, <2>2 DEF TakeCutoff, Goto, TypeInv
      <3>2. QED
        BY <1>3, <3>1
    <2>3. CASE q # p
      <3>1. pc'[q] = pc[q] /\ tooOld'[q] = tooOld[q]
        BY <2>1, <2>3 DEF TakeCutoff, Goto, TypeInv
      <3>2. QED
        BY <1>2, <2>1, <3>1
    <2>4. QED
      BY <2>2, <2>3
  <1>7. ASSUME NEW p \in Processes, Goto(p, "idle"), Forget(p), UNCHANGED scored PROVE Goal
    <2>1. CASE q = p
      <3>1. pc'[q] = "idle"
        BY <1>7, <2>1 DEF Goto, TypeInv
      <3>2. QED
        BY <1>3, <3>1
    <2>2. CASE q # p
      <3>1. /\ pc'[q] = pc[q] /\ tooOld'[q] = tooOld[q]
            /\ count'[q] = count[q] /\ listed'[q] = listed[q]
        BY <1>7, <2>2 DEF Goto, Forget, TypeInv
      <3>2. QED
        BY <1>2, <1>7, <3>1
    <2>3. QED
      BY <2>1, <2>2
  <1>8. ASSUME NEW p \in Processes, CountPosts(p) PROVE Goal
    <2>1. CASE Window(p) = {}
      BY <1>7, <1>8, <2>1 DEF CountPosts
    <2>2. CASE Window(p) # {}
      <3>1. /\ count' = [count EXCEPT ![p] = Cardinality(Window(p))]
            /\ Goto(p, "reading") /\ UNCHANGED <<tooOld, listed, scored>>
        BY <1>8, <2>2 DEF CountPosts
      <3>2. CASE q = p
        <4>1. /\ count'[q] = Cardinality(Window(q)) /\ pc'[q] = "reading"
              /\ Window(q)' = Window(q)
          BY <3>1, <3>2 DEF Goto, Window, TypeInv
        <4>2. Cardinality(Window(q)) \in Nat /\ Cardinality(Window(q)) # 0
          BY <2>2, <3>2, WindowSize, FS_EmptySet
        <4>3. QED
          BY <4>1, <4>2
      <3>3. CASE q # p
        <4>1. pc'[q] = pc[q] /\ count'[q] = count[q]
          BY <3>1, <3>3 DEF Goto, TypeInv
        <4>2. QED
          BY <1>2, <3>1, <4>1
      <3>4. QED
        BY <3>2, <3>3
    <2>3. QED
      BY <2>1, <2>2
  <1>9. ASSUME NEW p \in Processes, ReadPosts(p) PROVE Goal
    <2>1. CASE q = p
      <3>1. /\ pc[q] = "reading" /\ pc'[q] = "computed"
            /\ listed'[q] = Cardinality(Window(q)) /\ count'[q] = count[q]
        BY <1>9, <2>1 DEF ReadPosts, Goto, TypeInv
      <3>2. QED
        BY <1>1, <3>1
    <2>2. CASE q # p
      <3>1. /\ pc'[q] = pc[q] /\ listed'[q] = listed[q] /\ tooOld'[q] = tooOld[q]
            /\ UNCHANGED <<scored, count>>
        BY <1>9, <2>2 DEF ReadPosts, Goto, TypeInv
      <3>2. QED
        BY <1>2, <3>1
    <2>3. QED
      BY <2>1, <2>2
  <1>10. ASSUME NEW p \in Processes,
                \/ CreateSnapshot(p) \/ EvaluateStrategies(p) \/ LogDecision(p)
                \/ DetectPump(p) \/ RaisePump(p) \/ RaisingFails(p)
         PROVE  Goal
    <2>1. UNCHANGED <<scored, tooOld, count, listed>>
      BY <1>10 DEF CreateSnapshot, EvaluateStrategies, LogDecision, DetectPump, RaisePump,
                   RaisingFails, locals
    <2>2. pc[p] \in Late /\ \E stage \in Late : Goto(p, stage)
      BY <1>10 DEF CreateSnapshot, EvaluateStrategies, AfterStrategies, LogDecision,
                   DetectPump, RaisePump, RaisingFails
    <2>3. pc'[q] = pc[q] \/ (pc[q] \in Late /\ pc'[q] \in Late)
      BY <2>2 DEF Goto, TypeInv
    <2>4. QED
      BY <1>2, <2>1, <2>3
  <1>11. ASSUME NEW p \in Processes, CheckAlert(p) PROVE Goal
    <2>1. CASE AlertDue(p) /\ CooldownOver(AlertType(reading[p]))
      <3>1. /\ pc[p] = "checking" /\ Goto(p, "alerting")
            /\ UNCHANGED <<scored, tooOld, count, listed>>
        BY <1>11, <2>1 DEF CheckAlert, locals
      <3>2. pc'[q] = pc[q] \/ (pc[q] \in Late /\ pc'[q] \in Late)
        BY <3>1 DEF Goto, TypeInv
      <3>3. QED
        BY <1>2, <3>1, <3>2
    <2>2. CASE ~(AlertDue(p) /\ CooldownOver(AlertType(reading[p])))
      BY <1>7, <1>11, <2>2 DEF CheckAlert
    <2>3. QED
      BY <2>1, <2>2
  <1>12. ASSUME NEW p \in Processes, CreateAlert(p) \/ Crash(p) PROVE Goal
    BY <1>7, <1>12 DEF CreateAlert, Crash
  <1>13. CASE Tick
    BY <1>2, <1>13 DEF Tick, locals
  <1>14. CASE UNCHANGED vars
    BY <1>2, <1>14 DEF vars, locals
  <1>15. Goal
    BY <1>4, <1>5, <1>6, <1>8, <1>9, <1>10, <1>11, <1>12, <1>13, <1>14
       DEF Next, Begin, Proceed
  <1>16. QED
    BY <1>15

\* No post that a snapshot counts is missing from what it aggregates.
THEOREM Aggregated == SafeSpec => []CountedAreAggregated
  <1>1. Init => TypeInv /\ CountInv
    BY InitTypeInv, CountInit
  <1>2. TypeInv /\ CountInv /\ [Next]_vars => (TypeInv /\ CountInv)'
    BY TypeStep, CountStep
  <1>3. TypeInv /\ CountInv => CountedAreAggregated
    BY DEF CountInv
  <1>4. QED
    BY <1>1, <1>2, <1>3, PTL DEF SafeSpec

=================================================================================
