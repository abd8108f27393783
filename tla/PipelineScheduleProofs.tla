------------------------- MODULE PipelineScheduleProofs -------------------------
(***************************************************************************)
(* The lock of pipeline.run_pipeline excludes overlapping runs on two       *)
(* conditions, both left to the deployment: every run is shorter than the   *)
(* lock's timeout, and all workers talk to one cache.  The first alone      *)
(* makes RunHoldsLock inductive: a run that holds a fresh key keeps every   *)
(* other run out of its cache, and none but its own `finally' deletes it.   *)
(***************************************************************************)
EXTENDS PipelineSchedule, TLAPS

ShortRuns == MaxRun < LockTimeout

OneCache == \A v, w \in Workers : CacheOf[v] = CacheOf[w]

\* The ages of messages stay ages.
LEMMA OlderType ==
  ASSUME NEW s \in Seq(Nat)
  PROVE  Older(s) \in Seq(Nat)
  <1>1. Older(s) \in [1..Len(s) -> Nat]
    BY TimesAssumption DEF Older
  <1>2. QED
    BY <1>1

LEMMA InitType == Init => TypeOK
  BY TimesAssumption, SizesAssumption DEF Init, TypeOK

\* Every step keeps the variables in their types.
LEMMA TypeStep == TypeOK /\ [Next]_vars => TypeOK'
  <1> SUFFICES ASSUME TypeOK, [Next]_vars PROVE TypeOK'
    OBVIOUS
  <1> USE TimesAssumption, SizesAssumption, CacheAssumption, NoWorkerAssumption DEF TypeOK
  <1>1. ASSUME NEW e \in Entries, Beat(e) PROVE TypeOK'
    BY <1>1 DEF Beat
  <1>2. ASSUME NEW w \in Workers, NEW e \in Entries, Receive(w, e)
        PROVE  queue' \in [Entries -> Seq(Nat)]
    BY <1>2 DEF Receive
  <1>3. ASSUME NEW w \in Workers, NEW e \in Entries, Discard(w, e) \/ Skip(w, e) PROVE TypeOK'
    BY <1>2, <1>3 DEF Discard, Skip
  <1>4. ASSUME NEW w \in Workers, NEW e \in Entries, Start(w, e) PROVE TypeOK'
    BY <1>2, <1>4 DEF Start
  <1>5. ASSUME NEW w \in Workers, ListSymbols(w) PROVE TypeOK'
    BY <1>5 DEF ListSymbols
  <1>6. ASSUME NEW w \in Workers, ListFails(w) PROVE TypeOK'
    BY <1>6 DEF ListFails, Stop
  <1>7. ASSUME NEW w \in Workers, ProcessSymbol(w) PROVE TypeOK'
    BY <1>7 DEF ProcessSymbol
  <1>8. ASSUME NEW w \in Workers, Finish(w) PROVE TypeOK'
    BY <1>8 DEF Finish, Stop, DeleteKey
  <1>9. ASSUME NEW w \in Workers, Crash(w) PROVE TypeOK'
    <2>1. /\ pc' \in [Workers -> {"idle", "listing", "running"}]
          /\ age' \in [Workers -> 0..MaxRun] /\ todo' \in [Workers -> 0..NumSymbols]
          /\ UNCHANGED <<countdown, queue>>
      BY <1>9 DEF Crash, Stop
    <2>2. CASE Private(w)
      <3>1. DeleteKey(CacheOf[w]) /\ CacheOf[w] \in Caches
        BY <1>9, <2>2 DEF Crash
      <3>2. /\ ttl' \in [Caches -> 0..LockTimeout]
            /\ holder' \in [Caches -> Workers \union {NoWorker}]
            /\ \A c \in Caches : holder'[c] = NoWorker <=> ttl'[c] = 0
        BY <3>1 DEF DeleteKey
      <3>3. QED
        BY <2>1, <3>2
    <2>3. CASE ~Private(w)
      BY <1>9, <2>1, <2>3 DEF Crash
    <2>4. QED
      BY <2>2, <2>3
  <1>10. ASSUME Tick PROVE TypeOK'
    <2>1. queue' \in [Entries -> Seq(Nat)]
      BY <1>10, OlderType DEF Tick
    <2>2. countdown' \in [Entries -> 0..BeatPeriod]
      BY <1>10 DEF Tick
    <2>3. age' \in [Workers -> 0..MaxRun]
      BY <1>10 DEF Tick, Active
    <2>4. /\ ttl' \in [Caches -> 0..LockTimeout]
          /\ holder' \in [Caches -> Workers \union {NoWorker}]
          /\ \A c \in Caches : holder'[c] = NoWorker <=> ttl'[c] = 0
      BY <1>10 DEF Tick, KeyExpires
    <2>5. QED
      BY <1>10, <2>1, <2>2, <2>3, <2>4 DEF Tick
  <1>11. CASE UNCHANGED vars
    BY <1>11 DEF vars
  <1>12. QED
    BY <1>1, <1>3, <1>4, <1>5, <1>6, <1>7, <1>8, <1>9, <1>10, <1>11 DEF Next, Deliver, Work

\* Every step leaves each run in progress with its key.
LEMMA HoldsStep ==
  ASSUME ShortRuns, TypeOK, RunHoldsLock, [Next]_vars
  PROVE  RunHoldsLock'
  <1> SUFFICES ASSUME NEW v \in Workers, v \in Active'
               PROVE  (holder[CacheOf[v]] = v /\ ttl[CacheOf[v]] + age[v] = LockTimeout)'
    BY DEF RunHoldsLock, Active
  <1> USE TimesAssumption, CacheAssumption, NoWorkerAssumption DEF TypeOK, RunHoldsLock, Active
  <1>1. ASSUME NEW w \in Workers, NEW e \in Entries, Start(w, e)
        PROVE  (holder[CacheOf[v]] = v /\ ttl[CacheOf[v]] + age[v] = LockTimeout)'
    <2>1. CASE v = w
      BY <1>1, <2>1 DEF Start
    <2>2. CASE v # w
      <3>1. holder[CacheOf[v]] = v
        BY <1>1, <2>2 DEF Start
      <3>2. CacheOf[v] # CacheOf[w]
        BY <1>1, <3>1 DEF Start, CacheAddSucceeds
      <3>3. QED
        BY <1>1, <2>2, <3>2 DEF Start
    <2>3. QED
      BY <2>1, <2>2
  <1>2. ASSUME NEW w \in Workers, Finish(w)
        PROVE  (holder[CacheOf[v]] = v /\ ttl[CacheOf[v]] + age[v] = LockTimeout)'
    <2>1. v # w /\ pc[v] # "idle"
      BY <1>2 DEF Finish, Stop
    <2>2. CacheOf[v] # CacheOf[w]
      BY <1>2, <2>1 DEF Finish
    <2>3. QED
      BY <1>2, <2>1, <2>2 DEF Finish, Stop, DeleteKey
  <1>3. ASSUME NEW w \in Workers, Crash(w)
        PROVE  (holder[CacheOf[v]] = v /\ ttl[CacheOf[v]] + age[v] = LockTimeout)'
    <2>1. v # w /\ pc[v] # "idle"
      BY <1>3 DEF Crash, Stop
    <2>2. CASE Private(w)
      BY <1>3, <2>1, <2>2 DEF Crash, Stop, DeleteKey, Private
    <2>3. CASE ~Private(w)
      BY <1>3, <2>1, <2>3 DEF Crash, Stop
    <2>4. QED
      BY <2>2, <2>3
  <1>4. ASSUME Tick
        PROVE  (holder[CacheOf[v]] = v /\ ttl[CacheOf[v]] + age[v] = LockTimeout)'
    <2>1. /\ pc[v] # "idle" /\ age[v] < MaxRun /\ age'[v] = age[v] + 1
          /\ holder[CacheOf[v]] = v /\ ttl[CacheOf[v]] + age[v] = LockTimeout
      BY <1>4 DEF Tick
    <2>2. ttl[CacheOf[v]] > 1
      BY <2>1 DEF ShortRuns
    <2>3. QED
      BY <1>4, <2>1, <2>2 DEF Tick, KeyExpires
  <1>5. ASSUME NEW w \in Workers, ListSymbols(w) \/ ListFails(w) \/ ProcessSymbol(w)
        PROVE  (holder[CacheOf[v]] = v /\ ttl[CacheOf[v]] + age[v] = LockTimeout)'
    BY <1>5 DEF ListSymbols, ListFails, ProcessSymbol, Stop
  <1>6. ASSUME UNCHANGED <<holder, ttl, pc, age>>
        PROVE  (holder[CacheOf[v]] = v /\ ttl[CacheOf[v]] + age[v] = LockTimeout)'
    BY <1>6
  <1>7. QED
    BY <1>1, <1>2, <1>3, <1>4, <1>5, <1>6 DEF Next, Deliver, Work, Beat, Discard, Skip, vars

-----------------------------------------------------------------------------
\* Every variable keeps its type; a key lives exactly as long as its timeout.
THEOREM TypeCorrect == Spec => []TypeOK
  BY InitType, TypeStep, PTL DEF Spec, SafeSpec

\* If no run lasts as long as the lock's timeout, a run never loses its lock,
\* whatever caches the workers use.
THEOREM LockKept ==
  ASSUME ShortRuns
  PROVE  Spec => []RunHoldsLock
  <1>1. Init => RunHoldsLock
    BY DEF Init, RunHoldsLock, Active
  <1>2. TypeOK /\ RunHoldsLock /\ [Next]_vars => RunHoldsLock'
    BY HoldsStep
  <1>3. QED
    BY <1>1, <1>2, TypeCorrect, PTL DEF Spec, SafeSpec

\* If moreover all workers share one cache, runs never overlap, however many
\* beat entries publish the task.
THEOREM Exclusion ==
  ASSUME ShortRuns, OneCache
  PROVE  Spec => []NoOverlap
  <1>1. RunHoldsLock => NoOverlap
    <2> SUFFICES ASSUME RunHoldsLock, NEW v \in Active, NEW w \in Active PROVE v = w
      BY DEF NoOverlap
    <2>1. v \in Workers /\ w \in Workers
      BY DEF Active
    <2>2. holder[CacheOf[v]] = v /\ holder[CacheOf[w]] = w
      BY DEF RunHoldsLock
    <2>3. CacheOf[v] = CacheOf[w]
      BY <2>1 DEF OneCache
    <2>4. QED
      BY <2>2, <2>3
  <1>2. Spec => []RunHoldsLock
    BY LockKept
  <1>3. QED
    BY <1>1, <1>2, PTL

=================================================================================
