---------------------------- MODULE PipelineSchedule ----------------------------
(***************************************************************************)
(* The periodic task pipeline.run_pipeline (apps/pipeline/tasks.py): Celery *)
(* beat publishes it, a worker picks it up, and a lock in the Django cache  *)
(* is meant to keep two runs from overlapping.  cache.add stores the lock   *)
(* with a timeout; the run deletes the key when it ends, whoever stored it. *)
(*                                                                          *)
(* The cache is Redis, shared by all workers, when REDIS_CACHE_URL is set,  *)
(* and otherwise the memory of each worker process: CacheOf says which.     *)
(*                                                                          *)
(* Time advances by one minute per Tick.  A run of any length up to MaxRun  *)
(* minutes is possible: nothing in the code limits it.  A worker may die at *)
(* any point, and then its `finally' does not run.  Beat entries come from  *)
(* the settings (their messages expire after a minute) and, if the          *)
(* setup_schedule command was used, from the database (theirs never do).    *)
(***************************************************************************)
EXTENDS Integers, Sequences

CONSTANTS Workers,
          Caches, CacheOf,  \* the cache each worker process talks to
          Entries,          \* beat entries that publish the task
          ExpiringEntries,  \* those whose messages expire
          BeatPeriod, ExpiresAfter, LockTimeout,  \* minutes
          NumSymbols,       \* tickers each run goes through
          MaxRun,           \* bound: the longest run, in minutes
          MaxQueue,         \* bound: messages of an entry that may wait
          NoWorker

ASSUME TimesAssumption ==
  /\ BeatPeriod \in Nat \ {0} /\ ExpiresAfter \in Nat
  /\ LockTimeout \in Nat \ {0} /\ MaxRun \in Nat
ASSUME SizesAssumption == NumSymbols \in Nat /\ MaxQueue \in Nat
ASSUME EntriesAssumption == ExpiringEntries \subseteq Entries
ASSUME NoWorkerAssumption == NoWorker \notin Workers
ASSUME CacheAssumption == CacheOf \in [Workers -> Caches]

VARIABLES
  countdown,  \* minutes until beat publishes each entry again
  queue,      \* ages of the messages of each entry that wait in the broker
  holder,     \* the worker whose key is in each cache, if any
  ttl,        \* minutes until the key expires
  pc,         \* what each worker does
  age,        \* minutes since its run started
  todo        \* symbols its run has left

vars == <<countdown, queue, holder, ttl, pc, age, todo>>

Active == {w \in Workers : pc[w] # "idle"}

Init ==
  /\ countdown \in [Entries -> 0..BeatPeriod - 1]
  /\ queue = [e \in Entries |-> <<>>]
  /\ holder = [c \in Caches |-> NoWorker]
  /\ ttl = [c \in Caches |-> 0]
  /\ pc = [w \in Workers |-> "idle"]
  /\ age = [w \in Workers |-> 0]
  /\ todo = [w \in Workers |-> 0]

\* Beat publishes a due entry.
Beat(e) ==
  /\ countdown[e] = 0
  /\ Len(queue[e]) < MaxQueue
  /\ countdown' = [countdown EXCEPT ![e] = BeatPeriod]
  /\ queue' = [queue EXCEPT ![e] = Append(@, 0)]
  /\ UNCHANGED <<holder, ttl, pc, age, todo>>

Expired(e) == e \in ExpiringEntries /\ Head(queue[e]) > ExpiresAfter

Receive(w, e) ==
  /\ pc[w] = "idle"
  /\ queue[e] # <<>>
  /\ queue' = [queue EXCEPT ![e] = Tail(@)]

\* A worker drops a message that waited for too long.
Discard(w, e) ==
  /\ Receive(w, e)
  /\ Expired(e)
  /\ UNCHANGED <<countdown, holder, ttl, pc, age, todo>>

\* Mutant: cache.set instead of cache.add.
SetInsteadOfAdd(w) == TRUE

CacheAddSucceeds(w) == holder[CacheOf[w]] = NoWorker

\* run_pipeline starts: cache.add stores the key.
Start(w, e) ==
  /\ Receive(w, e)
  /\ ~Expired(e)
  /\ CacheAddSucceeds(w)
  /\ holder' = [holder EXCEPT ![CacheOf[w]] = w]
  /\ ttl' = [ttl EXCEPT ![CacheOf[w]] = LockTimeout]
  /\ pc' = [pc EXCEPT ![w] = "listing"]
  /\ age' = [age EXCEPT ![w] = 0]
  /\ UNCHANGED <<countdown, todo>>

\* "Pipeline already running; skipping overlapping run".
Skip(w, e) ==
  /\ Receive(w, e)
  /\ ~Expired(e)
  /\ ~CacheAddSucceeds(w)
  /\ UNCHANGED <<countdown, holder, ttl, pc, age, todo>>

Stop(w) ==
  /\ pc' = [pc EXCEPT ![w] = "idle"]
  /\ age' = [age EXCEPT ![w] = 0]
  /\ todo' = [todo EXCEPT ![w] = 0]

\* cache.delete removes whatever key is there.
DeleteKey(c) ==
  /\ holder' = [holder EXCEPT ![c] = NoWorker]
  /\ ttl' = [ttl EXCEPT ![c] = 0]

\* The symbols are read before the `try', so a database error there ends the
\* task and leaves the key in the cache.
ListSymbols(w) ==
  /\ pc[w] = "listing"
  /\ pc' = [pc EXCEPT ![w] = "running"]
  /\ todo' = [todo EXCEPT ![w] = NumSymbols]
  /\ UNCHANGED <<countdown, queue, holder, ttl, age>>

ListFails(w) ==
  /\ pc[w] = "listing"
  /\ Stop(w)
  /\ UNCHANGED <<countdown, queue, holder, ttl>>

\* One symbol, whether it succeeds or its exception is logged.
ProcessSymbol(w) ==
  /\ pc[w] = "running" /\ todo[w] > 0
  /\ todo' = [todo EXCEPT ![w] = @ - 1]
  /\ UNCHANGED <<countdown, queue, holder, ttl, pc, age>>

\* The loop is over, and `finally' deletes the key.
Finish(w) ==
  /\ pc[w] = "running" /\ todo[w] = 0
  /\ DeleteKey(CacheOf[w])
  /\ Stop(w)
  /\ UNCHANGED <<countdown, queue>>

\* A cache that no other process uses dies with its worker.
Private(w) == \A v \in Workers : CacheOf[v] = CacheOf[w] => v = w

\* The worker process is killed in the middle of a run.
Crash(w) ==
  /\ pc[w] # "idle"
  /\ Stop(w)
  /\ IF Private(w) THEN DeleteKey(CacheOf[w]) ELSE UNCHANGED <<holder, ttl>>
  /\ UNCHANGED <<countdown, queue>>

\* Mutant: the lock is stored without a timeout.
NeverExpires(c) == FALSE

KeyExpires(c) == ttl[c] <= 1

\* Ages of messages stop counting once past any expiry.
Older(s) == [i \in DOMAIN s |-> IF s[i] > ExpiresAfter THEN s[i] ELSE s[i] + 1]

\* A minute passes: messages and runs age, the cache drops an expired key.
Tick ==
  /\ \A e \in Entries : countdown[e] > 0
  /\ \A w \in Active : age[w] < MaxRun
  /\ countdown' = [e \in Entries |-> countdown[e] - 1]
  /\ queue' = [e \in Entries |-> Older(queue[e])]
  /\ age' = [w \in Workers |-> IF w \in Active THEN age[w] + 1 ELSE 0]
  /\ ttl' = [c \in Caches |-> IF ttl[c] > 0 THEN ttl[c] - 1 ELSE 0]
  /\ holder' = [c \in Caches |-> IF KeyExpires(c) THEN NoWorker ELSE holder[c]]
  /\ UNCHANGED <<pc, todo>>

Deliver(w) == \E e \in Entries : Discard(w, e) \/ Start(w, e) \/ Skip(w, e)

Work(w) == ListSymbols(w) \/ ProcessSymbol(w) \/ Finish(w)

Next ==
  \/ \E e \in Entries : Beat(e)
  \/ \E w \in Workers : Deliver(w) \/ Work(w) \/ ListFails(w) \/ Crash(w)
  \/ Tick

\* Beat, the clock and the workers keep going: no server keeps a fetch waiting for
\* ever (what that would do to a run is in Ingestion).  A worker may still fail or
\* die in every run, so no run is guaranteed to finish.
Fairness ==
  /\ WF_vars(Tick)
  /\ \A e \in Entries : WF_vars(Beat(e))
  /\ \A w \in Workers : WF_vars(Deliver(w)) /\ WF_vars(Work(w))

SafeSpec == Init /\ [][Next]_vars
Spec == SafeSpec /\ Fairness

-----------------------------------------------------------------------------
(* Properties.                                                              *)

\* The type of every variable, and the bounds; a cache holds a key exactly
\* while its timeout runs.
TypeOK ==
  /\ countdown \in [Entries -> 0..BeatPeriod]
  /\ queue \in [Entries -> Seq(Nat)]
  /\ holder \in [Caches -> Workers \union {NoWorker}]
  /\ ttl \in [Caches -> 0..LockTimeout]
  /\ \A c \in Caches : holder[c] = NoWorker <=> ttl[c] = 0
  /\ pc \in [Workers -> {"idle", "listing", "running"}]
  /\ age \in [Workers -> 0..MaxRun]
  /\ todo \in [Workers -> 0..NumSymbols]

\* Two runs of the pipeline are never in progress at once.
NoOverlap == \A v, w \in Active : v = w

\* A run in progress still holds the lock it stored: the key has neither
\* expired under it nor been deleted or replaced by another run.
RunHoldsLock ==
  \A w \in Active : holder[CacheOf[w]] = w /\ ttl[CacheOf[w]] + age[w] = LockTimeout

\* The pipeline is started again and again for ever, whatever runs crash or
\* fail, however long they take and whatever messages are skipped or dropped.
KeepsRunning == []<>(Active # {})

=================================================================================
