------------------------------ MODULE MarketStream ------------------------------
(***************************************************************************)
(* Live prices for open charts.  A chart is a WebSocket                     *)
(* (apps/market/consumers.py) that keeps a row in ActiveMarketSubscription  *)
(* with an expiry its heartbeats push back.  The stream daemon              *)
(* (apps/market/alpaca_stream.py) polls the rows: its main loop opens the   *)
(* trade stream for the symbols it finds, and a monitor thread keeps the    *)
(* symbols of the stream in step with the rows until the stream ends.       *)
(*                                                                          *)
(* The set `subscribed' and the event that stops the monitor are variables  *)
(* of the loop, which never joins a monitor: one that outlives its stream   *)
(* reads those of the next, and goes on beside the next monitor.            *)
(*                                                                          *)
(* What the daemon does with a trade of the stream is in PriceStore; the    *)
(* names of the two are apart, so that a module can be about both.          *)
(***************************************************************************)
EXTENDS Integers, FiniteSets, Functions

CONSTANTS Charts, Symbols,
          SymbolOf,     \* the symbol each chart shows
          Monitors,     \* bound: monitor threads that are alive at once
          Lifetime,     \* ticks a row lives: 90 seconds in the code
          MaxSilence    \* most ticks between two heartbeats of an open chart

ASSUME SymbolOfAssumption == SymbolOf \in [Charts -> Symbols]
ASSUME LifetimeAssumption == Lifetime \in Nat
ASSUME MaxSilenceAssumption == MaxSilence \in Nat

VARIABLES
  chart,        \* the socket of each chart: closed, open or closing
  registering,  \* charts whose registration is still running in its thread
  row,          \* ticks each row has to live, Expired or NoRow
  silence,      \* ticks since the last heartbeat
  loop,         \* where the main loop is
  wanted,       \* symbols it read for the stream it is about to open
  streamed,     \* symbols the stream delivers trades of
  subscribed,   \* symbols the loop and its monitor take for streamed
  stopped,      \* whether the event the monitor looks at is set
  monitor,      \* where each monitor is
  active        \* symbols it read last

sockets == <<chart, registering, silence>>
stream  == <<loop, wanted, streamed, subscribed, stopped>>
threads == <<monitor, active>>
streamVars == <<sockets, row, stream, threads>>

NoRow   == -2
Expired == -1

InitStream ==
  /\ chart = [c \in Charts |-> "closed"]
  /\ registering = {}
  /\ row = [c \in Charts |-> NoRow]
  /\ silence = [c \in Charts |-> 0]
  /\ loop = "poll"
  /\ wanted = {} /\ streamed = {} /\ subscribed = {}
  /\ stopped = FALSE
  /\ monitor = [m \in Monitors |-> "ended"]
  /\ active = [m \in Monitors |-> {}]

-----------------------------------------------------------------------------
(* The consumers.                                                           *)

\* A socket is accepted, and its registration starts as a task of its own.
Connect(c) ==
  /\ chart[c] = "closed" /\ c \notin registering /\ row[c] = NoRow
  /\ chart' = [chart EXCEPT ![c] = "open"]
  /\ registering' = registering \union {c}
  /\ UNCHANGED <<row, silence, stream, threads>>

\* The thread of the registration stores the row, the socket open or not.
Register(c) ==
  /\ c \in registering
  /\ registering' = registering \ {c}
  /\ row' = [row EXCEPT ![c] = Lifetime]
  /\ UNCHANGED <<chart, silence, stream, threads>>

\* Mutants: a heartbeat does not touch the row, or adds to what it has.
IgnoredHeartbeat(c) == row[c]
Prolonged(c) == IF row[c] = NoRow THEN NoRow ELSE row[c] + Lifetime

\* _extend_subscription updates the row if there is one.
Extended(c) == IF row[c] = NoRow THEN NoRow ELSE Lifetime

Heartbeat(c) ==
  /\ chart[c] = "open"
  /\ silence' = [silence EXCEPT ![c] = 0]
  /\ row' = [row EXCEPT ![c] = Extended(c)]
  /\ UNCHANGED <<chart, registering, stream, threads>>

\* disconnect starts to wait, a second at most, for the registration.
Disconnect(c) ==
  /\ chart[c] = "open"
  /\ chart' = [chart EXCEPT ![c] = "closing"]
  /\ silence' = [silence EXCEPT ![c] = 0]
  /\ UNCHANGED <<registering, row, stream, threads>>

\* It deletes the row, whether the registration has ended or the wait has.
Unregister(c) ==
  /\ chart[c] = "closing"
  /\ chart' = [chart EXCEPT ![c] = "closed"]
  /\ row' = [row EXCEPT ![c] = NoRow]
  /\ UNCHANGED <<registering, silence, stream, threads>>

\* A registration nobody waits for is cancelled before its thread runs.
Cancel(c) ==
  /\ chart[c] = "closed" /\ c \in registering
  /\ registering' = registering \ {c}
  /\ UNCHANGED <<chart, row, silence, stream, threads>>

\* The server dies and the row stays.
Vanish(c) ==
  /\ chart[c] # "closed"
  /\ chart' = [chart EXCEPT ![c] = "closed"]
  /\ registering' = registering \ {c}
  /\ silence' = [silence EXCEPT ![c] = 0]
  /\ UNCHANGED <<row, stream, threads>>

\* Time passes.  An open chart has sent a heartbeat by the time it must.
Tick ==
  /\ \A c \in Charts : chart[c] = "open" => silence[c] < MaxSilence
  /\ silence' = [c \in Charts |-> IF chart[c] = "open" THEN silence[c] + 1 ELSE silence[c]]
  /\ row' = [c \in Charts |-> IF row[c] > Expired THEN row[c] - 1 ELSE row[c]]
  /\ UNCHANGED <<chart, registering, stream, threads>>

-----------------------------------------------------------------------------
(* The daemon.                                                              *)

\* get_active_symbols deletes the expired rows and lists the others.
Unexpired == [c \in Charts |-> IF row[c] = Expired THEN NoRow ELSE row[c]]
ActiveSymbols == {SymbolOf[c] : c \in {d \in Charts : row[d] > Expired}}

\* The main loop looks for symbols.
Poll ==
  /\ loop = "poll"
  /\ row' = Unexpired
  /\ wanted' = ActiveSymbols
  /\ loop' = IF ActiveSymbols = {} THEN "poll" ELSE "start"
  /\ UNCHANGED <<sockets, streamed, subscribed, stopped, threads>>

\* It opens the stream for them and starts a monitor, a thread that is not alive
\* yet, with a new event.  Nothing waits for the monitors of earlier streams.
Start(m) ==
  /\ loop = "start"
  /\ monitor[m] = "ended"
  /\ loop' = "run"
  /\ wanted' = {}
  /\ streamed' = wanted
  /\ subscribed' = wanted
  /\ stopped' = FALSE
  /\ monitor' = [monitor EXCEPT ![m] = "check"]
  /\ UNCHANGED <<sockets, row, active>>

\* The stream returns, and the loop polls again at once; or it raises, also when
\* it cannot be opened, and the loop sleeps first.
StreamEnds ==
  /\ \/ loop = "run" /\ loop' = "poll"
     \/ loop \in {"start", "run"} /\ loop' = "backoff"
  /\ wanted' = {}
  /\ streamed' = {}
  /\ stopped' = TRUE
  /\ UNCHANGED <<sockets, row, subscribed, threads>>

WakeUp ==
  /\ loop = "backoff"
  /\ loop' = "poll"
  /\ UNCHANGED <<sockets, row, wanted, streamed, subscribed, stopped, threads>>

MonitorGoto(m, stage) == monitor' = [monitor EXCEPT ![m] = stage]

Check(m) ==
  /\ monitor[m] = "check"
  /\ MonitorGoto(m, IF stopped THEN "ended" ELSE "read")
  /\ UNCHANGED <<sockets, row, stream, active>>

ReadActive(m) ==
  /\ monitor[m] = "read"
  /\ row' = Unexpired
  /\ active' = [active EXCEPT ![m] = ActiveSymbols]
  /\ MonitorGoto(m, "apply")
  /\ UNCHANGED <<sockets, stream>>

\* The symbols of a stream that runs, after a call that adds and one that removes.
Streamed(added, removed) == IF loop = "run" THEN (streamed \union added) \ removed ELSE streamed

\* Mutant: nothing is added to a running stream.
OnlyRemoved(m) == Streamed({}, subscribed \ active[m])

AfterCalls(m) == Streamed(active[m] \ subscribed, subscribed \ active[m])

\* The stream subscribes to the additions and gives up the removals.
Apply(m) ==
  /\ monitor[m] = "apply"
  /\ streamed' = AfterCalls(m)
  /\ MonitorGoto(m, "assign")
  /\ UNCHANGED <<sockets, row, loop, wanted, subscribed, stopped, active>>

EndRound(m) == MonitorGoto(m, "check") /\ active' = [active EXCEPT ![m] = {}]

\* One of the calls raises.  The library has noted the additions, which it asks
\* for when it reconnects, and keeps the removals; the round ends.
ApplyFails(m) ==
  /\ monitor[m] = "apply"
  /\ active[m] # subscribed
  /\ \E added \in {{}, active[m] \ subscribed} : streamed' = Streamed(added, {})
  /\ EndRound(m)
  /\ UNCHANGED <<sockets, row, loop, wanted, subscribed, stopped>>

Assign(m) ==
  /\ monitor[m] = "assign"
  /\ subscribed' = active[m]
  /\ MonitorGoto(m, "check") /\ active' = [active EXCEPT ![m] = {}]
  /\ UNCHANGED <<sockets, row, loop, wanted, streamed, stopped>>

MonitorStep(m) == Check(m) \/ ReadActive(m) \/ Apply(m) \/ ApplyFails(m) \/ Assign(m)

OpenStream == \E m \in Monitors : Start(m)
LoopStep == Poll \/ OpenStream \/ WakeUp

NextStream ==
  \/ \E c \in Charts : \/ Connect(c) \/ Register(c) \/ Heartbeat(c)
                       \/ Disconnect(c) \/ Unregister(c) \/ Cancel(c) \/ Vanish(c)
  \/ Tick
  \/ StreamEnds
  \/ LoopStep
  \/ \E m \in Monitors : MonitorStep(m)

\* Threads and tasks go on, open charts send heartbeats, and neither opening the
\* stream nor changing its symbols fails for ever.
Fairness ==
  /\ WF_streamVars(Tick)
  /\ WF_streamVars(LoopStep) /\ SF_streamVars(OpenStream)
  /\ \A m \in Monitors : WF_streamVars(MonitorStep(m)) /\ SF_streamVars(Apply(m))
  /\ \A c \in Charts : /\ WF_streamVars(Register(c) \/ Cancel(c))
                       /\ WF_streamVars(Heartbeat(c))
                       /\ WF_streamVars(Unregister(c))

SafeStreamSpec == InitStream /\ [][NextStream]_streamVars
StreamSpec == SafeStreamSpec /\ Fairness

-----------------------------------------------------------------------------
(* Properties.                                                              *)

\* The type of every variable.
StreamTypeOK ==
  /\ chart \in [Charts -> {"closed", "open", "closing"}]
  /\ registering \subseteq Charts
  /\ row \in [Charts -> NoRow..Lifetime]
  /\ silence \in [Charts -> 0..MaxSilence]
  /\ loop \in {"poll", "start", "run", "backoff"}
  /\ wanted \subseteq Symbols /\ streamed \subseteq Symbols /\ subscribed \subseteq Symbols
  /\ stopped \in BOOLEAN
  /\ monitor \in [Monitors -> {"ended", "check", "read", "apply", "assign"}]
  /\ active \in [Monitors -> SUBSET Symbols]

\* No open chart loses its row to the expiry: whatever polls and heartbeats
\* interleave, the registration of a chart that is open stays in force.
OpenChartsKept ==
  \A c \in Charts : (chart[c] = "open" /\ c \notin registering) => row[c] > Expired

\* A monitor of an earlier stream is alive beside that of the present one.
Overlapping ==
  loop = "run" /\ \E m, n \in Monitors : m # n /\ monitor[m] # "ended" /\ monitor[n] # "ended"

Delivered(c) == chart[c] # "open" \/ SymbolOf[c] \in streamed

\* README.md: trades are streamed for the symbols of visible charts.  No chart
\* stays open for ever without its symbol being streamed, again and again as
\* streams end and rounds fail half way, but for a stream with two monitors:
\* those take each other's symbols for streamed.
VisibleStreamed == \A c \in Charts : []<>(Delivered(c) \/ Overlapping)

=================================================================================
