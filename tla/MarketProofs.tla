------------------------------ MODULE MarketProofs ------------------------------
(***************************************************************************)
(* The market stream and the price store, for any number of charts,         *)
(* threads, daemons, trades and readers.  Heartbeats that come before its   *)
(* row runs out keep a chart in the stream.                                 *)
(*                                                                          *)
(* No daemon overwrites what another has folded into a bar, and none pushes *)
(* a bar that the rows have not reached: SeenIsCurrent is inductive only    *)
(* with Locked, that no two open transactions have the same row, and with   *)
(* the rows' identities, which TypeOK has.  A quote is the newest live row, *)
(* because of where the times of trades and bars stand to the exchange's    *)
(* (QuoteInv).  The bars of a minute add up to its trades (BooksInv), which *)
(* rests on all of these.                                                   *)
(***************************************************************************)
EXTENDS MarketStream, PriceStore, FiniteSetTheorems, WellFoundedInduction, TLAPS

-----------------------------------------------------------------------------
(* The market stream.                                                       *)

SocketsOK ==
  /\ chart \in [Charts -> {"closed", "open", "closing"}]
  /\ registering \subseteq Charts
  /\ row \in [Charts -> NoRow..Lifetime]
  /\ silence \in [Charts -> 0..MaxSilence]

DaemonOK ==
  /\ loop \in {"poll", "start", "run", "backoff"}
  /\ wanted \subseteq Symbols /\ streamed \subseteq Symbols /\ subscribed \subseteq Symbols
  /\ stopped \in BOOLEAN
  /\ monitor \in [Monitors -> {"ended", "check", "read", "apply", "assign"}]
  /\ active \in [Monitors -> SUBSET Symbols]

LEMMA StreamTypeParts == StreamTypeOK <=> SocketsOK /\ DaemonOK
BY DEF StreamTypeOK, SocketsOK, DaemonOK

\* The consumers, the clock and the daemon, each with what it leaves alone.
Socket(c) ==
  \/ Connect(c) \/ Register(c) \/ Heartbeat(c)
  \/ Disconnect(c) \/ Unregister(c) \/ Cancel(c) \/ Vanish(c)

Daemon == StreamEnds \/ LoopStep \/ \E m \in Monitors : MonitorStep(m)

LEMMA StreamParts == NextStream <=> (\E c \in Charts : Socket(c)) \/ Tick \/ Daemon
BY DEF NextStream, Socket, Daemon

LEMMA SocketsLeave == ASSUME (\E c \in Charts : Socket(c)) \/ Tick PROVE UNCHANGED <<stream, threads>>
BY DEF Socket, Connect, Register, Heartbeat, Disconnect, Unregister, Cancel, Vanish, Tick

\* Of the rows the daemon only deletes expired ones.
LEMMA DaemonLeaves == ASSUME Daemon PROVE UNCHANGED sockets /\ row' \in {row, Unexpired}
BY DEF Daemon, StreamEnds, LoopStep, Poll, OpenStream, Start, WakeUp, MonitorStep, Check, ReadActive,
       Apply, ApplyFails, Assign

LEMMA UnexpiredType == ASSUME SocketsOK PROVE Unexpired \in [Charts -> NoRow..Lifetime]
BY LifetimeAssumption DEF SocketsOK, Unexpired, NoRow, Expired

LEMMA ActiveAreSymbols == ActiveSymbols \subseteq Symbols
BY SymbolOfAssumption DEF ActiveSymbols

LEMMA SocketKeepsType ==
  ASSUME SocketsOK, NEW c \in Charts, Socket(c)
  PROVE  SocketsOK'
<1>1. /\ Lifetime \in NoRow..Lifetime /\ NoRow \in NoRow..Lifetime
      /\ 0 \in 0..MaxSilence
  BY LifetimeAssumption, MaxSilenceAssumption DEF NoRow
<1>2. row' = row \/ \E life \in NoRow..Lifetime : row' = [row EXCEPT ![c] = life]
  BY <1>1 DEF Socket, Connect, Register, Heartbeat, Disconnect, Unregister, Cancel, Vanish, Extended
<1>3. silence' = silence \/ silence' = [silence EXCEPT ![c] = 0]
  BY DEF Socket, Connect, Register, Heartbeat, Disconnect, Unregister, Cancel, Vanish
<1>4. chart' = chart \/ \E to \in {"closed", "open", "closing"} : chart' = [chart EXCEPT ![c] = to]
  BY DEF Socket, Connect, Register, Heartbeat, Disconnect, Unregister, Cancel, Vanish
<1>5. registering' \in {registering, registering \union {c}, registering \ {c}}
  BY DEF Socket, Connect, Register, Heartbeat, Disconnect, Unregister, Cancel, Vanish
<1>6. row' \in [Charts -> NoRow..Lifetime]
  BY <1>2 DEF SocketsOK
<1>7. silence' \in [Charts -> 0..MaxSilence]
  BY <1>1, <1>3 DEF SocketsOK
<1>8. chart' \in [Charts -> {"closed", "open", "closing"}]
  BY <1>4 DEF SocketsOK
<1>. QED BY <1>5, <1>6, <1>7, <1>8 DEF SocketsOK

LEMMA TickKeepsType == ASSUME SocketsOK, Tick PROVE SocketsOK'
<1>1. row' \in [Charts -> NoRow..Lifetime]
  BY LifetimeAssumption DEF Tick, SocketsOK, NoRow, Expired
<1>2. silence' \in [Charts -> 0..MaxSilence]
  BY MaxSilenceAssumption DEF Tick, SocketsOK
<1>. QED BY <1>1, <1>2 DEF Tick, SocketsOK

LEMMA DaemonKeepsType ==
  ASSUME DaemonOK, Daemon
  PROVE  DaemonOK'
<1>1. CASE StreamEnds
  BY <1>1 DEF StreamEnds, DaemonOK, threads
<1>2. CASE Poll
  BY <1>2, ActiveAreSymbols DEF Poll, DaemonOK, threads
<1>3. CASE WakeUp
  BY <1>3 DEF WakeUp, DaemonOK, threads
<1>4. ASSUME NEW m \in Monitors, Start(m) PROVE DaemonOK'
  BY <1>4 DEF Start, DaemonOK
<1>5. ASSUME NEW m \in Monitors, MonitorStep(m) PROVE DaemonOK'
  <2>1. CASE Check(m)
    BY <2>1 DEF Check, MonitorGoto, DaemonOK, stream
  <2>2. CASE ReadActive(m)
    BY <2>2, ActiveAreSymbols DEF ReadActive, MonitorGoto, DaemonOK, stream
  <2>3. CASE Apply(m)
    <3>1. AfterCalls(m) \subseteq Symbols
      BY DEF AfterCalls, Streamed, DaemonOK
    <3>. QED BY <2>3, <3>1 DEF Apply, MonitorGoto, DaemonOK
  <2>4. CASE ApplyFails(m)
    <3>1. streamed' \subseteq Symbols
      BY <2>4 DEF ApplyFails, Streamed, DaemonOK
    <3>. QED BY <2>4, <3>1 DEF ApplyFails, EndRound, MonitorGoto, DaemonOK
  <2>5. CASE Assign(m)
    BY <2>5 DEF Assign, MonitorGoto, DaemonOK
  <2>. QED BY <1>5, <2>1, <2>2, <2>3, <2>4, <2>5 DEF MonitorStep
<1>. QED BY <1>1, <1>2, <1>3, <1>4, <1>5 DEF Daemon, LoopStep, OpenStream

LEMMA StreamInit == InitStream => StreamTypeOK
<1>. SUFFICES ASSUME InitStream PROVE StreamTypeOK
  OBVIOUS
<1>1. NoRow \in NoRow..Lifetime /\ 0 \in 0..MaxSilence
  BY LifetimeAssumption, MaxSilenceAssumption DEF NoRow
<1>2. SocketsOK
  BY <1>1 DEF InitStream, SocketsOK
<1>3. DaemonOK
  BY DEF InitStream, DaemonOK
<1>. QED BY <1>2, <1>3, StreamTypeParts

LEMMA StreamStep == StreamTypeOK /\ [NextStream]_streamVars => StreamTypeOK'
<1>. SUFFICES ASSUME SocketsOK, DaemonOK, [NextStream]_streamVars PROVE SocketsOK' /\ DaemonOK'
  BY StreamTypeParts DEF StreamTypeOK, SocketsOK, DaemonOK
<1>1. CASE \E c \in Charts : Socket(c)
  <2>1. SocketsOK'
    BY <1>1, SocketKeepsType
  <2>. QED BY <1>1, <2>1, SocketsLeave DEF DaemonOK, stream, threads
<1>2. CASE Tick
  <2>1. SocketsOK'
    BY <1>2, TickKeepsType
  <2>. QED BY <1>2, <2>1, SocketsLeave DEF DaemonOK, stream, threads
<1>3. CASE Daemon
  <2>1. DaemonOK'
    BY <1>3, DaemonKeepsType
  <2>. QED BY <1>3, <2>1, DaemonLeaves, UnexpiredType DEF SocketsOK, sockets
<1>4. CASE UNCHANGED streamVars
  BY <1>4 DEF streamVars, sockets, stream, threads, SocketsOK, DaemonOK
<1>. QED BY <1>1, <1>2, <1>3, <1>4, StreamParts

\* Every variable of the consumers and of the daemon keeps its type; a row never
\* lives longer than it is given.
THEOREM StreamTypes == SafeStreamSpec => []StreamTypeOK
<1>1. InitStream => StreamTypeOK
  BY StreamInit
<1>2. StreamTypeOK /\ [NextStream]_streamVars => StreamTypeOK'
  BY StreamStep
<1>. QED BY <1>1, <1>2, PTL DEF SafeStreamSpec

-----------------------------------------------------------------------------

\* Heartbeats come before a row has run out.
InTime == MaxSilence <= Lifetime

\* What a row has left and what its chart has been silent make up its lifetime,
\* at least: the registration may come after some silence.
RowLasts ==
  \A c \in Charts : (chart[c] = "open" /\ c \notin registering) =>
    row[c] >= 0 /\ row[c] + silence[c] >= Lifetime

LEMMA SocketKeepsRow ==
  ASSUME SocketsOK, RowLasts, NEW c \in Charts, Socket(c)
  PROVE  RowLasts'
<1>. SUFFICES ASSUME NEW d \in Charts, chart'[d] = "open", d \notin registering'
              PROVE  row'[d] >= 0 /\ row'[d] + silence'[d] >= Lifetime
  BY DEF RowLasts
<1>1. CASE d # c
  <2>1. chart'[d] = chart[d] /\ row'[d] = row[d] /\ silence'[d] = silence[d]
    BY <1>1 DEF Socket, Connect, Register, Heartbeat, Disconnect, Unregister, Cancel, Vanish, SocketsOK
  <2>2. d \notin registering
    BY <1>1 DEF Socket, Connect, Register, Heartbeat, Disconnect, Unregister, Cancel, Vanish
  <2>. QED BY <2>1, <2>2 DEF RowLasts
<1>2. CASE d = c
  <2>1. CASE Register(c)
    BY <1>2, <2>1, LifetimeAssumption DEF Register, SocketsOK
  <2>2. CASE Heartbeat(c)
    <3>1. chart[c] = "open" /\ c \notin registering
      BY <1>2, <2>2 DEF Heartbeat
    <3>2. row[c] # NoRow
      BY <3>1 DEF RowLasts, NoRow
    <3>. QED BY <1>2, <2>2, <3>2, LifetimeAssumption DEF Heartbeat, Extended, SocketsOK
  <2>3. ~(Connect(c) \/ Disconnect(c) \/ Unregister(c) \/ Cancel(c) \/ Vanish(c))
    BY <1>2 DEF Connect, Disconnect, Unregister, Cancel, Vanish, SocketsOK
  <2>. QED BY <2>1, <2>2, <2>3 DEF Socket
<1>. QED BY <1>1, <1>2

LEMMA TickKeepsRow ==
  ASSUME InTime, SocketsOK, RowLasts, Tick
  PROVE  RowLasts'
<1>. SUFFICES ASSUME NEW c \in Charts, chart[c] = "open", c \notin registering
              PROVE  row'[c] >= 0 /\ row'[c] + silence'[c] >= Lifetime
  BY DEF RowLasts, Tick
<1>1. row[c] >= 0 /\ row[c] + silence[c] >= Lifetime /\ row[c] \in Int /\ silence[c] \in Int
  BY LifetimeAssumption DEF RowLasts, SocketsOK, NoRow
<1>2. silence[c] < MaxSilence
  BY DEF Tick
<1>3. row'[c] = row[c] - 1 /\ silence'[c] = silence[c] + 1
  BY <1>1 DEF Tick, Expired
<1>. QED BY <1>1, <1>2, <1>3, LifetimeAssumption, MaxSilenceAssumption DEF InTime

LEMMA DaemonKeepsRow ==
  ASSUME RowLasts, Daemon
  PROVE  RowLasts'
<1>. SUFFICES ASSUME NEW c \in Charts, chart[c] = "open", c \notin registering
              PROVE  row'[c] >= 0 /\ row'[c] + silence[c] >= Lifetime
  BY DaemonLeaves DEF RowLasts, sockets
<1>1. row[c] >= 0 /\ row[c] + silence[c] >= Lifetime
  BY DEF RowLasts
<1>2. row'[c] = row[c]
  BY <1>1, DaemonLeaves DEF Unexpired, Expired
<1>. QED BY <1>1, <1>2

\* A chart that sends its heartbeats in time keeps its row, whatever sockets,
\* registrations, polls and monitors do meanwhile: under the promise that no
\* silence is longer than the lifetime (90 seconds) of a row.
THEOREM ChartsKept == InTime => (SafeStreamSpec => []OpenChartsKept)
<1>. SUFFICES ASSUME InTime PROVE SafeStreamSpec => []OpenChartsKept
  OBVIOUS
<1>1. InitStream => StreamTypeOK /\ RowLasts
  BY StreamInit DEF InitStream, RowLasts
<1>2. StreamTypeOK /\ RowLasts /\ [NextStream]_streamVars => StreamTypeOK' /\ RowLasts'
  <2>. SUFFICES ASSUME StreamTypeOK, RowLasts, [NextStream]_streamVars PROVE StreamTypeOK' /\ RowLasts'
    OBVIOUS
  <2>1. StreamTypeOK'
    BY StreamStep
  <2>2. SocketsOK
    BY StreamTypeParts
  <2>3. CASE UNCHANGED streamVars
    BY <2>1, <2>3 DEF streamVars, sockets, RowLasts
  <2>. QED BY <2>1, <2>2, <2>3, SocketKeepsRow, TickKeepsRow, DaemonKeepsRow, StreamParts
<1>3. StreamTypeOK /\ RowLasts => OpenChartsKept
  BY LifetimeAssumption DEF RowLasts, OpenChartsKept, StreamTypeOK, NoRow, Expired
<1>. QED BY <1>1, <1>2, <1>3, PTL DEF SafeStreamSpec

-----------------------------------------------------------------------------
(* The price store.                                                         *)

Storing(d) == pc[d] = "storing" /\ seen[d] # None

\* No two open transactions have locked one row.
Locked == \A d, e \in Daemons : Storing(d) /\ Storing(e) /\ d # e => seen[d].id # seen[e].id

\* purge_seed_prices leaves the bars of the daemons alone.
SeenIsStreamed == \A d \in Daemons : seen[d] # None => seen[d].source = "alpaca_stream"

\* A daemon that has stored a trade has its bar.
StoredIsSeen == \A d \in Daemons : pc[d] = "stored" => seen[d] # None

IInv == TypeOK /\ SeenIsCurrent /\ Locked /\ SeenIsStreamed /\ StoredIsSeen /\ ChartNotAhead

Prices == [open : Nat, high : Nat, low : Nat, close : Nat, volume : Nat]

LEMMA RowType ==
  ASSUME NEW id \in Nat, NEW ts \in 0..MaxMinute, NEW source \in LIVE_SOURCES, NEW bar \in Prices
  PROVE  Row(id, ts, source, bar) \in Bar
  BY DEF Row, Bar, Prices

LEMMA FirstBarType == ASSUME NEW t \in Trade PROVE FirstBar(t) \in Prices
  BY DEF FirstBar, Prices, Trade

\* A bar the daemon has folded a trade into is a bar, of no less.
LEMMA FoldedType ==
  ASSUME NEW b \in Bar, NEW t \in Trade
  PROVE  /\ Folded(b, b, t) \in Bar
         /\ Folded(b, b, t).id = b.id /\ Folded(b, b, t).ts = b.ts
         /\ Folded(b, b, t).source = b.source
         /\ b.volume <= Folded(b, b, t).volume
         /\ b.high <= Folded(b, b, t).high /\ Folded(b, b, t).low <= b.low
  BY DEF Folded, Bar, Trade, Larger, Smaller

\* An insertion adds one row with an identity of its own.
LEMMA InsertType ==
  ASSUME TypeOK, NEW ts \in 0..MaxMinute, NEW source \in LIVE_SOURCES, NEW bar \in Prices,
         Insert(ts, source, bar)
  PROVE  /\ rows \subseteq rows' /\ rows' \subseteq Bar /\ lastId' \in Nat
         /\ \A r, x \in rows' : r.id <= lastId' /\ (r.id = x.id => r = x)
         /\ Row(lastId + 1, ts, source, bar) \in rows'
         /\ Row(lastId + 1, ts, source, bar) \in Bar
  <1> DEFINE new == Row(lastId + 1, ts, source, bar)
  <1>1. lastId \in Nat /\ lastId' = lastId + 1 /\ rows' = rows \union {new}
    BY DEF Insert, TypeOK
  <1>2. new \in Bar /\ new.id = lastId + 1
    BY <1>1, RowType DEF Row
  <1> HIDE DEF new
  <1>3. \A r \in rows : r \in Bar /\ r.id \in Nat /\ r.id <= lastId
    BY DEF TypeOK, Bar
  <1>4. \A r, x \in rows : r.id = x.id => r = x
    BY DEF TypeOK
  <1>5. \A r \in rows' : r \in rows \/ r = new
    BY <1>1
  <1>6. \A r, x \in rows' : r.id <= lastId' /\ (r.id = x.id => r = x)
    BY <1>1, <1>2, <1>3, <1>4, <1>5
  <1>7. QED
    BY <1>1, <1>2, <1>3, <1>5, <1>6 DEF new

LEMMA Inits == Init => IInv
  <1> SUFFICES ASSUME Init PROVE IInv
    OBVIOUS
  <1>1. Cardinality(Seeds) \in Nat
    BY SeedsAssumption, FS_CardinalityType
  <1>2. TypeOK
    BY <1>1, SeedsAssumption, BoundsAssumption DEF Init, TypeOK
  <1>3. QED
    BY <1>2 DEF Init, IInv, SeenIsCurrent, Locked, SeenIsStreamed, StoredIsSeen, ChartNotAhead, Storing

-----------------------------------------------------------------------------
(* The steps of a daemon.                                                   *)

\* Daemons other than d, and rows that only grow, keep the rest of IInv.
LEMMA ReadBarStep ==
  ASSUME IInv, NEW d \in Daemons, ReadBar(d)
  PROVE  IInv'
  <1> USE DEF IInv
  <1>1. PICK t \in Trades, minute \in {now} \union ({now - 1} \cap {market} \cap Nat) :
          /\ trade' = [trade EXCEPT ![d] = [minute |-> minute, price |-> t.price, size |-> t.size]]
          /\ \/ seen' = [seen EXCEPT ![d] = None]
             \/ \E r \in BarsOf(minute) : Unlocked(r.id) /\ seen' = [seen EXCEPT ![d] = r]
    BY DEF ReadBar
  <1>2. [minute |-> minute, price |-> t.price, size |-> t.size] \in Trade
    <2>1. minute \in 0..MaxMinute
      BY <1>1, BoundsAssumption DEF TypeOK
    <2>2. QED
      BY <2>1, TradesAssumption DEF Trade
  <1>3. /\ pc[d] = "idle" /\ pc' = [pc EXCEPT ![d] = "storing"]
        /\ UNCHANGED <<now, market, ticks, rows, lastId, readerVars>>
    BY DEF ReadBar
  <1>4. \/ seen' = [seen EXCEPT ![d] = None]
        \/ \E r \in rows : /\ r \in Bar /\ r.source = "alpaca_stream" /\ Unlocked(r.id)
                           /\ seen' = [seen EXCEPT ![d] = r]
    BY <1>1 DEF BarsOf, TypeOK
  <1>5. seen' \in [Daemons -> Bar \union {None}]
    BY <1>4 DEF TypeOK
  <1>6. trade' \in [Daemons -> Trade \union {None}] /\ trade'[d] # None
    BY <1>1, <1>2, NoneAssumption DEF TypeOK
  <1>7. \A e \in Daemons : trade'[e] = None <=> pc'[e] = "idle"
    BY <1>1, <1>3, <1>6 DEF TypeOK
  <1>8. TypeOK'
    BY <1>3, <1>5, <1>6, <1>7 DEF TypeOK, readerVars
  <1>9. SeenIsCurrent' /\ SeenIsStreamed'
    BY <1>3, <1>4, <1>5 DEF SeenIsCurrent, SeenIsStreamed, TypeOK
  <1>10. Locked'
    <2>1. CASE seen' = [seen EXCEPT ![d] = None]
      BY <1>3, <2>1 DEF Locked, Storing, TypeOK
    <2>2. CASE \E r \in rows : Unlocked(r.id) /\ seen' = [seen EXCEPT ![d] = r]
      BY <1>3, <2>2 DEF Locked, Storing, Unlocked, TypeOK
    <2>3. QED
      BY <1>4, <2>1, <2>2
  <1>11. StoredIsSeen' /\ ChartNotAhead'
    <2>1. \A e \in Daemons : pc'[e] = "stored" => pc[e] = "stored" /\ seen'[e] = seen[e]
      BY <1>3, <1>4 DEF TypeOK
    <2>2. QED
      BY <1>3, <2>1 DEF StoredIsSeen, ChartNotAhead
  <1>12. QED
    BY <1>8, <1>9, <1>10, <1>11

\* The first trade of a minute, as far as the daemon can see: a bar of its own.
LEMMA FirstTradeStep ==
  ASSUME IInv, NEW d \in Daemons, StoreTrade(d), seen[d] = None
  PROVE  IInv'
  <1> USE DEF IInv
  <1> DEFINE new == Row(lastId + 1, trade[d].minute, "alpaca_stream", FirstBar(trade[d]))
  <1>1. /\ pc[d] = "storing" /\ pc' = [pc EXCEPT ![d] = "stored"]
        /\ ticks' = Append(ticks, trade[d]) /\ seen' = [seen EXCEPT ![d] = new]
        /\ Insert(trade[d].minute, "alpaca_stream", FirstBar(trade[d]))
        /\ UNCHANGED <<now, market, trade, readerVars>>
    BY DEF StoreTrade
  <1>2. trade[d] \in Trade
    BY <1>1 DEF TypeOK
  <1>3. trade[d].minute \in 0..MaxMinute /\ FirstBar(trade[d]) \in Prices
    BY <1>2, FirstBarType DEF Trade
  <1>4. /\ rows \subseteq rows' /\ rows' \subseteq Bar /\ lastId' \in Nat
        /\ \A r, x \in rows' : r.id <= lastId' /\ (r.id = x.id => r = x)
        /\ new \in rows' /\ new \in Bar
    BY <1>1, <1>3, InsertType DEF LIVE_SOURCES
  <1>5. new.source = "alpaca_stream"
    BY DEF Row
  <1> HIDE DEF new
  <1>6. ticks' \in Seq(Trade)
    BY <1>1, <1>2 DEF TypeOK
  <1>7. seen' \in [Daemons -> Bar \union {None}] /\ pc' \in [Daemons -> {"idle", "storing", "stored"}]
    BY <1>1, <1>4 DEF TypeOK
  <1>8. TypeOK'
    BY <1>1, <1>4, <1>6, <1>7 DEF TypeOK, readerVars
  <1>9. \A e \in Daemons : e # d => pc'[e] = pc[e] /\ seen'[e] = seen[e]
    BY <1>1, <1>7 DEF TypeOK
  <1>10. pc'[d] = "stored" /\ seen'[d] = new
    BY <1>1 DEF TypeOK
  <1>11. SeenIsCurrent' /\ Locked'
    BY <1>4, <1>9, <1>10 DEF SeenIsCurrent, Locked, Storing
  <1>12. SeenIsStreamed' /\ StoredIsSeen'
    BY <1>4, <1>5, <1>9, <1>10, NoneAssumption DEF SeenIsStreamed, StoredIsSeen
  <1>13. ChartNotAhead'
    <2>1. new.volume <= new.volume /\ new.high <= new.high /\ new.low <= new.low
      BY <1>4 DEF Bar
    <2>2. QED
      BY <1>4, <1>9, <1>10, <2>1 DEF ChartNotAhead
  <1>14. QED
    BY <1>8, <1>11, <1>12, <1>13

\* A later trade of the minute: the bar the daemon has locked goes up by it.
LEMMA LaterTradeStep ==
  ASSUME IInv, NEW d \in Daemons, StoreTrade(d), seen[d] # None
  PROVE  IInv'
  <1> USE DEF IInv
  <1> DEFINE new == Folded(seen[d], seen[d], trade[d])
  <1>1. /\ pc[d] = "storing" /\ pc' = [pc EXCEPT ![d] = "stored"]
        /\ ticks' = Append(ticks, trade[d]) /\ seen' = [seen EXCEPT ![d] = new]
        /\ rows' = {IF r.id = seen[d].id THEN Folded(r, seen[d], trade[d]) ELSE r : r \in rows}
        /\ UNCHANGED <<now, market, lastId, trade, readerVars>>
    BY DEF StoreTrade
  <1>2. trade[d] \in Trade /\ seen[d] \in Bar /\ seen[d] \in rows
    BY <1>1 DEF TypeOK, SeenIsCurrent
  <1>3. /\ new \in Bar /\ new.id = seen[d].id /\ new.ts = seen[d].ts /\ new.source = seen[d].source
        /\ seen[d].volume <= new.volume /\ seen[d].high <= new.high /\ new.low <= seen[d].low
    BY <1>2, FoldedType
  <1> HIDE DEF new
  <1>4. \A r \in rows : r.id = seen[d].id => r = seen[d]
    BY <1>2 DEF TypeOK
  <1>5. rows' = {IF r.id = seen[d].id THEN new ELSE r : r \in rows}
    BY <1>1, <1>4 DEF new
  <1>6. \A r \in rows' : r = new \/ (r \in rows /\ r.id # seen[d].id)
    BY <1>5
  <1>7. new \in rows' /\ \A r \in rows : r.id # seen[d].id => r \in rows'
    BY <1>2, <1>5
  <1>8. ticks' \in Seq(Trade)
    BY <1>1, <1>2 DEF TypeOK
  <1>9. seen' \in [Daemons -> Bar \union {None}] /\ pc' \in [Daemons -> {"idle", "storing", "stored"}]
    BY <1>1, <1>3 DEF TypeOK
  <1>10. rows' \subseteq Bar /\ \A r, x \in rows' : r.id <= lastId' /\ (r.id = x.id => r = x)
    <2>1. seen[d].id <= lastId
      BY <1>2 DEF TypeOK
    <2>2. /\ lastId' = lastId /\ rows \subseteq Bar /\ new \in Bar /\ new.id = seen[d].id
          /\ \A r, x \in rows : r.id <= lastId /\ (r.id = x.id => r = x)
      BY <1>1, <1>3 DEF TypeOK
    <2>3. rows' \subseteq Bar /\ \A r \in rows' : r.id <= lastId'
      BY <1>6, <2>1, <2>2
    <2>4. \A r, x \in rows' : r.id = x.id => r = x
      BY <1>6, <2>2
    <2>5. QED
      BY <2>3, <2>4
  <1>11. TypeOK'
    BY <1>1, <1>8, <1>9, <1>10 DEF TypeOK, readerVars
  <1>12. \A e \in Daemons : e # d => pc'[e] = pc[e] /\ seen'[e] = seen[e]
    BY <1>1 DEF TypeOK
  <1>13. pc'[d] = "stored" /\ seen'[d] = new
    BY <1>1 DEF TypeOK
  <1>14. SeenIsCurrent'
    <2>1. SUFFICES ASSUME NEW e \in Daemons, pc'[e] = "storing", seen'[e] # None
                   PROVE  seen'[e] \in rows'
      BY DEF SeenIsCurrent
    <2>2. e # d /\ pc[e] = "storing" /\ seen[e] = seen'[e]
      BY <1>12, <1>13, <2>1
    <2>3. seen[e] \in rows /\ seen[e].id # seen[d].id
      BY <1>1, <2>1, <2>2 DEF SeenIsCurrent, Locked, Storing
    <2>4. QED
      BY <1>7, <2>2, <2>3
  <1>15. Locked' /\ SeenIsStreamed' /\ StoredIsSeen'
    BY <1>3, <1>12, <1>13, NoneAssumption DEF Locked, Storing, SeenIsStreamed, StoredIsSeen
  <1>16. ChartNotAhead'
    <2>1. SUFFICES ASSUME NEW e \in Daemons, pc'[e] = "stored"
                   PROVE  \E r \in rows' : /\ r.id = seen'[e].id /\ r.ts = seen'[e].ts /\ r.source = seen'[e].source
                                           /\ seen'[e].volume <= r.volume
                                           /\ seen'[e].high <= r.high /\ r.low <= seen'[e].low
      BY DEF ChartNotAhead
    <2>2. CASE e = d
      BY <1>3, <1>7, <1>13, <2>2 DEF Bar
    <2>3. CASE e # d
      <3>1. seen'[e] = seen[e] /\ pc[e] = "stored" /\ seen[e] \in Bar
        BY <1>12, <2>1, <2>3 DEF TypeOK, StoredIsSeen
      <3>2. PICK r \in rows : /\ r.id = seen[e].id /\ r.ts = seen[e].ts /\ r.source = seen[e].source
                              /\ seen[e].volume <= r.volume
                              /\ seen[e].high <= r.high /\ r.low <= seen[e].low
        BY <3>1 DEF ChartNotAhead
      <3>3. CASE r.id = seen[d].id
        <4>1. r = seen[d]
          BY <1>4, <3>3
        <4>2. QED
          BY <1>2, <1>3, <1>7, <3>1, <3>2, <4>1 DEF Bar
      <3>4. CASE r.id # seen[d].id
        BY <1>7, <3>1, <3>2, <3>4
      <3>5. QED
        BY <3>3, <3>4
    <2>4. QED
      BY <2>2, <2>3
  <1>17. QED
    BY <1>11, <1>14, <1>15, <1>16

\* A daemon that is done with its trade, or gives it up.
LEMMA TradeEndsStep ==
  ASSUME IInv, NEW d \in Daemons, PushBar(d) \/ TradeFails(d)
  PROVE  IInv'
  <1> USE DEF IInv
  <1>1. /\ pc' = [pc EXCEPT ![d] = "idle"] /\ trade' = [trade EXCEPT ![d] = None]
        /\ seen' = [seen EXCEPT ![d] = None]
        /\ UNCHANGED <<now, market, ticks, rows, lastId, readerVars>>
    BY DEF PushBar, TradeFails, RolledBack
  <1>2. \A e \in Daemons : e # d => /\ pc'[e] = pc[e] /\ seen'[e] = seen[e]
                                    /\ trade'[e] = trade[e]
    BY <1>1 DEF TypeOK
  <1>3. pc'[d] = "idle" /\ seen'[d] = None /\ trade'[d] = None
    BY <1>1 DEF TypeOK
  <1>4. TypeOK'
    <2>1. /\ pc' \in [Daemons -> {"idle", "storing", "stored"}]
          /\ trade' \in [Daemons -> Trade \union {None}]
          /\ seen' \in [Daemons -> Bar \union {None}]
      BY <1>1 DEF TypeOK
    <2>2. \A e \in Daemons : trade'[e] = None <=> pc'[e] = "idle"
      BY <1>2, <1>3 DEF TypeOK
    <2>3. QED
      BY <1>1, <2>1, <2>2 DEF TypeOK, readerVars
  <1>5. SeenIsCurrent' /\ Locked' /\ SeenIsStreamed' /\ StoredIsSeen' /\ ChartNotAhead'
    BY <1>1, <1>2, <1>3
    DEF SeenIsCurrent, Locked, Storing, SeenIsStreamed, StoredIsSeen, ChartNotAhead
  <1>6. QED
    BY <1>4, <1>5

-----------------------------------------------------------------------------
(* The steps of readers, commands and the clock.                            *)

\* Rows may be added by others, and seeded ones deleted.
LEMMA OthersKeep ==
  ASSUME IInv, TypeOK', UNCHANGED daemonVars, \A r \in rows : r \in rows' \/ r.source = "seed"
  PROVE  IInv'
  <1> USE DEF IInv, daemonVars
  <1>1. SeenIsCurrent'
    BY DEF SeenIsCurrent, SeenIsStreamed
  <1>2. Locked' /\ SeenIsStreamed' /\ StoredIsSeen'
    BY DEF Locked, Storing, SeenIsStreamed, StoredIsSeen
  <1>3. ChartNotAhead'
    BY DEF ChartNotAhead, SeenIsStreamed, StoredIsSeen
  <1>4. QED
    BY <1>1, <1>2, <1>3

LEMMA GoIdleType ==
  ASSUME TypeOK, NEW r \in Readers, GoIdle(r)
  PROVE  /\ stage' \in [Readers -> {"idle", "found", "backfill", "creating"}]
         /\ found' \in [Readers -> Quote \union {None}]
         /\ \A x \in Readers : stage'[x] = "found" => found'[x] # None
         /\ todo' \in [Readers -> Seq(0..MaxMinute)]
         /\ \A x \in Readers : stage'[x] = "creating" => todo'[x] # <<>>
  BY DEF TypeOK, GoIdle

LEMMA AnsweredType ==
  ASSUME TypeOK, NEW r \in Readers, stage[r] = "found", NEW sent \in Bar \union {None},
         NEW failed \in BOOLEAN, Answered(r, sent, failed)
  PROVE  answer' \in [Readers -> [row : Bar \union {None}, failed : BOOLEAN, asked : 0..MaxMinute,
                                  newest : -1..MaxMinute, market : -1..MaxMinute] \union {None}]
  <1>1. found[r].asked \in 0..MaxMinute /\ found[r].newest \in -1..MaxMinute
    BY DEF TypeOK, Quote
  <1>2. [row |-> sent, failed |-> failed, asked |-> found[r].asked, newest |-> found[r].newest,
         market |-> market] \in [row : Bar \union {None}, failed : BOOLEAN, asked : 0..MaxMinute,
                                 newest : -1..MaxMinute, market : -1..MaxMinute]
    BY <1>1 DEF TypeOK
  <1>3. QED
    BY <1>2 DEF Answered, TypeOK

\* The bar the exchange has of a minute.
LEMMA ExchangeType ==
  ASSUME NEW minute \in 0..MaxMinute
  PROVE  Exchange[minute] \in Prices
  BY ExchangeAssumption DEF Prices

LEMMA QuoteStep ==
  ASSUME IInv, NEW r \in Readers, AskQuote(r) \/ ServeFound(r) \/ FetchLatest(r)
  PROVE  IInv'
  <1> USE DEF IInv
  <1>1. CASE AskQuote(r)
    <2>1. PICK snap \in {x \in LiveRows : IsNewest(x)} \union (IF LiveRows = {} THEN {None} ELSE {}) :
            found' = [found EXCEPT ![r] = [row |-> snap, asked |-> now,
                        newest |-> IF snap = None THEN -1 ELSE snap.ts]]
      BY <1>1 DEF AskQuote
    <2>2. snap \in Bar \union {None}
      BY DEF LiveRows, TypeOK
    <2>3. (IF snap = None THEN -1 ELSE snap.ts) \in -1..MaxMinute
      <3>1. CASE snap = None
        BY <3>1, BoundsAssumption
      <3>2. CASE snap # None
        BY <2>2, <3>2, BoundsAssumption DEF Bar
      <3>3. QED
        BY <3>1, <3>2
    <2> DEFINE new == [row |-> snap, asked |-> now, newest |-> IF snap = None THEN -1 ELSE snap.ts]
    <2>4. new \in Quote
      BY <2>2, <2>3 DEF TypeOK, Quote
    <2> HIDE DEF new
    <2>6. /\ stage' = [stage EXCEPT ![r] = "found"] /\ found' = [found EXCEPT ![r] = new]
          /\ UNCHANGED <<now, market, ticks, rows, lastId, daemonVars, todo, answer>>
      BY <1>1, <2>1 DEF AskQuote, new
    <2>7. TypeOK'
      BY <2>4, <2>6, NoneAssumption DEF TypeOK, daemonVars
    <2>8. QED
      BY <2>6, <2>7, OthersKeep
  <1>2. CASE ServeFound(r)
    <2>1. found[r].row \in Bar \union {None}
      BY <1>2 DEF ServeFound, TypeOK, Quote
    <2>2. TypeOK'
      BY <1>2, <2>1, AnsweredType, GoIdleType DEF ServeFound, TypeOK, daemonVars
    <2>3. QED
      BY <1>2, <2>2, OthersKeep DEF ServeFound
  <1>3. CASE FetchLatest(r)
    <2>1. market \in 0..MaxMinute
      BY <1>3 DEF FetchLatest, TypeOK
    <2>2. Exchange[market] \in Prices
      BY <2>1, ExchangeType
    <2>3. Insert(market, "alpaca_rest", Exchange[market])
      BY <1>3 DEF FetchLatest
    <2>4. /\ rows \subseteq rows' /\ rows' \subseteq Bar /\ lastId' \in Nat
          /\ \A y, x \in rows' : y.id <= lastId' /\ (y.id = x.id => y = x)
          /\ Row(lastId + 1, market, "alpaca_rest", Exchange[market]) \in Bar
      BY <2>1, <2>2, <2>3, InsertType DEF LIVE_SOURCES
    <2>5. answer' \in [Readers -> [row : Bar \union {None}, failed : BOOLEAN, asked : 0..MaxMinute,
                              newest : -1..MaxMinute, market : -1..MaxMinute] \union {None}]
      BY <1>3, <2>4, AnsweredType DEF FetchLatest
    <2>6. TypeOK'
      BY <1>3, <2>4, <2>5, GoIdleType DEF FetchLatest, TypeOK, daemonVars
    <2>7. QED
      BY <1>3, <2>4, <2>6, OthersKeep DEF FetchLatest
  <1>4. QED
    BY <1>1, <1>2, <1>3

LEMMA IsSequence ==
  ASSUME NEW S, NEW n \in Nat, NEW f \in [1..n -> S]
  PROVE  f \in Seq(S)
  OBVIOUS

LEMMA HeadAndTail ==
  ASSUME NEW S, NEW s \in Seq(S), s # <<>>
  PROVE  Head(s) \in S /\ Tail(s) \in Seq(S)
  OBVIOUS

LEMMA HistoryStep ==
  ASSUME IInv, NEW r \in Readers, AskHistory(r) \/ CheckBar(r) \/ CreateBar(r) \/ ServeHistory(r)
  PROVE  IInv'
  <1> USE DEF IInv
  <1>1. CASE AskHistory(r)
    <2>1. [i \in 1..market + 1 |-> i - 1] \in Seq(0..MaxMinute)
      <3>1. market + 1 \in Nat /\ \A i \in 1..market + 1 : i - 1 \in 0..MaxMinute
        BY <1>1, BoundsAssumption DEF AskHistory, TypeOK
      <3>2. [i \in 1..market + 1 |-> i - 1] \in [1..market + 1 -> 0..MaxMinute]
        BY <3>1
      <3>3. QED
        BY <3>1, <3>2, IsSequence
    <2>2. TypeOK'
      BY <1>1, <2>1 DEF AskHistory, TypeOK, daemonVars
    <2>3. QED
      BY <1>1, <2>2, OthersKeep DEF AskHistory
  <1>2. CASE CheckBar(r)
    <2>1. todo[r] \in Seq(0..MaxMinute) /\ todo[r] # <<>> /\ Tail(todo[r]) \in Seq(0..MaxMinute)
      BY <1>2 DEF CheckBar, TypeOK
    <2>2. TypeOK'
      BY <1>2, <2>1 DEF CheckBar, TypeOK, daemonVars
    <2>3. QED
      BY <1>2, <2>2, OthersKeep DEF CheckBar
  <1>3. CASE CreateBar(r)
    <2>1. todo[r] \in Seq(0..MaxMinute) /\ todo[r] # <<>>
      BY <1>3 DEF CreateBar, TypeOK
    <2>2. Head(todo[r]) \in 0..MaxMinute /\ Tail(todo[r]) \in Seq(0..MaxMinute)
      BY <2>1, HeadAndTail
    <2>3. Exchange[Head(todo[r])] \in Prices
      BY <2>2, ExchangeType
    <2>4. Insert(Head(todo[r]), "alpaca_rest", Exchange[Head(todo[r])])
      BY <1>3 DEF CreateBar
    <2>5. /\ rows \subseteq rows' /\ rows' \subseteq Bar /\ lastId' \in Nat
          /\ \A y, x \in rows' : y.id <= lastId' /\ (y.id = x.id => y = x)
      BY <2>2, <2>3, <2>4, InsertType DEF LIVE_SOURCES
    <2>6. TypeOK'
      BY <1>3, <2>2, <2>5 DEF CreateBar, TypeOK, daemonVars
    <2>7. QED
      BY <1>3, <2>5, <2>6, OthersKeep DEF CreateBar
  <1>4. CASE ServeHistory(r)
    <2>1. TypeOK'
      BY <1>4, GoIdleType DEF ServeHistory, TypeOK, daemonVars
    <2>2. QED
      BY <1>4, <2>1, OthersKeep DEF ServeHistory
  <1>5. QED
    BY <1>1, <1>2, <1>3, <1>4

LEMMA CommandStep ==
  ASSUME IInv, FetchLatestPrices \/ PurgeSeedPrices \/ Minute
  PROVE  IInv'
  <1> USE DEF IInv
  <1>1. CASE FetchLatestPrices
    <2>1. market \in 0..MaxMinute
      BY <1>1 DEF FetchLatestPrices, TypeOK
    <2>2. Exchange[market] \in Prices /\ Insert(market, "alpaca_rest", Exchange[market])
      BY <1>1, <2>1, ExchangeType DEF FetchLatestPrices
    <2>3. /\ rows \subseteq rows' /\ rows' \subseteq Bar /\ lastId' \in Nat
          /\ \A y, x \in rows' : y.id <= lastId' /\ (y.id = x.id => y = x)
      BY <2>1, <2>2, InsertType DEF LIVE_SOURCES
    <2>4. TypeOK'
      BY <1>1, <2>3 DEF FetchLatestPrices, TypeOK, daemonVars, readerVars
    <2>5. QED
      BY <1>1, <2>3, <2>4, OthersKeep DEF FetchLatestPrices
  <1>2. CASE PurgeSeedPrices
    <2>1. TypeOK'
      BY <1>2 DEF PurgeSeedPrices, TypeOK, daemonVars, readerVars
    <2>2. QED
      BY <1>2, <2>1, OthersKeep DEF PurgeSeedPrices
  <1>3. CASE Minute
    <2>1. now' \in 0..MaxMinute /\ market' \in -1..MaxMinute
      BY <1>3, BoundsAssumption DEF Minute, TypeOK
    <2>2. TypeOK'
      BY <1>3, <2>1 DEF Minute, TypeOK, daemonVars, readerVars
    <2>3. QED
      BY <1>3, <2>2, OthersKeep DEF Minute
  <1>4. QED
    BY <1>1, <1>2, <1>3

-----------------------------------------------------------------------------

LEMMA Inductive == IInv /\ [Next]_vars => IInv'
  <1> SUFFICES ASSUME IInv, [Next]_vars PROVE IInv'
    OBVIOUS
  <1>1. ASSUME NEW d \in Daemons, Stream(d) PROVE IInv'
    BY <1>1, ReadBarStep, FirstTradeStep, LaterTradeStep, TradeEndsStep DEF Stream
  <1>2. ASSUME NEW r \in Readers, Read(r) PROVE IInv'
    BY <1>2, QuoteStep, HistoryStep DEF Read
  <1>3. ASSUME FetchLatestPrices \/ PurgeSeedPrices \/ Minute PROVE IInv'
    BY <1>3, CommandStep
  <1>4. ASSUME UNCHANGED vars PROVE IInv'
    BY <1>4 DEF vars, daemonVars, readerVars, IInv, TypeOK, SeenIsCurrent, Locked, Storing,
                SeenIsStreamed, StoredIsSeen, ChartNotAhead
  <1>5. QED
    BY <1>1, <1>2, <1>3, <1>4 DEF Next

LEMMA Invariant == Spec => []IInv
  <1>1. Init => IInv
    BY Inits
  <1>2. IInv /\ [Next]_vars => IInv'
    BY Inductive
  <1>3. QED
    BY <1>1, <1>2, PTL DEF Spec

\* Every variable of the price store keeps its type, and every row an identity
\* of its own, whatever daemons, quotes, charts and commands insert and delete.
THEOREM TypeCorrect == Spec => []TypeOK
  <1>1. IInv => TypeOK
    BY DEF IInv
  <1>2. QED
    BY <1>1, Invariant, PTL

\* select_for_update() in _store_trade_and_bar: however many daemons, no trade's
\* share of a bar is overwritten by a daemon that read the bar before it.
THEOREM NoLostUpdate == Spec => []SeenIsCurrent
  <1>1. IInv => SeenIsCurrent
    BY DEF IInv
  <1>2. QED
    BY <1>1, Invariant, PTL

\* handle_trade pushes after the transaction has ended: what charts are shown is
\* stored, and stays so while other daemons go on.
THEOREM PushedIsStored == Spec => []ChartNotAhead
  <1>1. IInv => ChartNotAhead
    BY DEF IInv
  <1>2. QED
    BY <1>1, Invariant, PTL

-----------------------------------------------------------------------------
(* The newest row.  A quote that is fetched because the row it found is     *)
(* stale must not answer with an older one: every live row is of a minute   *)
(* the exchange has reached, or of the one that is running.                 *)

Reached(minute) == minute = now \/ minute <= market

\* The times of trades, bars and bars to be stored, against the exchange's.
TimesReached ==
  /\ market < now
  /\ \A i \in DOMAIN ticks : Reached(ticks[i].minute)
  /\ \A d \in Daemons : trade[d] # None => Reached(trade[d].minute)
  /\ \A b \in rows : b.source = "alpaca_stream" => \E i \in DOMAIN ticks : ticks[i].minute = b.ts
  /\ \A b \in rows : b.source = "alpaca_rest" => b.ts <= market
  /\ \A r \in Readers : \A i \in DOMAIN todo[r] : todo[r][i] <= market

\* A daemon's bar is of its trade's minute.
SeenOfMinute == \A d \in Daemons : Storing(d) => seen[d].ts = trade[d].minute

\* The row a quote request holds was the newest live one when it asked.
FoundIsNewest ==
  \A r \in Readers : stage[r] = "found" =>
    /\ found[r].newest = found[r].asked \/ found[r].newest <= market
    /\ IF found[r].row = None THEN found[r].newest = -1
       ELSE found[r].row.source \in LIVE_SOURCES /\ found[r].newest = found[r].row.ts

QuoteInv == TimesReached /\ SeenOfMinute /\ FoundIsNewest /\ QuoteIsNewest

\* An insertion keeps the rows' times and sources.
LEMMA InsertOnly ==
  ASSUME NEW ts, NEW source, NEW bar, Insert(ts, source, bar)
  PROVE  \A b \in rows' : b \in rows \/ (b.ts = ts /\ b.source = source)
  BY DEF Insert, Row

\* What is reached stays reached while the clock runs: a minute that was traded
\* in gets its bar.
LEMMA MinuteReaches ==
  ASSUME TypeOK, TimesReached, Minute
  PROVE  /\ market <= market' /\ market' < now'
         /\ \A i \in DOMAIN ticks : ticks[i].minute <= market'
         /\ \A d \in Daemons : trade[d] # None => trade[d].minute <= market'
  <1>1. /\ now \in Int /\ market \in Int /\ market < now /\ now' = now + 1
        /\ market' \in {market, now} /\ (TradedIn(now) => market' = now)
    BY DEF Minute, TypeOK, TimesReached
  <1>2. ASSUME NEW i \in DOMAIN ticks PROVE ticks[i].minute <= market'
    <2>1. ticks[i].minute \in Int
      <3>1. ticks[i] \in Trade
        BY DEF TypeOK
      <3>2. QED
        BY <3>1 DEF Trade
    <2>2. CASE ticks[i].minute = now
      <3>1. TradedIn(now)
        BY <2>2 DEF TradedIn
      <3>2. QED
        BY <1>1, <2>2, <3>1
    <2>3. CASE ticks[i].minute <= market
      BY <1>1, <2>1, <2>3
    <2>4. QED
      BY <2>2, <2>3 DEF TimesReached, Reached
  <1>3. ASSUME NEW d \in Daemons, trade[d] # None PROVE trade[d].minute <= market'
    <2>1. trade[d].minute \in Int
      BY <1>3 DEF TypeOK, Trade
    <2>2. CASE trade[d].minute = now
      <3>1. TradedIn(now)
        BY <1>3, <2>2 DEF TradedIn
      <3>2. QED
        BY <1>1, <2>2, <3>1
    <2>3. CASE trade[d].minute <= market
      BY <1>1, <2>1, <2>3
    <2>4. QED
      BY <1>3, <2>2, <2>3 DEF TimesReached, Reached
  <1>4. QED
    BY <1>1, <1>2, <1>3

\* Trades and bars keep their times through the steps of a daemon.
LEMMA StreamTimes ==
  ASSUME IInv, QuoteInv, NEW d \in Daemons, Stream(d)
  PROVE  TimesReached' /\ SeenOfMinute'
  <1>1. /\ TypeOK /\ SeenIsCurrent /\ TimesReached /\ SeenOfMinute
        /\ now \in Int /\ market \in Int
    BY DEF IInv, QuoteInv, TypeOK
  <1>2. CASE ReadBar(d)
    <2>1. PICK t \in Trades, minute \in {now} \union ({now - 1} \cap {market} \cap Nat) :
            /\ trade' = [trade EXCEPT ![d] = [minute |-> minute, price |-> t.price, size |-> t.size]]
            /\ \/ seen' = [seen EXCEPT ![d] = None]
               \/ \E r \in BarsOf(minute) : seen' = [seen EXCEPT ![d] = r]
      BY <1>2 DEF ReadBar
    <2>2. /\ pc' = [pc EXCEPT ![d] = "storing"]
          /\ UNCHANGED <<now, market, ticks, rows, todo>>
      BY <1>2 DEF ReadBar, readerVars
    <2>3. trade'[d].minute = minute /\ Reached(minute)
      BY <1>1, <2>1 DEF TypeOK, Reached
    <2>4. \A e \in Daemons : e # d => trade'[e] = trade[e] /\ seen'[e] = seen[e] /\ pc'[e] = pc[e]
      BY <1>1, <2>1, <2>2 DEF TypeOK
    <2>5. seen'[d] # None => seen'[d].ts = minute
      BY <1>1, <2>1 DEF BarsOf, TypeOK
    <2>6. TimesReached'
      BY <1>1, <2>2, <2>3, <2>4 DEF TimesReached, Reached
    <2>7. SeenOfMinute'
      BY <1>1, <2>3, <2>4, <2>5 DEF SeenOfMinute, Storing
    <2>8. QED
      BY <2>6, <2>7
  <1>3. CASE StoreTrade(d)
    <2>1. /\ pc[d] = "storing" /\ ticks' = Append(ticks, trade[d])
          /\ pc' = [pc EXCEPT ![d] = "stored"] /\ UNCHANGED <<now, market, trade, todo>>
      BY <1>3 DEF StoreTrade, readerVars
    <2>2. trade[d] \in Trade /\ trade[d] # None /\ ticks \in Seq(Trade)
      BY <1>1, <2>1, NoneAssumption DEF TypeOK
    <2>3. /\ DOMAIN ticks \subseteq DOMAIN ticks' /\ \A i \in DOMAIN ticks : ticks'[i] = ticks[i]
          /\ \A i \in DOMAIN ticks' : ticks'[i] = trade[d] \/ (i \in DOMAIN ticks /\ ticks'[i] = ticks[i])
          /\ \E i \in DOMAIN ticks' : ticks'[i] = trade[d]
      <3>1. /\ Len(ticks) + 1 \in DOMAIN ticks' /\ ticks'[Len(ticks) + 1] = trade[d]
            /\ DOMAIN ticks' = 1..(Len(ticks) + 1) /\ DOMAIN ticks = 1..Len(ticks) /\ Len(ticks) \in Nat
            /\ \A i \in 1..Len(ticks) : ticks'[i] = ticks[i]
        BY <2>1, <2>2
      <3>2. QED
        BY <3>1
    <2>4. \A b \in rows' : \/ b.ts = trade[d].minute /\ b.source = "alpaca_stream"
                           \/ \E x \in rows : b.ts = x.ts /\ b.source = x.source
      <3>1. CASE seen[d] = None
        <4>1. Insert(trade[d].minute, "alpaca_stream", FirstBar(trade[d]))
          BY <1>3, <3>1 DEF StoreTrade
        <4>2. QED
          BY <4>1, InsertOnly
      <3>2. CASE seen[d] # None
        <4>1. rows' = {IF r.id = seen[d].id THEN Folded(r, seen[d], trade[d]) ELSE r : r \in rows}
          BY <1>3, <3>2 DEF StoreTrade
        <4>2. \A r \in rows : /\ Folded(r, seen[d], trade[d]).ts = r.ts
                              /\ Folded(r, seen[d], trade[d]).source = r.source
          BY DEF Folded
        <4>3. QED
          BY <4>1, <4>2
      <3>3. QED
        BY <3>1, <3>2
    <2>5. \A e \in Daemons : Storing(e)' => e # d /\ Storing(e) /\ seen'[e] = seen[e]
      BY <1>1, <1>3, <2>1 DEF Storing, TypeOK, StoreTrade
    <2>6. SeenOfMinute'
      BY <1>1, <2>1, <2>5 DEF SeenOfMinute
    <2>7. Reached(trade[d].minute)
      BY <1>1, <2>2 DEF TimesReached
    <2>8. TimesReached'
      BY SMTT(30), <1>1, <2>1, <2>3, <2>4, <2>7 DEF TimesReached, Reached
    <2>9. QED
      BY <2>6, <2>8
  <1>4. CASE PushBar(d) \/ TradeFails(d)
    <2>1. /\ pc' = [pc EXCEPT ![d] = "idle"] /\ trade' = [trade EXCEPT ![d] = None]
          /\ seen' = [seen EXCEPT ![d] = None] /\ UNCHANGED <<now, market, ticks, rows, todo>>
      BY <1>4 DEF PushBar, TradeFails, RolledBack, readerVars
    <2>2. \A e \in Daemons : /\ trade'[e] # None => trade'[e] = trade[e]
                             /\ Storing(e)' => Storing(e) /\ seen'[e] = seen[e] /\ trade'[e] = trade[e]
      BY <1>1, <2>1 DEF Storing, TypeOK
    <2>3. QED
      BY <1>1, <2>1, <2>2 DEF TimesReached, SeenOfMinute, Reached
  <1>5. QED
    BY <1>2, <1>3, <1>4 DEF Stream

\* A step of others that inserts or deletes rows, and leaves daemons and clock alone.
LEMMA OtherTimes ==
  ASSUME IInv, QuoteInv, UNCHANGED <<now, market, ticks, daemonVars>>,
         \A b \in rows' : b \in rows \/ (b.source = "alpaca_rest" /\ b.ts <= market),
         \A r \in Readers : \A i \in DOMAIN todo'[r] : todo'[r][i] <= market
  PROVE  TimesReached' /\ SeenOfMinute'
  <1> USE DEF daemonVars
  <1>1. SeenOfMinute'
    BY DEF QuoteInv, SeenOfMinute, Storing
  <1>2. TimesReached
    BY DEF QuoteInv
  <1>3. /\ market' < now'
        /\ (\A i \in DOMAIN ticks : Reached(ticks[i].minute))'
        /\ (\A d \in Daemons : trade[d] # None => Reached(trade[d].minute))'
    BY <1>2 DEF TimesReached, Reached
  <1>4. \A b \in rows' : b.source = "alpaca_rest" => b.ts <= market'
    BY <1>2 DEF TimesReached
  <1>5. \A b \in rows' : b.source = "alpaca_stream" => \E i \in DOMAIN ticks' : ticks'[i].minute = b.ts
    BY <1>2 DEF TimesReached
  <1>6. \A r \in Readers : \A i \in DOMAIN todo'[r] : todo'[r][i] <= market'
    OBVIOUS
  <1>7. QED
    BY <1>1, <1>3, <1>4, <1>5, <1>6 DEF TimesReached

\* An element of a sequence is of its range.
LEMMA ElementOf == ASSUME NEW S, NEW s \in Seq(S), NEW i \in DOMAIN s PROVE s[i] \in S
  OBVIOUS

\* When the minute ends, what it traded is of a minute the exchange has a bar of.
LEMMA MinuteTimes ==
  ASSUME IInv, QuoteInv, Minute
  PROVE  TimesReached' /\ SeenOfMinute'
  <1>1. TypeOK /\ TimesReached /\ SeenOfMinute /\ now \in Int /\ market \in Int
    BY DEF IInv, QuoteInv, TypeOK
  <1>2. UNCHANGED <<ticks, rows, daemonVars, todo>> /\ market' \in Int
    BY <1>1 DEF Minute, readerVars
  <1>3. /\ market <= market' /\ market' < now'
        /\ \A i \in DOMAIN ticks : ticks[i].minute <= market'
        /\ \A d \in Daemons : trade[d] # None => trade[d].minute <= market'
    BY <1>1, MinuteReaches
  <1>4. SeenOfMinute'
    BY <1>1, <1>2 DEF SeenOfMinute, Storing, daemonVars
  <1>5. /\ (\A i \in DOMAIN ticks : Reached(ticks[i].minute))'
        /\ (\A d \in Daemons : trade[d] # None => Reached(trade[d].minute))'
    BY <1>2, <1>3 DEF Reached, daemonVars
  <1>6. ASSUME NEW b \in rows', b.source = "alpaca_rest" PROVE b.ts <= market'
    <2>1. b.ts <= market /\ b.ts \in Int
      BY <1>1, <1>2, <1>6 DEF TimesReached, TypeOK, Bar
    <2>2. QED
      BY <1>1, <1>2, <1>3, <2>1
  <1>7. \A b \in rows' : b.source = "alpaca_stream" => \E i \in DOMAIN ticks' : ticks'[i].minute = b.ts
    BY <1>1, <1>2 DEF TimesReached
  <1>8. ASSUME NEW r \in Readers, NEW i \in DOMAIN todo'[r] PROVE todo'[r][i] <= market'
    <2>1. todo'[r] = todo[r] /\ todo[r] \in Seq(0..MaxMinute)
      BY <1>1, <1>2 DEF TypeOK
    <2>2. todo[r][i] \in 0..MaxMinute /\ todo[r][i] <= market
      <3>1. i \in DOMAIN todo[r]
        BY <1>8, <2>1
      <3>2. todo[r][i] \in 0..MaxMinute
        BY <2>1, <3>1, ElementOf
      <3>3. QED
        BY <1>1, <3>1, <3>2 DEF TimesReached
    <2>3. todo[r][i] \in Int
      BY <2>2, BoundsAssumption
    <2>4. QED
      BY <1>1, <1>2, <1>3, <2>1, <2>2, <2>3
  <1>9. QED
    BY <1>3, <1>4, <1>5, <1>6, <1>7, <1>8 DEF TimesReached

\* What every step leaves of the times.
LEMMA TimesStep ==
  ASSUME IInv, QuoteInv, [Next]_vars
  PROVE  TimesReached' /\ SeenOfMinute'
  <1>1. /\ TypeOK /\ TimesReached /\ SeenOfMinute
        /\ now \in Int /\ market \in Int /\ market < now /\ market <= market
    BY DEF IInv, QuoteInv, TypeOK, TimesReached
  <1>2. \A r \in Readers : \A i \in DOMAIN todo[r] : todo[r][i] <= market
    BY <1>1 DEF TimesReached
  <1>3. ASSUME NEW d \in Daemons, Stream(d) PROVE TimesReached' /\ SeenOfMinute'
    BY <1>3, StreamTimes
  <1>4. ASSUME NEW r \in Readers, AskQuote(r) \/ ServeFound(r) \/ FetchLatest(r) \/ ServeHistory(r)
        PROVE  TimesReached' /\ SeenOfMinute'
    <2>1. UNCHANGED <<now, market, ticks, daemonVars>>
      BY <1>4 DEF AskQuote, ServeFound, FetchLatest, ServeHistory
    <2>2. \A b \in rows' : b \in rows \/ (b.source = "alpaca_rest" /\ b.ts <= market)
      <3>1. CASE FetchLatest(r)
        <4>1. Insert(market, "alpaca_rest", Exchange[market])
          BY <3>1 DEF FetchLatest
        <4>2. QED
          BY <1>1, <4>1, InsertOnly
      <3>2. CASE AskQuote(r) \/ ServeFound(r) \/ ServeHistory(r)
        BY <3>2 DEF AskQuote, ServeFound, ServeHistory
      <3>3. QED
        BY <1>4, <3>1, <3>2
    <2>3. todo' = todo \/ todo' = [todo EXCEPT ![r] = <<>>]
      BY <1>4 DEF AskQuote, ServeFound, FetchLatest, ServeHistory, GoIdle
    <2>4. ASSUME NEW x \in Readers, NEW i \in DOMAIN todo'[x] PROVE todo'[x][i] <= market
      <3>1. todo'[x] = todo[x] \/ todo'[x] = <<>>
        BY <1>1, <2>3 DEF TypeOK
      <3>2. QED
        BY <1>2, <2>4, <3>1
    <2>5. QED
      BY <2>1, <2>2, <2>4, OtherTimes
  <1>5. ASSUME NEW r \in Readers, AskHistory(r) PROVE TimesReached' /\ SeenOfMinute'
    <2>1. /\ UNCHANGED <<now, market, ticks, rows, daemonVars>>
          /\ todo' = [todo EXCEPT ![r] = [i \in 1..market + 1 |-> i - 1]]
      BY <1>5 DEF AskHistory
    <2>2. \A i \in 1..market + 1 : i - 1 <= market
      BY <1>1
    <2>3. ASSUME NEW x \in Readers, NEW i \in DOMAIN todo'[x] PROVE todo'[x][i] <= market
      <3>1. CASE x = r
        <4>1. todo'[x] = [j \in 1..market + 1 |-> j - 1]
          BY <1>1, <2>1, <3>1 DEF TypeOK
        <4>2. QED
          BY <2>2, <2>3, <4>1
      <3>2. CASE x # r
        BY <1>1, <1>2, <2>1, <2>3, <3>2 DEF TypeOK
      <3>3. QED
        BY <3>1, <3>2
    <2>4. QED
      BY <2>1, <2>3, OtherTimes
  <1>6. ASSUME NEW r \in Readers, CheckBar(r) \/ CreateBar(r) PROVE TimesReached' /\ SeenOfMinute'
    <2>1. /\ UNCHANGED <<now, market, ticks, daemonVars>>
          /\ todo' = todo \/ todo' = [todo EXCEPT ![r] = Tail(@)]
      BY <1>6 DEF CheckBar, CreateBar
    <2>2. /\ todo[r] \in Seq(0..MaxMinute) /\ todo[r] # <<>>
      BY <1>1, <1>6 DEF CheckBar, CreateBar, TypeOK
    <2>3. /\ \A i \in DOMAIN Tail(todo[r]) : i + 1 \in DOMAIN todo[r] /\ Tail(todo[r])[i] = todo[r][i + 1]
          /\ 1 \in DOMAIN todo[r] /\ Head(todo[r]) = todo[r][1]
      BY <2>2
    <2>4. ASSUME NEW x \in Readers, NEW i \in DOMAIN todo'[x] PROVE todo'[x][i] <= market
      <3>1. CASE todo'[x] = todo[x]
        BY <1>2, <2>4, <3>1
      <3>2. CASE x = r /\ todo'[x] = Tail(todo[r])
        BY <1>2, <2>3, <2>4, <3>2
      <3>3. QED
        BY <1>1, <2>1, <3>1, <3>2 DEF TypeOK
    <2>5. Head(todo[r]) <= market
      BY <1>2, <2>3
    <2>6. \A b \in rows' : b \in rows \/ (b.source = "alpaca_rest" /\ b.ts <= market)
      <3>1. CASE CheckBar(r)
        BY <3>1 DEF CheckBar
      <3>2. CASE CreateBar(r)
        <4>1. Insert(Head(todo[r]), "alpaca_rest", Exchange[Head(todo[r])])
          BY <3>2 DEF CreateBar
        <4>2. QED
          BY <2>5, <4>1, InsertOnly
      <3>3. QED
        BY <1>6, <3>1, <3>2
    <2>7. QED
      BY <2>1, <2>4, <2>6, OtherTimes
  <1>7. ASSUME FetchLatestPrices \/ PurgeSeedPrices PROVE TimesReached' /\ SeenOfMinute'
    <2>1. UNCHANGED <<now, market, ticks, daemonVars, todo>>
      BY <1>7 DEF FetchLatestPrices, PurgeSeedPrices, readerVars
    <2>2. \A b \in rows' : b \in rows \/ (b.source = "alpaca_rest" /\ b.ts <= market)
      <3>1. CASE FetchLatestPrices
        <4>1. Insert(market, "alpaca_rest", Exchange[market])
          BY <3>1 DEF FetchLatestPrices
        <4>2. QED
          BY <1>1, <4>1, InsertOnly
      <3>2. CASE PurgeSeedPrices
        BY <3>2 DEF PurgeSeedPrices
      <3>3. QED
        BY <1>7, <3>1, <3>2
    <2>3. \A r \in Readers : \A i \in DOMAIN todo'[r] : todo'[r][i] <= market
      BY <1>2, <2>1
    <2>4. QED
      BY <2>1, <2>2, <2>3, OtherTimes
  <1>8. ASSUME Minute PROVE TimesReached' /\ SeenOfMinute'
    BY <1>8, MinuteTimes
  <1>9. CASE UNCHANGED vars
    BY <1>1, <1>9 DEF vars, daemonVars, readerVars, TimesReached, SeenOfMinute, Storing, Reached
  <1>10. QED
    BY <1>3, <1>4, <1>5, <1>6, <1>7, <1>8, <1>9 DEF Next, Read

\* What a quote request holds, and what it is answered.
LEMMA QuoteSound ==
  ASSUME IInv, QuoteInv, NEW r \in Readers, AskQuote(r) \/ ServeFound(r) \/ FetchLatest(r)
  PROVE  FoundIsNewest' /\ QuoteIsNewest'
  <1>1. /\ TypeOK /\ TimesReached /\ FoundIsNewest /\ QuoteIsNewest
        /\ now \in Int /\ market \in Int /\ StaleAfter \in Nat
    BY BoundsAssumption DEF IInv, QuoteInv, TypeOK
  <1>2. CASE AskQuote(r)
    <2>1. PICK snap \in {x \in LiveRows : IsNewest(x)} \union (IF LiveRows = {} THEN {None} ELSE {}) :
            found' = [found EXCEPT ![r] = [row |-> snap, asked |-> now,
                        newest |-> IF snap = None THEN -1 ELSE snap.ts]]
      BY <1>2 DEF AskQuote
    <2>2. snap # None => /\ snap \in rows /\ snap.source \in LIVE_SOURCES
                         /\ snap.ts = now \/ snap.ts <= market
      <3>1. snap # None => snap \in rows /\ snap.source \in LIVE_SOURCES
        BY DEF LiveRows
      <3>2. ASSUME snap \in rows, snap.source = "alpaca_stream" PROVE Reached(snap.ts)
        BY <1>1, <3>2 DEF TimesReached
      <3>3. ASSUME snap \in rows, snap.source = "alpaca_rest" PROVE snap.ts <= market
        BY <1>1, <3>3 DEF TimesReached
      <3>4. QED
        BY <3>1, <3>2, <3>3 DEF LIVE_SOURCES, Reached
    <2>3. -1 <= market
      BY <1>1 DEF TypeOK
    <2>4. /\ stage' = [stage EXCEPT ![r] = "found"]
          /\ UNCHANGED <<market, answer>>
      BY <1>2 DEF AskQuote
    <2>5. \A x \in Readers : x # r => found'[x] = found[x] /\ stage'[x] = stage[x]
      BY <1>1, <2>1, <2>4 DEF TypeOK
    <2>6. /\ found'[r].row = snap /\ found'[r].asked = now
          /\ found'[r].newest = IF snap = None THEN -1 ELSE snap.ts
      BY <1>1, <2>1 DEF TypeOK
    <2>7. /\ found'[r].newest = found'[r].asked \/ found'[r].newest <= market
          /\ IF found'[r].row = None THEN found'[r].newest = -1
             ELSE found'[r].row.source \in LIVE_SOURCES /\ found'[r].newest = found'[r].row.ts
      BY <2>2, <2>3, <2>6
    <2>8. FoundIsNewest'
      BY <1>1, <2>4, <2>5, <2>7 DEF FoundIsNewest
    <2>9. QED
      BY <1>1, <2>4, <2>8 DEF QuoteIsNewest
  <1>3. CASE ServeFound(r) \/ FetchLatest(r)
    <2> DEFINE f == found[r]
    <2>1. /\ stage[r] = "found" /\ GoIdle(r) /\ market' = market
          /\ f.newest = f.asked \/ f.newest <= market
          /\ IF f.row = None THEN f.newest = -1
             ELSE f.row.source \in LIVE_SOURCES /\ f.newest = f.row.ts
      BY <1>1, <1>3 DEF ServeFound, FetchLatest, FoundIsNewest
    <2>2. f \in Quote /\ f.asked \in Int /\ f.newest \in Int
      BY <1>1, <2>1, BoundsAssumption DEF TypeOK, Quote
    <2>3. FoundIsNewest'
      BY <1>1, <2>1 DEF FoundIsNewest, GoIdle, TypeOK
    <2>4. PICK sent, failed :
            /\ Answered(r, sent, failed)
            /\ IF sent = None THEN failed /\ f.newest = -1
               ELSE /\ sent.source \in LIVE_SOURCES /\ f.newest <= sent.ts
                    /\ failed \/ f.asked - StaleAfter <= sent.ts \/ market = sent.ts
      <3>1. CASE ServeFound(r)
        <4>1. Answered(r, f.row, ~Fresh(r))
          BY <3>1 DEF ServeFound
        <4>2. f.row = None => ~Fresh(r)
          BY DEF Fresh
        <4>3. f.row # None => f.newest <= f.row.ts /\ (Fresh(r) => f.asked - StaleAfter <= f.row.ts)
          BY <1>1, <2>1, <2>2 DEF Fresh
        <4>4. QED
          BY <2>1, <4>1, <4>2, <4>3
      <3>2. CASE FetchLatest(r)
        <4> DEFINE new == Row(lastId + 1, market, "alpaca_rest", Exchange[market])
        <4>1. Answered(r, new, FALSE) /\ ~Fresh(r) /\ market >= 0
          BY <3>2 DEF FetchLatest
        <4>2. new.ts = market /\ new.source \in LIVE_SOURCES
          BY DEF Row, LIVE_SOURCES
        <4>3. new \in Bar
          <5>1. market \in 0..MaxMinute /\ lastId + 1 \in Nat
            BY <1>1, <4>1 DEF TypeOK
          <5>2. QED
            BY <5>1, ExchangeType, RowType DEF LIVE_SOURCES
        <4>4. f.newest <= market
          <5>1. CASE f.row = None
            BY <1>1, <2>1, <4>1, <5>1
          <5>2. CASE f.row # None
            <6>1. f.newest < f.asked - StaleAfter
              BY <1>1, <2>1, <2>2, <4>1, <5>2 DEF Fresh
            <6>2. QED
              BY <1>1, <2>1, <2>2, <6>1
          <5>3. QED
            BY <5>1, <5>2
        <4> HIDE DEF new
        <4>5. QED
          BY <4>1, <4>2, <4>3, <4>4, NoneAssumption
      <3>3. QED
        BY <1>3, <3>1, <3>2
    <2> DEFINE a == [row |-> sent, failed |-> failed, asked |-> f.asked, newest |-> f.newest,
                     market |-> market]
    <2>5. answer' = [answer EXCEPT ![r] = a]
      BY <2>4 DEF Answered
    <2>6. IF a.row = None THEN a.failed /\ a.newest = -1
          ELSE /\ a.row.source \in LIVE_SOURCES /\ a.newest <= a.row.ts
               /\ a.failed \/ a.asked - StaleAfter <= a.row.ts \/ a.market = a.row.ts
      BY <2>4
    <2> HIDE DEF a
    <2>7. answer'[r] = a /\ \A x \in Readers : x # r => answer'[x] = answer[x]
      BY <1>1, <2>5 DEF TypeOK
    <2>8. QuoteIsNewest'
      BY <1>1, <2>6, <2>7 DEF QuoteIsNewest
    <2>9. QED
      BY <2>3, <2>8
  <1>4. QED
    BY <1>2, <1>3

\* Every step keeps quotes sound: the exchange only goes forward.
LEMMA QuoteStays ==
  ASSUME IInv, QuoteInv, [Next]_vars
  PROVE  FoundIsNewest' /\ QuoteIsNewest'
  <1>1. TypeOK /\ TimesReached /\ FoundIsNewest /\ QuoteIsNewest
    BY DEF IInv, QuoteInv
  <1>2. ASSUME NEW r \in Readers, AskQuote(r) \/ ServeFound(r) \/ FetchLatest(r)
        PROVE  FoundIsNewest' /\ QuoteIsNewest'
    BY <1>2, QuoteSound
  <1>3. ASSUME NEW r \in Readers, AskHistory(r) \/ CheckBar(r) \/ CreateBar(r) \/ ServeHistory(r)
        PROVE  FoundIsNewest' /\ QuoteIsNewest'
    <2>1. UNCHANGED <<market, answer>>
      BY <1>3 DEF AskHistory, CheckBar, CreateBar, ServeHistory
    <2>2. \A x \in Readers : stage'[x] = "found" => stage[x] = "found" /\ found'[x] = found[x]
      BY <1>1, <1>3 DEF AskHistory, CheckBar, CreateBar, ServeHistory, GoIdle, TypeOK
    <2>3. QED
      BY <1>1, <2>1, <2>2 DEF FoundIsNewest, QuoteIsNewest
  <1>4. ASSUME \/ \E d \in Daemons : Stream(d)
               \/ FetchLatestPrices \/ PurgeSeedPrices
               \/ UNCHANGED vars
        PROVE  FoundIsNewest' /\ QuoteIsNewest'
    <2>1. UNCHANGED <<market, stage, found, answer>>
      BY <1>4 DEF Stream, ReadBar, StoreTrade, PushBar, TradeFails, FetchLatestPrices,
                  PurgeSeedPrices, readerVars, vars
    <2>2. QED
      BY <1>1, <2>1 DEF FoundIsNewest, QuoteIsNewest
  <1>5. ASSUME Minute PROVE FoundIsNewest' /\ QuoteIsNewest'
    <2>1. UNCHANGED <<stage, found, answer>> /\ market <= market'
      BY <1>1, <1>5, MinuteReaches DEF Minute, readerVars
    <2>2. market \in Int /\ market' \in Int
      BY <1>1, <1>5 DEF Minute, TypeOK
    <2>3. \A r \in Readers : stage[r] = "found" => found[r].newest \in Int
      BY <1>1, BoundsAssumption DEF TypeOK, Quote
    <2>4. QED
      BY <1>1, <2>1, <2>2, <2>3 DEF FoundIsNewest, QuoteIsNewest
  <1>6. QED
    BY <1>2, <1>3, <1>4, <1>5 DEF Next, Read

LEMMA QuoteInvariant == Spec => []QuoteInv
  <1>1. Init => QuoteInv
    <2> SUFFICES ASSUME Init PROVE QuoteInv
      OBVIOUS
    <2>1. \A b \in rows : b.source = "seed"
      BY SeedsAssumption DEF Init
    <2>2. QED
      BY <2>1 DEF Init, QuoteInv, TimesReached, SeenOfMinute, Storing, FoundIsNewest, QuoteIsNewest
  <1>2. IInv /\ QuoteInv /\ [Next]_vars => QuoteInv'
    BY TimesStep, QuoteStays DEF QuoteInv
  <1>3. QED
    BY <1>1, <1>2, Invariant, PTL DEF Spec

\* No quote is older than the newest live row there was when it was asked, and
\* none that is stale is answered while the exchange has a newer bar, unless
\* the fetch failed: for any staleness bound, and whatever daemons, charts and
\* commands store or delete while the request runs.
THEOREM NewestIsServed == Spec => []QuoteIsNewest
  <1>1. QuoteInv => QuoteIsNewest
    BY DEF QuoteInv
  <1>2. QED
    BY <1>1, QuoteInvariant, PTL

-----------------------------------------------------------------------------
(* Sums over sets.  SumFunction takes the members one by one, each chosen of *)
(* those that are left; that the order does not matter, and that there is a *)
(* function which adds them up, follow by induction over finite sets.       *)

\* What holds of a set whenever it holds of its proper subsets holds of every finite set.
LEMMA SetInduction ==
  ASSUME NEW S, IsFiniteSet(S), NEW G,
         \A T \in SUBSET S : (\A U \in SUBSET T : U # T => U \in G) => T \in G
  PROVE  \A T \in SUBSET S : T \in G
  <1> SUFFICES ASSUME NEW B \in SUBSET S, B \notin G PROVE FALSE
    OBVIOUS
  <1> DEFINE Bad == {T \in SUBSET S : T \notin G}
  <1>1. \A T \in SUBSET S : IsFiniteSet(T)
    BY FS_Subset
  <1>2. Bad \subseteq FiniteSubsetsOf(S) /\ Bad # {}
    BY <1>1 DEF FiniteSubsetsOf
  <1>3. PICK T \in Bad : \A U \in Bad : ~(<<U, T>> \in StrictSubsetOrdering(S))
    <2> HIDE DEF Bad
    <2> QED
      BY <1>2, FS_StrictSubsetOrderingWellFounded, WFMin
  <1>4. \A U \in SUBSET T : U # T => <<U, T>> \in StrictSubsetOrdering(S)
    BY DEF StrictSubsetOrdering
  <1>5. T \in SUBSET S /\ T \notin G
    OBVIOUS
  <1>6. \A U \in SUBSET T : U # T => U \in G
    <2>1. ASSUME NEW U \in SUBSET T, U # T PROVE U \notin Bad
      <3>1. <<U, T>> \in StrictSubsetOrdering(S)
        BY <1>4, <2>1
      <3> HIDE DEF Bad
      <3> QED
        BY <1>3, <3>1
    <2>2. QED
      BY <1>5, <2>1
  <1>7. QED
    BY <1>5, <1>6

\* The member that is taken first.
First(s) == CHOOSE x \in s : TRUE

\* f adds up the amounts of a over every subset of S.
Adds(f, a, S) ==
  \A s \in SUBSET S : f[s] = IF s = {} THEN 0 ELSE a[First(s)] + f[s \ {First(s)}]

\* Some function adds up the amounts of a over S.
Addable(a, S) == \E f \in [SUBSET S -> Int] : Adds(f, a, S)

LEMMA FirstOf == ASSUME NEW s, s # {} PROVE First(s) \in s
  BY DEF First

\* Two ways of adding up the same amounts agree.
LEMMA AddersAgree ==
  ASSUME NEW S, IsFiniteSet(S), NEW a, NEW b, \A x \in S : a[x] = b[x],
         NEW f, NEW g, Adds(f, a, S), Adds(g, b, S)
  PROVE  f[S] = g[S]
  <1> DEFINE G == {s \in SUBSET S : f[s] = g[s]}
  <1>1. ASSUME NEW T \in SUBSET S, \A U \in SUBSET T : U # T => U \in G PROVE T \in G
    <2>1. CASE T = {}
      BY <2>1 DEF Adds
    <2>2. CASE T # {}
      <3>1. First(T) \in T
        BY <2>2, FirstOf
      <3>2. T \ {First(T)} \in G
        BY <1>1, <3>1
      <3>3. /\ f[T] = a[First(T)] + f[T \ {First(T)}]
            /\ g[T] = b[First(T)] + g[T \ {First(T)}]
        BY <2>2 DEF Adds
      <3>4. QED
        BY <3>1, <3>2, <3>3
    <2>3. QED
      BY <2>1, <2>2
  <1> HIDE DEF G
  <1>2. S \in G
    BY <1>1, SetInduction
  <1>3. QED
    BY <1>2 DEF G

\* Integers can be added up.
LEMMA AdderExists ==
  ASSUME NEW S, IsFiniteSet(S), NEW a, \A x \in S : a[x] \in Int
  PROVE  Addable(a, S)
  <1> DEFINE G == {T \in SUBSET S : Addable(a, T)}
  <1>1. ASSUME NEW T \in SUBSET S, \A U \in SUBSET T : U # T => U \in G PROVE Addable(a, T)
    <2>1. CASE T = {}
      <3> DEFINE z == [s \in SUBSET T |-> 0]
      <3>1. z \in [SUBSET T -> Int] /\ Adds(z, a, T)
        BY <2>1 DEF Adds
      <3> HIDE DEF z
      <3>2. QED
        BY <3>1 DEF Addable
    <2>2. CASE T # {}
      <3> DEFINE p == First(T)
                 A(U) == CHOOSE f \in [SUBSET U -> Int] : Adds(f, a, U)
                 g == [s \in SUBSET T |-> IF s = T THEN a[p] + A(T \ {p})[T \ {p}] ELSE A(s)[s]]
      <3>1. p \in T /\ a[p] \in Int
        BY <2>2, FirstOf
      <3>2. \A U \in SUBSET T : U # T => A(U) \in [SUBSET U -> Int] /\ Adds(A(U), a, U)
        BY <1>1 DEF Addable
      <3>3. \A U \in SUBSET T : IsFiniteSet(U)
        BY FS_Subset
      <3>4. \A U \in SUBSET T : U # T => A(U)[U] \in Int
        <4> HIDE DEF A
        <4> QED
          BY <3>2
      <3>5. g \in [SUBSET T -> Int]
        <4> HIDE DEF A
        <4> QED
          BY <3>1, <3>4
      <3>6. ASSUME NEW s \in SUBSET T, s # T, s # {} PROVE A(s)[s] = a[First(s)] + A(s \ {First(s)})[s \ {First(s)}]
        <4> DEFINE r == s \ {First(s)}
        <4>1. First(s) \in s /\ r \in SUBSET s /\ r \in SUBSET T /\ r # T
          BY <3>6, FirstOf
        <4>2. A(s)[s] = a[First(s)] + A(s)[r]
          <5> HIDE DEF A
          <5> QED
            BY <3>2, <3>6 DEF Adds
        <4>3. Adds(A(s), a, r) /\ Adds(A(r), a, r)
          <5> HIDE DEF A, r
          <5> QED
            BY <3>2, <3>6, <4>1 DEF Adds
        <4>4. A(s)[r] = A(r)[r]
          <5> HIDE DEF A, r
          <5> QED
            BY <3>3, <4>1, <4>3, AddersAgree
        <4>5. QED
          BY <4>2, <4>4
      <3>7. ASSUME NEW s \in SUBSET T PROVE g[s] = IF s = {} THEN 0 ELSE a[First(s)] + g[s \ {First(s)}]
        <4>1. CASE s = {}
          <5>1. g[s] = A({})[{}]
            BY <2>2, <4>1
          <5> HIDE DEF A, g
          <5>2. A({})[{}] = 0
            BY <2>2, <3>2 DEF Adds
          <5>3. QED
            BY <4>1, <5>1, <5>2
        <4>2. CASE s # {}
          <5>1. First(s) \in s /\ s \ {First(s)} \in SUBSET T /\ s \ {First(s)} # T
            BY <4>2, FirstOf
          <5>2. g[s \ {First(s)}] = A(s \ {First(s)})[s \ {First(s)}]
            BY <5>1
          <5>3. CASE s = T
            BY <4>2, <5>2, <5>3
          <5>4. CASE s # T
            <6>1. g[s] = A(s)[s]
              BY <5>4
            <6> HIDE DEF A, g
            <6>2. QED
              BY <3>6, <4>2, <5>2, <5>4, <6>1
          <5>5. QED
            BY <5>3, <5>4
        <4>3. QED
          BY <4>1, <4>2
      <3> HIDE DEF g
      <3>8. QED
        BY <3>5, <3>7 DEF Addable, Adds
    <2>3. QED
      BY <2>1, <2>2
  <1>2. \A T \in SUBSET S : (\A U \in SUBSET T : U # T => U \in G) => T \in G
    BY <1>1
  <1> HIDE DEF G
  <1>3. S \in G
    BY <1>2, SetInduction
  <1>4. QED
    BY <1>3 DEF G

\* SumFunction adds up.
LEMMA SumUnfolds ==
  ASSUME NEW S, IsFiniteSet(S), NEW a \in [S -> Int]
  PROVE  \E f \in [SUBSET S -> Int] : Adds(f, a, S) /\ SumFunction(a) = f[S]
  <1> DEFINE F(f) == [s \in SUBSET S |-> IF s = {} THEN 0 ELSE a[First(s)] + f[s \ {First(s)}]]
             T == CHOOSE f : f = F(f)
  <1>1. PICK g \in [SUBSET S -> Int] : Adds(g, a, S)
    BY AdderExists DEF Addable
  <1>2. g = F(g)
    BY <1>1 DEF Adds
  <1>3. T = F(T)
    <2> HIDE DEF F
    <2> QED
      BY <1>2
  <1>4. SumFunction(a) = T[S]
    BY DEF SumFunction, SumFunctionOnSet, FoldFunctionOnSet, MapThenFoldSet, First
  <1>5. Adds(T, a, S)
    <2>1. \A s \in SUBSET S : F(T)[s] = IF s = {} THEN 0 ELSE a[First(s)] + T[s \ {First(s)}]
      <3> HIDE DEF T
      <3> QED
        OBVIOUS
    <2> HIDE DEF F, T
    <2>2. \A s \in SUBSET S : T[s] = IF s = {} THEN 0 ELSE a[First(s)] + T[s \ {First(s)}]
      BY <1>3, <2>1
    <2>3. QED
      BY <2>2 DEF Adds
  <1> HIDE DEF T
  <1>6. T[S] = g[S]
    BY <1>1, <1>5, AddersAgree
  <1>7. QED
    BY <1>1, <1>4, <1>6

\* The order does not matter: any member can be taken first.
LEMMA AnyFirst ==
  ASSUME NEW S, IsFiniteSet(S), NEW a, \A x \in S : a[x] \in Int,
         NEW f, \A s \in SUBSET S : f[s] \in Int, Adds(f, a, S)
  PROVE  \A x \in S : f[S] = a[x] + f[S \ {x}]
  <1> DEFINE G == {T \in SUBSET S : \A x \in T : f[T] = a[x] + f[T \ {x}]}
  <1>1. ASSUME NEW T \in SUBSET S, \A U \in SUBSET T : U # T => U \in G, NEW x \in T
        PROVE  f[T] = a[x] + f[T \ {x}]
    <2> DEFINE p == First(T)
    <2>1. p \in T
      BY FirstOf
    <2>2. f[T] = a[p] + f[T \ {p}]
      BY DEF Adds
    <2> HIDE DEF p
    <2>3. CASE x # p
      <3>1. T \ {p} \in G /\ T \ {x} \in G
        BY <1>1, <2>1
      <3>2. /\ f[T \ {p}] = a[x] + f[(T \ {p}) \ {x}]
            /\ f[T \ {x}] = a[p] + f[(T \ {x}) \ {p}]
        BY <2>1, <2>3, <3>1
      <3>3. (T \ {p}) \ {x} = (T \ {x}) \ {p}
        OBVIOUS
      <3>4. a[x] \in Int /\ a[p] \in Int /\ f[(T \ {x}) \ {p}] \in Int
        BY <2>1
      <3>5. a[p] + (a[x] + f[(T \ {x}) \ {p}]) = a[x] + (a[p] + f[(T \ {x}) \ {p}])
        BY <3>4
      <3>6. QED
        BY <2>2, <3>2, <3>3, <3>5
    <2>4. QED
      BY <2>2, <2>3
  <1>2. \A T \in SUBSET S : (\A U \in SUBSET T : U # T => U \in G) => T \in G
    BY <1>1
  <1> HIDE DEF G
  <1>3. S \in G
    BY <1>2, SetInduction
  <1>4. QED
    BY <1>3 DEF G

\* A sum of integers is one.
LEMMA SumType ==
  ASSUME NEW S, IsFiniteSet(S), NEW a \in [S -> Int]
  PROVE  SumFunction(a) \in Int
  <1>1. PICK f \in [SUBSET S -> Int] : SumFunction(a) = f[S]
    BY SumUnfolds
  <1>2. QED
    BY <1>1

\* One member less takes its amount.
LEMMA SumWithout ==
  ASSUME NEW S, IsFiniteSet(S), NEW x \in S, NEW b \in [S -> Int],
         NEW a \in [S \ {x} -> Int], \A y \in S \ {x} : b[y] = a[y]
  PROVE  SumFunction(b) = SumFunction(a) + b[x]
  <1>1. IsFiniteSet(S \ {x})
    BY FS_Subset
  <1>2. PICK f \in [SUBSET (S \ {x}) -> Int] : Adds(f, a, S \ {x}) /\ SumFunction(a) = f[S \ {x}]
    BY <1>1, SumUnfolds
  <1>3. PICK g \in [SUBSET S -> Int] : Adds(g, b, S) /\ SumFunction(b) = g[S]
    BY SumUnfolds
  <1>4. g[S] = b[x] + g[S \ {x}]
    <2>1. (\A y \in S : b[y] \in Int) /\ (\A s \in SUBSET S : g[s] \in Int)
      OBVIOUS
    <2>2. QED
      BY <1>3, <2>1, AnyFirst
  <1>5. Adds(g, b, S \ {x})
    BY <1>3 DEF Adds
  <1>6. f[S \ {x}] = g[S \ {x}]
    BY <1>1, <1>2, <1>5, AddersAgree
  <1>7. b[x] \in Int /\ g[S \ {x}] \in Int
    OBVIOUS
  <1>8. QED
    BY <1>2, <1>3, <1>4, <1>6, <1>7

\* One member more adds its amount.
LEMMA SumWith ==
  ASSUME NEW S, IsFiniteSet(S), NEW x, x \notin S, NEW a \in [S -> Int], NEW T, T = S \union {x},
         NEW b \in [T -> Int], \A y \in S : b[y] = a[y]
  PROVE  SumFunction(b) = SumFunction(a) + b[x]
  <1>1. IsFiniteSet(T) /\ x \in T /\ T \ {x} = S
    BY FS_AddElement
  <1>2. QED
    BY <1>1, SumWithout

-----------------------------------------------------------------------------
(* What the bars of a minute account for.  That volumes add up, and that    *)
(* highs and lows are prices, is inductive with SeenIsCurrent, SeenOfMinute *)
(* and the rows' identities: the bar that is written is the bar that was    *)
(* read, and of the minute of its trade.                                    *)

\* Some member of a finite set has the largest of integers.
LEMMA HasHighest ==
  ASSUME NEW S, IsFiniteSet(S), S # {}, NEW h, \A x \in S : h[x] \in Int
  PROVE  \E x \in S : \A y \in S : h[y] <= h[x]
  <1> DEFINE G == {T \in SUBSET S : T # {} => \E x \in T : \A y \in T : h[y] <= h[x]}
  <1>1. ASSUME NEW T \in SUBSET S, \A U \in SUBSET T : U # T => U \in G, T # {}
        PROVE  \E x \in T : \A y \in T : h[y] <= h[x]
    <2>1. PICK p \in T : TRUE
      BY <1>1
    <2>2. CASE T \ {p} = {}
      <3>1. \A y \in T : y = p
        BY <2>2
      <3>2. QED
        BY <2>1, <3>1
    <2>3. CASE T \ {p} # {}
      <3>1. T \ {p} \in G
        BY <1>1, <2>1
      <3>2. PICK z \in T \ {p} : \A y \in T \ {p} : h[y] <= h[z]
        BY <2>3, <3>1
      <3>3. h[p] \in Int /\ h[z] \in Int /\ \A y \in T : h[y] \in Int
        BY <2>1, <3>2
      <3>4. CASE h[p] <= h[z]
        BY <3>2, <3>4
      <3>5. CASE h[z] <= h[p]
        <4>1. \A y \in T \ {p} : h[y] <= h[p]
          BY <3>2, <3>3, <3>5
        <4>2. \A y \in T : h[y] <= h[p]
          BY <3>3, <4>1
        <4>3. QED
          BY <2>1, <4>2
      <3>6. QED
        BY <3>3, <3>4, <3>5
    <2>4. QED
      BY <2>2, <2>3
  <1>2. \A T \in SUBSET S : (\A U \in SUBSET T : U # T => U \in G) => T \in G
    BY <1>1
  <1> HIDE DEF G
  <1>3. S \in G
    BY <1>2, SetInduction
  <1>4. QED
    BY <1>3 DEF G

\* Two sets of integers of which each reaches as high as the other have one highest member.
LEMMA SameHighest ==
  ASSUME NEW A, A \subseteq Int, NEW B, B \subseteq Int, NEW m \in A, \A x \in A : x <= m,
         \A x \in A : x \in B, \A y \in B : \E x \in A : y <= x
  PROVE  HighestOf(A) = HighestOf(B)
  <1>1. m \in B /\ \A y \in B : y <= m
    OBVIOUS
  <1>2. /\ \A x \in A : (\A y \in A : y <= x) => x = m
        /\ \A x \in B : (\A y \in B : y <= x) => x = m
    BY <1>1
  <1>3. HighestOf(A) = m /\ HighestOf(B) = m
    BY <1>1, <1>2 DEF HighestOf
  <1>4. QED
    BY <1>3

\* Likewise the lowest one.
LEMMA SameLowest ==
  ASSUME NEW A, A \subseteq Int, NEW B, B \subseteq Int, NEW m \in A, \A x \in A : m <= x,
         \A x \in A : x \in B, \A y \in B : \E x \in A : x <= y
  PROVE  LowestOf(A) = LowestOf(B)
  <1>1. m \in B /\ \A y \in B : m <= y
    OBVIOUS
  <1>2. /\ \A x \in A : (\A y \in A : x <= y) => x = m
        /\ \A x \in B : (\A y \in B : x <= y) => x = m
    BY <1>1
  <1>3. LowestOf(A) = m /\ LowestOf(B) = m
    BY <1>1, <1>2 DEF LowestOf
  <1>4. QED
    BY <1>3

Volume(bars) == SumFunction([b \in bars |-> b.volume])
Size(trades, sold) == SumFunction([i \in sold |-> trades[i].size])

\* Bars account for the trades at the positions of sold.
Tally(bars, sold, trades) ==
  /\ bars = {} <=> sold = {}
  /\ Volume(bars) = Size(trades, sold)
  /\ \A b \in bars : /\ \E i \in sold : trades[i].price = b.high
                     /\ \E i \in sold : trades[i].price = b.low
  /\ \A i \in sold : /\ \E b \in bars : trades[i].price <= b.high
                     /\ \E b \in bars : b.low <= trades[i].price

\* Then the highest high is the highest price, and the lowest low the lowest.
LEMMA TallyBounds ==
  ASSUME NEW bars \in SUBSET Bar, IsFiniteSet(bars), bars # {}, NEW trades \in Seq(Trade),
         NEW sold \in SUBSET DOMAIN trades, Tally(bars, sold, trades)
  PROVE  /\ HighestOf({b.high : b \in bars}) = HighestOf({trades[i].price : i \in sold})
         /\ LowestOf({b.low : b \in bars}) = LowestOf({trades[i].price : i \in sold})
  <1> DEFINE highs == {b.high : b \in bars}
             lows == {b.low : b \in bars}
             prices == {trades[i].price : i \in sold}
             h == [b \in bars |-> b.high]
             l == [b \in bars |-> -b.low]
  <1>1. \A b \in bars : b.high \in Int /\ b.low \in Int /\ -b.low \in Int
    BY DEF Bar
  <1>2. \A i \in sold : trades[i].price \in Int
    <2>1. \A i \in sold : trades[i] \in Trade
      OBVIOUS
    <2>2. QED
      BY <2>1 DEF Trade
  <1>3. PICK top \in bars : \A b \in bars : b.high <= top.high
    <2>1. \A b \in bars : h[b] \in Int /\ h[b] = b.high
      BY <1>1
    <2> HIDE DEF h
    <2>2. PICK x \in bars : \A y \in bars : h[y] <= h[x]
      BY <2>1, HasHighest
    <2>3. QED
      BY <2>1, <2>2
  <1>4. PICK bottom \in bars : \A b \in bars : bottom.low <= b.low
    <2>1. \A b \in bars : l[b] \in Int /\ l[b] = -b.low
      BY <1>1
    <2> HIDE DEF l
    <2>2. PICK x \in bars : \A y \in bars : l[y] <= l[x]
      BY <2>1, HasHighest
    <2>3. ASSUME NEW y \in bars PROVE x.low <= y.low
      <3>1. l[y] = -y.low /\ l[x] = -x.low /\ l[y] <= l[x] /\ y.low \in Int /\ x.low \in Int
        BY <1>1, <2>1, <2>2
      <3>2. QED
        BY <3>1
    <2>4. QED
      BY <2>3
  <1>5. /\ highs \subseteq Int /\ lows \subseteq Int /\ prices \subseteq Int
        /\ top.high \in highs /\ \A x \in highs : x <= top.high
        /\ bottom.low \in lows /\ \A x \in lows : bottom.low <= x
    BY <1>1, <1>2, <1>3, <1>4
  <1>6. /\ \A x \in highs : x \in prices
        /\ \A y \in prices : \E x \in highs : y <= x
        /\ \A x \in lows : x \in prices
        /\ \A y \in prices : \E x \in lows : x <= y
    <2>1. /\ \A b \in bars : \E i \in sold : trades[i].price = b.high
          /\ \A b \in bars : \E i \in sold : trades[i].price = b.low
      BY DEF Tally
    <2>2. \A y \in prices : \E x \in highs : y <= x
      BY DEF Tally
    <2>3. \A y \in prices : \E x \in lows : x <= y
      BY DEF Tally
    <2>4. \A x \in highs : x \in prices
      BY <2>1
    <2>5. \A x \in lows : x \in prices
      BY <2>1
    <2>6. QED
      BY <2>2, <2>3, <2>4, <2>5
  <1> HIDE DEF highs, lows, prices
  <1>7. HighestOf(highs) = HighestOf(prices)
    BY <1>5, <1>6, SameHighest
  <1>8. LowestOf(lows) = LowestOf(prices)
    BY <1>5, <1>6, SameLowest
  <1>9. QED
    BY <1>7, <1>8 DEF highs, lows, prices

\* Volumes add up to an integer.
LEMMA VolumeType ==
  ASSUME NEW bars \in SUBSET Bar, IsFiniteSet(bars)
  PROVE  Volume(bars) \in Int
  <1> DEFINE a == [b \in bars |-> b.volume]
  <1>1. a \in [bars -> Int]
    BY DEF Bar
  <1> HIDE DEF a
  <1>2. SumFunction(a) \in Int
    BY <1>1, SumType
  <1>3. QED
    BY <1>2 DEF a, Volume

\* The volumes of one bar more.
LEMMA VolumeWith ==
  ASSUME NEW bars \in SUBSET Bar, IsFiniteSet(bars), NEW new \in Bar, new \notin bars
  PROVE  Volume(bars \union {new})
           = Volume(bars) + new.volume
  <1> DEFINE a == [b \in bars |-> b.volume]
             B == bars \union {new}
             v == [b \in B |-> b.volume]
  <1>1. \A b \in B : b.volume \in Int
    BY DEF Bar
  <1>2. a \in [bars -> Int] /\ v \in [B -> Int] /\ (\A b \in bars : v[b] = a[b]) /\ v[new] = new.volume
    BY <1>1
  <1>3. B = bars \union {new}
    OBVIOUS
  <1> HIDE DEF a, v, B
  <1>4. SumFunction(v) = SumFunction(a) + v[new]
    BY <1>2, <1>3, SumWith
  <1>5. QED
    BY <1>2, <1>4 DEF a, v, B, Volume

\* The volumes when one bar takes the place of another.
LEMMA VolumeReplaced ==
  ASSUME NEW bars \in SUBSET Bar, IsFiniteSet(bars), NEW old \in bars, NEW new \in Bar,
         new \notin bars \ {old}
  PROVE  Volume((bars \ {old}) \union {new})
           = Volume(bars) - old.volume + new.volume
  <1> DEFINE R == bars \ {old}
             r == Volume(R)
  <1>1. IsFiniteSet(R) /\ R \in SUBSET Bar /\ old \in Bar /\ old \notin R /\ new \notin R
    BY FS_Subset
  <1>2. bars = R \union {old}
    OBVIOUS
  <1>3. r \in Int
    BY <1>1, VolumeType
  <1> HIDE DEF R
  <1>4. Volume(R \union {old}) = r + old.volume
    BY <1>1, VolumeWith
  <1>5. Volume(R \union {new}) = r + new.volume
    BY <1>1, VolumeWith
  <1>6. old.volume \in Int /\ new.volume \in Int
    BY <1>1 DEF Bar
  <1> HIDE DEF r
  <1>7. Volume(R \union {new})
          = Volume(R \union {old}) - old.volume + new.volume
    BY <1>3, <1>4, <1>5, <1>6
  <1>8. QED
    BY <1>2, <1>7 DEF R

\* The sizes of one trade more.
LEMMA SizeWith ==
  ASSUME NEW sold, IsFiniteSet(sold), NEW last, last \notin sold, NEW trades,
         \A i \in sold \union {last} : trades[i].size \in Int
  PROVE  Size(trades, sold \union {last}) = Size(trades, sold) + trades[last].size
  <1> DEFINE S == sold \union {last}
             a == [i \in sold |-> trades[i].size]
             v == [i \in S |-> trades[i].size]
  <1>1. /\ a \in [sold -> Int] /\ v \in [S -> Int] /\ (\A i \in sold : v[i] = a[i])
        /\ v[last] = trades[last].size
    OBVIOUS
  <1>2. S = sold \union {last}
    OBVIOUS
  <1> HIDE DEF a, v, S
  <1>3. SumFunction(v) = SumFunction(a) + v[last]
    BY <1>1, <1>2, SumWith
  <1>4. QED
    BY <1>1, <1>3 DEF a, v, S, Size

\* One trade more, at the end.
LEMMA OneMore ==
  ASSUME NEW trades \in Seq(Trade), NEW t \in Trade, NEW sold \in SUBSET DOMAIN trades
  PROVE  /\ Len(trades) + 1 \notin sold /\ Append(trades, t)[Len(trades) + 1] = t
         /\ \A i \in sold : Append(trades, t)[i] = trades[i] /\ trades[i] \in Trade
         /\ Size(Append(trades, t), sold) = Size(trades, sold)
         /\ Size(Append(trades, t), sold \union {Len(trades) + 1}) = Size(trades, sold) + t.size
  <1> DEFINE more == Append(trades, t)
             last == Len(trades) + 1
  <1>1. /\ Len(trades) \in Nat /\ DOMAIN trades = 1..Len(trades) /\ last \notin DOMAIN trades
        /\ more[last] = t /\ \A i \in DOMAIN trades : more[i] = trades[i] /\ trades[i] \in Trade
    OBVIOUS
  <1> HIDE DEF more, last
  <1>2. last \notin sold /\ \A i \in sold : more[i] = trades[i] /\ trades[i] \in Trade
    BY <1>1
  <1>3. IsFiniteSet(sold)
    <2>1. IsFiniteSet(1..Len(trades))
      BY <1>1, FS_Interval
    <2>2. QED
      BY <1>1, <2>1, FS_Subset
  <1>4. Size(more, sold) = Size(trades, sold)
    <2>1. [i \in sold |-> more[i].size] = [i \in sold |-> trades[i].size]
      BY <1>2
    <2>2. QED
      BY <2>1 DEF Size
  <1>5. \A i \in sold \union {last} : more[i].size \in Int
    <2>1. \A x \in Trade : x.size \in Int
      BY DEF Trade
    <2>2. QED
      BY <1>1, <1>2, <2>1
  <1>6. Size(more, sold \union {last}) = Size(more, sold) + more[last].size
    BY <1>2, <1>3, <1>5, SizeWith
  <1>7. QED
    BY <1>1, <1>2, <1>4, <1>6 DEF more, last

\* A trade of another minute leaves a tally alone.
LEMMA TallyOther ==
  ASSUME NEW bars, NEW trades \in Seq(Trade), NEW t \in Trade, NEW sold \in SUBSET DOMAIN trades,
         Tally(bars, sold, trades)
  PROVE  Tally(bars, sold, Append(trades, t))
  <1> DEFINE more == Append(trades, t)
  <1>1. \A i \in sold : more[i] = trades[i]
    OBVIOUS
  <1>2. [i \in sold |-> more[i].size] = [i \in sold |-> trades[i].size]
    BY <1>1
  <1> HIDE DEF more
  <1>3. Tally(bars, sold, more)
    BY <1>1, <1>2 DEF Tally, Size
  <1>4. QED
    BY <1>3 DEF more

\* A first trade's bar accounts for it.
LEMMA TallyFirst ==
  ASSUME NEW bars \in SUBSET Bar, IsFiniteSet(bars), NEW trades \in Seq(Trade), NEW t \in Trade,
         NEW sold \in SUBSET DOMAIN trades, Tally(bars, sold, trades),
         NEW new \in Bar, new \notin bars,
         new.volume = t.size, new.high = t.price, new.low = t.price
  PROVE  Tally(bars \union {new}, sold \union {Len(trades) + 1}, Append(trades, t))
  <1> DEFINE more == Append(trades, t)
             last == Len(trades) + 1
             B == bars \union {new}
             S == sold \union {last}
  <1>1. /\ last \notin sold /\ more[last] = t /\ (\A i \in sold : more[i] = trades[i])
        /\ Size(more, S)
             = Size(trades, sold) + t.size
    BY OneMore
  <1>2. Volume(B) = Volume(bars) + t.size
    BY VolumeWith
  <1> HIDE DEF more, last
  <1>3. t.price <= new.high /\ new.low <= t.price
    BY DEF Trade
  <1>4. \A b \in B : /\ \E i \in S : more[i].price = b.high
                     /\ \E i \in S : more[i].price = b.low
    BY <1>1 DEF Tally
  <1>5. \A i \in S : /\ \E b \in B : more[i].price <= b.high
                     /\ \E b \in B : b.low <= more[i].price
    BY <1>1, <1>3 DEF Tally
  <1>6. Volume(B) = Size(more, S)
    BY <1>1, <1>2 DEF Tally
  <1>7. B # {} /\ S # {}
    OBVIOUS
  <1> HIDE DEF B, S
  <1>8. Tally(B, S, more)
    BY <1>4, <1>5, <1>6, <1>7 DEF Tally
  <1>9. QED
    BY <1>8 DEF B, S, more, last

\* So does a later trade's, which replaces the bar that was read.
LEMMA TallyLater ==
  ASSUME NEW bars \in SUBSET Bar, IsFiniteSet(bars), NEW trades \in Seq(Trade), NEW t \in Trade,
         NEW sold \in SUBSET DOMAIN trades, Tally(bars, sold, trades),
         NEW old \in bars, NEW new \in Bar, new \notin bars \ {old}, new = Folded(old, old, t)
  PROVE  Tally((bars \ {old}) \union {new}, sold \union {Len(trades) + 1}, Append(trades, t))
  <1> DEFINE more == Append(trades, t)
             last == Len(trades) + 1
             R == bars \ {old}
             B == R \union {new}
             S == sold \union {last}
  <1>1. /\ last \notin sold /\ more[last] = t /\ (\A i \in sold : more[i] = trades[i] /\ trades[i] \in Trade)
        /\ Size(more, S)
             = Size(trades, sold) + t.size
    BY OneMore
  <1>2. /\ new.volume = old.volume + t.size
        /\ new.high = Larger(old.high, t.price) /\ new.low = Smaller(old.low, t.price)
        /\ old.volume \in Int /\ t.size \in Int /\ old \in Bar
    BY DEF Folded, Bar, Trade
  <1>3. Volume(B) = Volume(bars) + t.size
    <2>1. Volume(B)
            = Volume(bars) - old.volume + new.volume
      BY VolumeReplaced
    <2>2. Volume(bars) \in Int
      BY VolumeType
    <2>3. QED
      BY <1>2, <2>1, <2>2
  <1> HIDE DEF more, last
  <1>4. old.high \in Int /\ old.low \in Int /\ t.price \in Int
    BY <1>2 DEF Bar, Trade
  <1>5. /\ old.high <= new.high /\ t.price <= new.high
        /\ new.low <= old.low /\ new.low <= t.price
        /\ new.high \in {old.high, t.price} /\ new.low \in {old.low, t.price}
    BY <1>2, <1>4 DEF Larger, Smaller
  <1>6. \A i \in sold : trades[i].price \in Int
    BY <1>1 DEF Trade
  <1>7. ASSUME NEW b \in B
        PROVE  (\E i \in S : more[i].price = b.high) /\ (\E i \in S : more[i].price = b.low)
    <2>1. \A x \in bars : /\ \E i \in S : more[i].price = x.high
                          /\ \E i \in S : more[i].price = x.low
      BY <1>1 DEF Tally
    <2>2. CASE b = new
      BY <1>1, <1>5, <2>1, <2>2
    <2>3. CASE b # new
      BY <2>1, <2>3
    <2>4. QED
      BY <2>2, <2>3
  <1>8. ASSUME NEW i \in S
        PROVE  /\ \E b \in B : more[i].price <= b.high
               /\ \E b \in B : b.low <= more[i].price
    <2>1. CASE i = last
      BY <1>1, <1>5, <2>1
    <2>2. CASE i \in sold
      <3>1. more[i] = trades[i] /\ trades[i].price \in Int
        BY <1>1, <1>6, <2>2
      <3>2. new.high \in Int /\ new.low \in Int
        BY DEF Bar
      <3>3. PICK b \in bars : trades[i].price <= b.high
        BY <2>2 DEF Tally
      <3>4. PICK c \in bars : c.low <= trades[i].price
        BY <2>2 DEF Tally
      <3>5. \E x \in B : more[i].price <= x.high
        <4>1. CASE b = old
          BY <1>4, <1>5, <3>1, <3>2, <3>3, <4>1
        <4>2. CASE b # old
          BY <3>1, <3>3, <4>2
        <4>3. QED
          BY <4>1, <4>2
      <3>6. \E x \in B : x.low <= more[i].price
        <4>1. CASE c = old
          BY <1>4, <1>5, <3>1, <3>2, <3>4, <4>1
        <4>2. CASE c # old
          BY <3>1, <3>4, <4>2
        <4>3. QED
          BY <4>1, <4>2
      <3>7. QED
        BY <3>5, <3>6
    <2>3. QED
      BY <2>1, <2>2
  <1>9. Volume(B) = Size(more, S)
    BY <1>1, <1>3 DEF Tally
  <1>10. B # {} /\ S # {}
    OBVIOUS
  <1> HIDE DEF B, S
  <1>11. Tally(B, S, more)
    BY <1>7, <1>8, <1>9, <1>10 DEF Tally
  <1>12. QED
    BY <1>11 DEF B, S, R, more, last

Sold(minute) == {i \in DOMAIN ticks : ticks[i].minute = minute}

\* The bars of every minute account for its trades.
Books == \A minute \in 0..MaxMinute : Tally(BarsOf(minute), Sold(minute), ticks)

BooksInv == IsFiniteSet(rows) /\ Books

\* The books at the start: no trades, and no bars but seeded ones.
LEMMA InitBooks == Init => BooksInv
  <1> SUFFICES ASSUME Init PROVE BooksInv
    OBVIOUS
  <1>1. IsFiniteSet(rows)
    BY SeedsAssumption DEF Init
  <1>2. ASSUME NEW m \in 0..MaxMinute PROVE Tally(BarsOf(m), Sold(m), ticks)
    <2>1. BarsOf(m) = {} /\ Sold(m) = {}
      BY SeedsAssumption DEF Init, BarsOf, Sold
    <2>2. Volume({}) = Size(ticks, {})
      <3>1. [b \in {} |-> b.volume] = [i \in {} |-> ticks[i].size]
        OBVIOUS
      <3>2. QED
        BY <3>1 DEF Volume, Size
    <2>3. QED
      BY <2>1, <2>2 DEF Tally
  <1>3. QED
    BY <1>1, <1>2 DEF BooksInv, Books

\* What the bars and the positions of trades are, for the lemmas on tallies.
LEMMA BarsAndSold ==
  ASSUME TypeOK, IsFiniteSet(rows), NEW m
  PROVE  /\ BarsOf(m) \in SUBSET Bar /\ BarsOf(m) \in SUBSET rows /\ IsFiniteSet(BarsOf(m))
         /\ Sold(m) \in SUBSET DOMAIN ticks /\ ticks \in Seq(Trade)
  <1>1. BarsOf(m) \in SUBSET Bar /\ BarsOf(m) \in SUBSET rows
    BY DEF BarsOf, TypeOK
  <1>2. QED
    BY <1>1, FS_Subset DEF Sold, TypeOK

\* A step that leaves the trades and the streamed bars as they are.
LEMMA SameBooks ==
  ASSUME BooksInv, UNCHANGED ticks, IsFiniteSet(rows'),
         \A b : b.source = "alpaca_stream" => (b \in rows' <=> b \in rows)
  PROVE  BooksInv'
  <1>1. \A m : BarsOf(m)' = BarsOf(m) /\ Sold(m)' = Sold(m)
    BY DEF BarsOf, Sold
  <1>2. QED
    BY <1>1 DEF BooksInv, Books

\* A bar that is inserted from the exchange.
LEMMA InsertBooks ==
  ASSUME BooksInv, UNCHANGED ticks, NEW ts, NEW bar, Insert(ts, "alpaca_rest", bar)
  PROVE  BooksInv'
  <1>1. rows' = rows \union {Row(lastId + 1, ts, "alpaca_rest", bar)}
    BY DEF Insert
  <1>2. IsFiniteSet(rows')
    BY <1>1, FS_AddElement DEF BooksInv
  <1>3. Row(lastId + 1, ts, "alpaca_rest", bar).source = "alpaca_rest"
    BY DEF Row
  <1>4. QED
    BY <1>1, <1>2, <1>3, SameBooks

\* A trade goes to the books of its minute alone.
LEMMA TradeBooks ==
  ASSUME TypeOK, SeenIsCurrent, SeenIsStreamed, SeenOfMinute, BooksInv,
         NEW d \in Daemons, StoreTrade(d)
  PROVE  BooksInv'
  <1>1. PICK t \in Trade : t = trade[d]
    BY NoneAssumption DEF StoreTrade, TypeOK
  <1>2. PICK m \in 0..MaxMinute : m = t.minute
    BY DEF Trade
  <1> DEFINE first == Row(lastId + 1, m, "alpaca_stream", FirstBar(t))
             later == Folded(seen[d], seen[d], t)
  <1>3. pc[d] = "storing" /\ ticks' = Append(ticks, t) /\ ticks \in Seq(Trade)
    BY <1>1 DEF StoreTrade, TypeOK
  <1>4. /\ IsFiniteSet(rows)
        /\ \A k \in 0..MaxMinute : Tally(BarsOf(k), Sold(k), ticks)
        /\ \A k : /\ BarsOf(k) \in SUBSET Bar /\ BarsOf(k) \in SUBSET rows /\ IsFiniteSet(BarsOf(k))
                  /\ Sold(k) \in SUBSET DOMAIN ticks
    BY BarsAndSold DEF BooksInv, Books
  <1>5. /\ Sold(m)' = Sold(m) \union {Len(ticks) + 1}
        /\ \A k : k # m => Sold(k)' = Sold(k)
    <2>1. /\ DOMAIN ticks' = DOMAIN ticks \union {Len(ticks) + 1} /\ Len(ticks) + 1 \notin DOMAIN ticks
          /\ ticks'[Len(ticks) + 1] = t /\ \A i \in DOMAIN ticks : ticks'[i] = ticks[i]
      BY <1>3
    <2>2. QED
      BY <1>2, <2>1 DEF Sold
  <1>6. ASSUME IsFiniteSet(rows'), \A k : k # m => BarsOf(k)' = BarsOf(k),
               Tally(BarsOf(m)', Sold(m)', ticks')
        PROVE  BooksInv'
    <2>1. ASSUME NEW k \in 0..MaxMinute, k # m PROVE Tally(BarsOf(k)', Sold(k)', ticks')
      <3>1. Tally(BarsOf(k), Sold(k), Append(ticks, t))
        BY <1>3, <1>4, TallyOther
      <3>2. QED
        BY <1>3, <1>5, <1>6, <2>1, <3>1
    <2>2. \A k \in 0..MaxMinute : Tally(BarsOf(k)', Sold(k)', ticks')
      BY <1>6, <2>1
    <2>3. QED
      BY <1>6, <2>2 DEF BooksInv, Books
  <1>7. CASE seen[d] = None
    <2>1. rows' = rows \union {first}
      BY <1>1, <1>2, <1>7 DEF StoreTrade, Insert
    <2>2. /\ first.id = lastId + 1 /\ first.ts = m /\ first.source = "alpaca_stream"
          /\ first.volume = t.size /\ first.high = t.price /\ first.low = t.price
      BY <1>2 DEF Row, FirstBar
    <2>3. first \in Bar
      BY <1>3, RowType, FirstBarType DEF TypeOK, LIVE_SOURCES
    <2>4. first \notin rows
      BY <2>2 DEF TypeOK, Bar
    <2>5. IsFiniteSet(rows')
      BY <1>4, <2>1, FS_AddElement
    <2> HIDE DEF first
    <2>6. /\ BarsOf(m)' = BarsOf(m) \union {first}
          /\ \A k : k # m => BarsOf(k)' = BarsOf(k)
      BY <2>1, <2>2 DEF BarsOf
    <2>7. first \notin BarsOf(m)
      BY <1>4, <2>4
    <2>8. Tally(BarsOf(m) \union {first}, Sold(m) \union {Len(ticks) + 1}, Append(ticks, t))
      BY <1>3, <1>4, <2>2, <2>3, <2>7, TallyFirst
    <2>9. QED
      BY <1>3, <1>5, <1>6, <2>5, <2>6, <2>8
  <1>8. CASE seen[d] # None
    <2>1. /\ seen[d] \in rows /\ seen[d] \in Bar /\ seen[d].source = "alpaca_stream" /\ seen[d].ts = m
      BY <1>1, <1>2, <1>3, <1>8 DEF SeenIsCurrent, SeenIsStreamed, SeenOfMinute, Storing, TypeOK
    <2>2. /\ later \in Bar /\ later.id = seen[d].id /\ later.ts = m /\ later.source = "alpaca_stream"
      BY <1>3, <2>1, FoldedType
    <2>3. rows' = {IF r.id = seen[d].id THEN Folded(r, seen[d], t) ELSE r : r \in rows}
      BY <1>1, <1>8 DEF StoreTrade
    <2>4. \A r \in rows : r.id = seen[d].id <=> r = seen[d]
      BY <2>1 DEF TypeOK
    <2>5. rows' = (rows \ {seen[d]}) \union {later}
      <3>1. rows' = {IF r = seen[d] THEN later ELSE r : r \in rows}
        BY <2>3, <2>4
      <3> HIDE DEF later
      <3>2. QED
        BY <2>1, <3>1
    <2>6. IsFiniteSet(rows')
      <3>1. IsFiniteSet(rows \ {seen[d]})
        BY <1>4, FS_Subset
      <3>2. QED
        BY <2>5, <3>1, FS_AddElement
    <2>7. later \notin rows \ {seen[d]}
      BY <2>2, <2>4
    <2>8. seen[d] \in BarsOf(m) /\ later \notin BarsOf(m) \ {seen[d]}
      BY <1>4, <2>1, <2>7 DEF BarsOf
    <2>9. Tally((BarsOf(m) \ {seen[d]}) \union {later}, Sold(m) \union {Len(ticks) + 1}, Append(ticks, t))
      BY <1>3, <1>4, <2>2, <2>8, TallyLater
    <2> HIDE DEF later
    <2>10. /\ BarsOf(m)' = (BarsOf(m) \ {seen[d]}) \union {later}
           /\ \A k : k # m => BarsOf(k)' = BarsOf(k)
      BY <2>1, <2>2, <2>5 DEF BarsOf
    <2>11. QED
      BY <1>3, <1>5, <1>6, <2>6, <2>9, <2>10
  <1>9. QED
    BY <1>7, <1>8

\* Every step keeps the books.
LEMMA BooksStep ==
  ASSUME IInv, QuoteInv, BooksInv, [Next]_vars
  PROVE  BooksInv'
  <1>1. /\ TypeOK /\ SeenIsCurrent /\ SeenIsStreamed /\ SeenOfMinute /\ IsFiniteSet(rows)
    BY DEF IInv, QuoteInv, BooksInv
  <1>2. ASSUME NEW d \in Daemons, StoreTrade(d) PROVE BooksInv'
    BY <1>1, <1>2, TradeBooks
  <1>3. ASSUME NEW d \in Daemons, ReadBar(d) \/ PushBar(d) \/ TradeFails(d) PROVE BooksInv'
    <2>1. UNCHANGED <<ticks, rows>>
      BY <1>3 DEF ReadBar, PushBar, TradeFails, RolledBack
    <2>2. QED
      BY <1>1, <2>1, SameBooks
  <1>4. ASSUME NEW r \in Readers, Read(r) PROVE BooksInv'
    <2>1. CASE FetchLatest(r)
      <3>1. UNCHANGED ticks /\ Insert(market, "alpaca_rest", Exchange[market])
        BY <2>1 DEF FetchLatest
      <3>2. QED
        BY <3>1, InsertBooks
    <2>2. CASE CreateBar(r)
      <3>1. UNCHANGED ticks /\ Insert(Head(todo[r]), "alpaca_rest", Exchange[Head(todo[r])])
        BY <2>2 DEF CreateBar
      <3>2. QED
        BY <3>1, InsertBooks
    <2>3. CASE AskQuote(r) \/ ServeFound(r) \/ AskHistory(r) \/ CheckBar(r) \/ ServeHistory(r)
      <3>1. UNCHANGED <<ticks, rows>>
        BY <2>3 DEF AskQuote, ServeFound, AskHistory, CheckBar, ServeHistory
      <3>2. QED
        BY <1>1, <3>1, SameBooks
    <2>4. QED
      BY <1>4, <2>1, <2>2, <2>3 DEF Read
  <1>5. CASE FetchLatestPrices
    <2>1. UNCHANGED ticks /\ Insert(market, "alpaca_rest", Exchange[market])
      BY <1>5 DEF FetchLatestPrices
    <2>2. QED
      BY <2>1, InsertBooks
  <1>6. CASE PurgeSeedPrices
    <2>1. UNCHANGED ticks /\ rows' = {r \in rows : r.source # "seed"}
      BY <1>6 DEF PurgeSeedPrices
    <2>2. IsFiniteSet(rows')
      BY <1>1, <2>1, FS_Subset
    <2>3. QED
      BY <2>1, <2>2, SameBooks
  <1>7. CASE Minute \/ UNCHANGED vars
    <2>1. UNCHANGED <<ticks, rows>>
      BY <1>7 DEF Minute, vars
    <2>2. QED
      BY <1>1, <2>1, SameBooks
  <1>8. QED
    BY <1>2, <1>3, <1>4, <1>5, <1>6, <1>7 DEF Next, Stream

\* BarsAddUp of every behaviour: after any interleaving of daemons, exceptions and
\* deaths, the bars of a minute account for exactly the trades stored for it.
THEOREM BooksBalance == Spec => []BarsAddUp
  <1>1. TypeOK /\ BooksInv => BarsAddUp
    <2> SUFFICES ASSUME TypeOK, BooksInv, NEW m \in 0..MaxMinute
                 PROVE  /\ BarsOf(m) = {} <=> Sold(m) = {}
                        /\ SumFunction([b \in BarsOf(m) |-> b.volume])
                             = SumFunction([i \in Sold(m) |-> ticks[i].size])
                        /\ BarsOf(m) # {} =>
                             /\ HighestOf({b.high : b \in BarsOf(m)})
                                  = HighestOf({ticks[i].price : i \in Sold(m)})
                             /\ LowestOf({b.low : b \in BarsOf(m)})
                                  = LowestOf({ticks[i].price : i \in Sold(m)})
      BY DEF BarsAddUp, Sold
    <2>1. Tally(BarsOf(m), Sold(m), ticks) /\ IsFiniteSet(rows)
      BY DEF BooksInv, Books
    <2>2. BarsOf(m) # {} => /\ HighestOf({b.high : b \in BarsOf(m)})
                                 = HighestOf({ticks[i].price : i \in Sold(m)})
                            /\ LowestOf({b.low : b \in BarsOf(m)})
                                 = LowestOf({ticks[i].price : i \in Sold(m)})
      BY <2>1, BarsAndSold, TallyBounds
    <2>3. QED
      BY <2>1, <2>2 DEF Tally, Volume, Size
  <1>2. Init => BooksInv
    BY InitBooks
  <1>3. IInv /\ QuoteInv /\ BooksInv /\ [Next]_vars => BooksInv'
    BY BooksStep
  <1>4. IInv => TypeOK
    BY DEF IInv
  <1>5. QED
    BY <1>1, <1>2, <1>3, <1>4, Invariant, QuoteInvariant, PTL DEF Spec

=================================================================================
