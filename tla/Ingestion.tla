------------------------------- MODULE Ingestion -------------------------------
(***************************************************************************)
(* How posts reach SocialPost and the feeds: the fetchers                   *)
(* (apps/social/fetchers) as run_pipeline_for_ticker drives them, stories   *)
(* from the news stream (news_stream.py), each of which starts a run of its *)
(* own for every ticker it names, and the feeds of apps/social/views.py.    *)
(*                                                                          *)
(* A place is what one series of requests is about: a subreddit, or the     *)
(* whole of another source.  What the servers list does not change.  A      *)
(* child is [id, at, kind]: "good", "poor" (is_quality_post refuses it),    *)
(* "foreign" (not relevant to the ticker) or "broken" (without an id).      *)
(***************************************************************************)
EXTENDS Integers, FiniteSets, SequencesExt

CONSTANTS Processes,                      \* task workers and news streams
          Tickers, None,
          SUBREDDITS, PUBLIC_SUBREDDITS,  \* sequences of places
          Sources,                        \* the fetchers after Reddit's, in their order
          Retrying,                       \* sources read with request_json
          Pages,                          \* of each place: a sequence of pages
          Symbols,                        \* sequences of symbols a story may name
          StoredBefore,                   \* sets of rows there may be at the start
          MaxPages, Retries,              \* of a fetcher, of request_json
          FEED_LIMIT, GLOBAL_CANDIDATE_LIMIT, GLOBAL_MAX_PER_SOURCE, GLOBAL_MAX_PER_TICKER

AllPlaces == ToSet(SUBREDDITS) \union ToSet(PUBLIC_SUBREDDITS) \union ToSet(Sources)

Children == UNION {UNION {ToSet(p) : p \in ToSet(Pages[at])} : at \in AllPlaces}

\* What the news stream may bring.
Stories == {Pages["news_alpaca"][1][i] : i \in DOMAIN Pages["news_alpaca"][1]}

\* A listing has a page, if an empty one.
ASSUME PagesAssumption ==
  \A at \in AllPlaces : Pages[at] \in Seq(Seq(Children)) /\ Pages[at] # <<>>

\* No list names a place twice, and no subreddit is a source of its own.
ASSUME PlacesAssumption ==
  /\ \A list \in {SUBREDDITS, PUBLIC_SUBREDDITS, Sources} :
       list \in Seq(AllPlaces) /\ \A i, j \in DOMAIN list : list[i] = list[j] => i = j
  /\ SUBREDDITS # <<>> /\ PUBLIC_SUBREDDITS # <<>>
  /\ ToSet(Sources) \cap ({"reddit"} \union ToSet(SUBREDDITS) \union ToSet(PUBLIC_SUBREDDITS)) = {}
ASSUME LimitsAssumption ==
  /\ MaxPages \in Nat \ {0} /\ Retries \in Nat
  /\ {FEED_LIMIT, GLOBAL_CANDIDATE_LIMIT, GLOBAL_MAX_PER_SOURCE, GLOBAL_MAX_PER_TICKER} \subseteq Nat

\* Posts have a time; a table is finite.
ASSUME StampsAssumption ==
  /\ \A c \in Children \union Stories : c.at \in Nat
  /\ \A S \in StoredBefore : IsFiniteSet(S) /\ \A r \in S : r.at \in Nat
ASSUME NamesAssumption == None \notin Tickers /\ \A s \in Symbols : s \in Seq(ToSet(s))

VARIABLES
  rows,      \* SocialPost
  setup,     \* which of the Reddit credentials are configured
  pc,
  story,     \* of the handler: the story, and the symbols still to do
  ticker,    \* of a run
  source,    \* the number of the fetcher, Reddit's first
  mode,      \* how Reddit is read: "oauth", "public" or "none"
  place, page, after, tries,  \* the next request: number of the place and of its page, cursor, attempt
  posts,                      \* what the fetcher has gathered or the run has still to store
  served, gaveUp, raised      \* pages read, places given up, sources whose fetcher raised

request == <<place, page, after, tries>>
history == <<served, gaveUp, raised>>
run == <<ticker, source, mode, request, posts, history>>
vars == <<rows, setup, pc, story, run>>

Fetchers == <<"reddit">> \o Sources
Source(p) == Fetchers[source[p]]

Init ==
  /\ rows \in StoredBefore
  /\ setup \in {{}, {"agent"}, {"client", "agent"}}
  /\ pc = [p \in Processes |-> "idle"]
  /\ story = [p \in Processes |-> None]
  /\ ticker = [p \in Processes |-> None]
  /\ source = [p \in Processes |-> 1]
  /\ mode = [p \in Processes |-> "none"]
  /\ place = [p \in Processes |-> 1] /\ page = [p \in Processes |-> 1]
  /\ after = [p \in Processes |-> 0] /\ tries = [p \in Processes |-> 0]
  /\ posts = [p \in Processes |-> <<>>]
  /\ served = [p \in Processes |-> {}]
  /\ gaveUp = [p \in Processes |-> {}]
  /\ raised = [p \in Processes |-> {}]

Goto(p, stage) == pc' = [pc EXCEPT ![p] = stage]

Row(t, s, child) == [ticker |-> t, source |-> s, id |-> child.id, at |-> child.at, kind |-> child.kind]

\* get_or_create: the key is (ticker, source, external_id).
IsStored(row) == \E r \in rows : r.ticker = row.ticker /\ r.source = row.source /\ r.id = row.id

\* Complete, and past is_quality_post; no test of relevance.
Worth(child) == child.kind \in {"good", "foreign"}

-----------------------------------------------------------------------------
(* Runs begin and end.                                                      *)

Begin(p, t) ==
  /\ ticker' = [ticker EXCEPT ![p] = t]
  /\ source' = [source EXCEPT ![p] = 1]
  /\ mode' = [mode EXCEPT ![p] = "none"]
  /\ served' = [served EXCEPT ![p] = {}]
  /\ gaveUp' = [gaveUp EXCEPT ![p] = {}]
  /\ raised' = [raised EXCEPT ![p] = {}]
  /\ Goto(p, "token")
  /\ UNCHANGED <<request, posts>>

BeginPeriodic(p, t) ==
  /\ pc[p] = "idle"
  /\ Begin(p, t)
  /\ UNCHANGED <<rows, setup, story>>

\* handle_news, past its own test of quality.
HandleNews(p, child, symbols) ==
  /\ pc[p] = "idle" /\ Worth(child)
  /\ story' = [story EXCEPT ![p] = [child |-> child, left |-> symbols]]
  /\ Goto(p, "symbol")
  /\ UNCHANGED <<rows, setup, run>>

\* The next symbol of the story: untracked, stored already, or new.
TakeSymbol(p) ==
  /\ pc[p] = "symbol" /\ story[p].left # <<>>
  /\ LET t   == Head(story[p].left)
         row == Row(t, "news_alpaca", story[p].child)
     IN /\ story' = [story EXCEPT ![p].left = Tail(@)]
        /\ IF t \notin Tickers \/ IsStored(row) THEN UNCHANGED <<rows, pc, run>>
           ELSE rows' = rows \union {row} /\ Begin(p, t)
  /\ UNCHANGED setup

\* The run goes on to score what is stored; what the fetches left behind is dropped.
Forget(p) ==
  /\ ticker' = [ticker EXCEPT ![p] = None]
  /\ source' = [source EXCEPT ![p] = 1]
  /\ mode' = [mode EXCEPT ![p] = "none"]
  /\ place' = [place EXCEPT ![p] = 1] /\ page' = [page EXCEPT ![p] = 1]
  /\ after' = [after EXCEPT ![p] = 0] /\ tries' = [tries EXCEPT ![p] = 0]
  /\ posts' = [posts EXCEPT ![p] = <<>>]
  /\ served' = [served EXCEPT ![p] = {}]
  /\ gaveUp' = [gaveUp EXCEPT ![p] = {}]
  /\ raised' = [raised EXCEPT ![p] = {}]

EndRun(p) ==
  /\ pc[p] = "done"
  /\ Goto(p, IF story[p] = None THEN "idle" ELSE "symbol")
  /\ Forget(p)
  /\ UNCHANGED <<rows, setup, story>>

EndStory(p) ==
  /\ pc[p] = "symbol" /\ story[p].left = <<>>
  /\ story' = [story EXCEPT ![p] = None]
  /\ Goto(p, "idle")
  /\ UNCHANGED <<rows, setup, run>>

\* The run raises, or its process dies: a handler leaves its other symbols undone.
Crash(p) ==
  /\ pc[p] # "idle"
  /\ story' = [story EXCEPT ![p] = None]
  /\ Goto(p, "idle")
  /\ Forget(p)
  /\ UNCHANGED <<rows, setup>>

-----------------------------------------------------------------------------
(* The requests of one fetcher.                                             *)

PlacesOf(s, how) ==
  IF s # "reddit" THEN <<s>>
  ELSE IF how = "oauth" THEN SUBREDDITS
  ELSE IF how = "public" THEN PUBLIC_SUBREDDITS
  ELSE <<>>

PagesOf(s, how) == IF s = "reddit" /\ how = "oauth" THEN MaxPages ELSE 1

Places(p) == PlacesOf(Source(p), mode[p])
Place(p)  == Places(p)[place[p]]

\* The RSS fetchers leave the request to feedparser and Alpaca's to its client: it
\* is made once, and waits for its answer without a limit of time.  They return
\* nothing when it raises.
Untimed(s) == s \notin Retrying

\* The public pages of Reddit are asked for once as well.
RetriesOf(p) ==
  IF ~Untimed(Source(p)) /\ ~(Source(p) = "reddit" /\ mode[p] = "public") THEN Retries ELSE 0

FirstRequest(p) ==
  /\ place' = [place EXCEPT ![p] = 1] /\ page' = [page EXCEPT ![p] = 1]
  /\ after' = [after EXCEPT ![p] = 0] /\ tries' = [tries EXCEPT ![p] = 0]

\* RedditFetcher.fetch: a token of its own for every run, else the public pages,
\* else nothing.
AskToken(p) ==
  /\ pc[p] = "token"
  /\ \E got \in BOOLEAN :
       LET how == IF got THEN "oauth" ELSE IF "agent" \in setup THEN "public" ELSE "none"
       IN /\ got => {"client", "agent"} \subseteq setup
          /\ mode' = [mode EXCEPT ![p] = how]
          /\ Goto(p, IF how = "none" THEN "store" ELSE "ask")
  /\ FirstRequest(p)
  /\ UNCHANGED <<rows, setup, story, ticker, source, posts, history>>

\* The children that are good, in their order.
Kept(children, good) ==
  FoldLeft(LAMBDA kept, c : IF c \in good THEN Append(kept, c) ELSE kept, <<>>, children)

\* Mutant: the cursor of the last subreddit is kept for the next.
StaleCursor(p) == after[p]

FirstCursor(p) == 0

\* After the last place (there is a pause between public pages) the run drops
\* what is incomplete or poor and stores the rest.
NextPlace(p, gathered) ==
  /\ tries' = [tries EXCEPT ![p] = 0]
  /\ page' = [page EXCEPT ![p] = 1]
  /\ IF place[p] = Len(Places(p))
       THEN /\ posts' = [posts EXCEPT ![p] = Kept(gathered, {c \in ToSet(gathered) : Worth(c)})]
            /\ place' = [place EXCEPT ![p] = 1]
            /\ after' = [after EXCEPT ![p] = 0]
            /\ Goto(p, "store")
       ELSE /\ posts' = [posts EXCEPT ![p] = gathered]
            /\ place' = [place EXCEPT ![p] = @ + 1]
            /\ after' = [after EXCEPT ![p] = FirstCursor(p)]
            /\ UNCHANGED pc

\* is_relevant_google_post: it names the company, or a symbol of four letters.
Relevant(child) == child.kind # "foreign"

\* Children without an id are dropped, and by Google's fetcher what is irrelevant.
Parsed(s, children) ==
  Kept(children, {c \in ToSet(children) : c.kind # "broken" /\ (s = "news_google" => Relevant(c))})

\* An answer: the page after the cursor.  Its own cursor is absent on the last page.
Served(p) ==
  LET n        == after[p] + 1
      gathered == posts[p] \o Parsed(Source(p), Pages[Place(p)][n])
      more     == n < Len(Pages[Place(p)])
  IN /\ pc[p] = "ask"
     /\ served' = [served EXCEPT ![p] = @ \union {<<Place(p), n>>}]
     /\ IF more /\ page[p] < PagesOf(Source(p), mode[p])
          THEN /\ posts' = [posts EXCEPT ![p] = gathered]
               /\ page' = [page EXCEPT ![p] = @ + 1]
               /\ after' = [after EXCEPT ![p] = n]
               /\ tries' = [tries EXCEPT ![p] = 0]
               /\ UNCHANGED <<pc, place>>
          ELSE NextPlace(p, gathered)
     /\ UNCHANGED <<rows, setup, story, ticker, source, mode, gaveUp, raised>>

\* Mutant: one retry too many.
OnceMore(p) == tries[p] <= RetriesOf(p)

MayRetry(p) == tries[p] < RetriesOf(p)

\* Mutant: an attempt that fails is not counted.
SameTry(p) == tries[p]

NextTry(p) == tries[p] + 1

\* A status to retry, a timeout or a lost connection, with attempts left: wait,
\* for as long as Retry-After says or backing off, and ask again.
Retry(p) ==
  /\ pc[p] = "ask" /\ MayRetry(p)
  /\ tries' = [tries EXCEPT ![p] = NextTry(p)]
  /\ \E why \in {"told", "wait"} : Goto(p, why)
  /\ UNCHANGED <<rows, setup, story, ticker, source, mode, place, page, after, posts, history>>

Waited(p) ==
  /\ pc[p] \in {"told", "wait"}
  /\ Goto(p, "ask")
  /\ UNCHANGED <<rows, setup, story, run>>

\* request_json returns nothing: the last attempt failed, or one failed for
\* good.  The place is left, what was gathered is kept.
GiveUp(p) ==
  /\ pc[p] = "ask"
  /\ gaveUp' = [gaveUp EXCEPT ![p] = @ \union {Place(p)}]
  /\ NextPlace(p, posts[p])
  /\ UNCHANGED <<rows, setup, story, ticker, source, mode, served, raised>>

\* JSON of another shape: the fetcher raises, and what it gathered is lost.
Raise(p) ==
  /\ pc[p] \in {"token", "ask"} /\ ~Untimed(Source(p))
  /\ pc[p] = "token" => {"client", "agent"} \subseteq setup
  /\ raised' = [raised EXCEPT ![p] = @ \union {Source(p)}]
  /\ posts' = [posts EXCEPT ![p] = <<>>]
  /\ FirstRequest(p)
  /\ Goto(p, "store")
  /\ UNCHANGED <<rows, setup, story, ticker, source, mode, served, gaveUp>>

-----------------------------------------------------------------------------
(* What the fetcher returned is stored, and the next one asked.             *)

StorePost(p) ==
  /\ pc[p] = "store" /\ posts[p] # <<>>
  /\ LET row == Row(ticker[p], Source(p), Head(posts[p]))
     IN rows' = IF IsStored(row) THEN rows ELSE rows \union {row}
  /\ posts' = [posts EXCEPT ![p] = Tail(@)]
  /\ UNCHANGED <<setup, pc, story, ticker, source, mode, request, history>>

NextSource(p) ==
  /\ pc[p] = "store" /\ posts[p] = <<>>
  /\ IF source[p] = Len(Fetchers) THEN Goto(p, "done") /\ UNCHANGED source
     ELSE Goto(p, "ask") /\ source' = [source EXCEPT ![p] = @ + 1]
  /\ FirstRequest(p)
  /\ UNCHANGED <<rows, setup, story, ticker, mode, posts, history>>

Step(p) ==
  \/ TakeSymbol(p) \/ EndRun(p) \/ EndStory(p)
  \/ AskToken(p) \/ Served(p) \/ Retry(p) \/ Waited(p) \/ GiveUp(p) \/ Raise(p)
  \/ StorePost(p) \/ NextSource(p)

Next ==
  \E p \in Processes :
    \/ \E t \in Tickers : BeginPeriodic(p, t)
    \/ \E child \in Stories, symbols \in Symbols : HandleNews(p, child, symbols)
    \/ Step(p) \/ Crash(p)

\* Nothing of its own ends the step of p: a request without a timeout, or a pause
\* that the server has told it to make, which has no upper bound.
AtMercy(p) == (pc[p] = "ask" /\ Untimed(Source(p))) \/ pc[p] = "told"

\* A process that is at work goes on, unless a server keeps it; servers may also
\* fail for ever.
Fairness == \A p \in Processes : WF_vars(~AtMercy(p) /\ Step(p))

Spec == Init /\ [][Next]_vars /\ Fairness

-----------------------------------------------------------------------------
(* The feeds.                                                               *)

Newest(S) == CHOOSE x \in S : \A y \in S : y.at <= x.at

\* Newest first, those posted at the same time in any order.
Listed(of) ==
  LET listed[S \in SUBSET of] ==
        IF S = {} THEN <<>> ELSE <<Newest(S)>> \o listed[S \ {Newest(S)}]
  IN listed[of]

Candidates(of) ==
  LET listed == Listed(of)
  IN SubSeq(listed, 1, IF Len(listed) < GLOBAL_CANDIDATE_LIMIT THEN Len(listed)
                       ELSE GLOBAL_CANDIDATE_LIMIT)

\* _is_quality_feed_post.
Eligible(row) == row.source = "news_google" => Relevant(row)

\* _limited_quality_feed.
LimitedFeed(of) ==
  FoldLeft(LAMBDA chosen, row : IF Eligible(row) /\ Len(chosen) < FEED_LIMIT
                                THEN Append(chosen, row) ELSE chosen,
           <<>>, Candidates(of))

\* Mutant: source_counts and ticker_counts also count what was passed over.
CountedAll(chosen, seen) == seen

Counted(chosen, seen) == chosen

HowMany(list, Is(_)) == Cardinality({i \in DOMAIN list : Is(list[i])})

Fits(counted, row) ==
  /\ HowMany(counted, LAMBDA x : x.source = row.source) < GLOBAL_MAX_PER_SOURCE
  /\ HowMany(counted, LAMBDA x : x.ticker = row.ticker) < GLOBAL_MAX_PER_TICKER

\* _diversified_global_feed: one turn of the loop, and all of them.
Consider(acc, row) ==
  IF ~Eligible(row) \/ Len(acc.chosen) >= FEED_LIMIT THEN acc
  ELSE [chosen |-> IF Fits(Counted(acc.chosen, acc.seen), row) THEN Append(acc.chosen, row)
                   ELSE acc.chosen,
        seen   |-> Append(acc.seen, row)]

DiversifiedFeed(of) == FoldLeft(Consider, [chosen |-> <<>>, seen |-> <<>>], Candidates(of)).chosen

-----------------------------------------------------------------------------
(* Properties.                                                              *)

\* The type of every variable; no place is asked more often than request_json
\* may, and no more pages of it.
TypeOK ==
  /\ setup \subseteq {"client", "agent"}
  /\ pc \in [Processes -> {"idle", "symbol", "token", "ask", "told", "wait", "store", "done"}]
  /\ ticker \in [Processes -> Tickers \union {None}]
  /\ source \in [Processes -> 1..Len(Fetchers)]
  /\ mode \in [Processes -> {"oauth", "public", "none"}]
  /\ \A p \in Processes :
       /\ story[p] = None \/ story[p].child \in Stories
       /\ pc[p] \in {"token", "ask", "told", "wait", "store", "done"} => ticker[p] # None
       /\ pc[p] \in {"ask", "told", "wait"} => place[p] \in DOMAIN Places(p)
       /\ page[p] \in 1..MaxPages /\ tries[p] \in 0..Retries
       /\ pc[p] \in {"ask", "told", "wait"} => tries[p] <= RetriesOf(p) /\ page[p] <= PagesOf(Source(p), mode[p])
       /\ ToSet(posts[p]) \subseteq Children

PagesRead(p, at) == {x[2] : x \in {y \in served[p] : y[1] = at}}

\* A run that is through has read every place of every source from its first
\* page on, without a gap, up to the last page or the limit, or until requests
\* for the next page failed for good; and it has stored every good post of these
\* pages.  A fetcher that raised lost its own posts and nobody else's.
NothingSkipped ==
  \A p \in Processes : pc[p] = "done" =>
    \A s \in ToSet(Fetchers) \ raised[p] : \A at \in ToSet(PlacesOf(s, mode[p])) :
      LET n    == Cardinality(PagesRead(p, at))
          last == IF Len(Pages[at]) < PagesOf(s, mode[p]) THEN Len(Pages[at]) ELSE PagesOf(s, mode[p])
      IN /\ PagesRead(p, at) = 1..n
         /\ n = last \/ at \in gaveUp[p]
         /\ \A i \in 1..n : \A c \in ToSet(Parsed(s, Pages[at][i])) :
              Worth(c) => IsStored(Row(ticker[p], s, c))

\* Every run and every story comes to an end whatever the servers answer, unless
\* one of them keeps the process for ever with a single request or pause: it is
\* never kept by turns, asking and being sent away again.
RunsEnd ==
  \A p \in Processes : (pc[p] # "idle" ~> pc[p] = "idle") \/ <>[]AtMercy(p)

\* The global feed keeps its shares per source and per ticker, and leaves out a
\* candidate only if newer posts have used up its source's or its ticker's share
\* or filled the feed.  A feed for one ticker is its newest eligible posts: what
\* is on it has too few newer ones to be pushed out, what is not has too many that
\* are at least as new.
FeedsBalanced ==
  LET candidates == Candidates(rows)
      feed       == ToSet(DiversifiedFeed(rows))
      Share(upto, Is(_)) == Cardinality({i \in 1..upto : candidates[i] \in feed /\ Is(candidates[i])})
      Full(upto, x) == \/ Share(upto, LAMBDA y : y.source = x.source) >= GLOBAL_MAX_PER_SOURCE
                       \/ Share(upto, LAMBDA y : y.ticker = x.ticker) >= GLOBAL_MAX_PER_TICKER
                       \/ Share(upto, LAMBDA y : TRUE) >= FEED_LIMIT
  IN /\ feed \subseteq ToSet(candidates)
     /\ \A i \in DOMAIN candidates :
          candidates[i] \in feed <=> Eligible(candidates[i]) /\ ~Full(i - 1, candidates[i])
     /\ \A t \in Tickers :
          LET own == {x \in rows : x.ticker = t}
          IN \A x \in {y \in ToSet(Candidates(own)) : Eligible(y)} :
               IF x \in ToSet(LimitedFeed(own))
               THEN Cardinality({y \in own : Eligible(y) /\ y.at > x.at}) < FEED_LIMIT
               ELSE Cardinality({y \in own \ {x} : Eligible(y) /\ y.at >= x.at}) >= FEED_LIMIT

================================================================================
