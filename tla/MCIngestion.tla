------------------------------ MODULE MCIngestion ------------------------------
(* Ingestion with one process, by turns a task worker and a news stream, two *)
(* subreddits of which the first has more pages than a fetcher reads and the *)
(* second as many, and posts of every kind.                                  *)
EXTENDS Ingestion

C(id, kind) == [id |-> id, at |-> id, kind |-> kind]

MCSubreddits == <<"stocks", "options">>
MCPublic     == <<"stocks", "options">>
MCSources    == <<"stocktwits", "news_alpaca", "news_google">>

MCPages ==
  [stocks      |-> << <<C(1, "broken")>>, <<C(2, "good")>>, <<C(3, "good")>> >>,
   options     |-> << <<C(4, "good")>>, <<C(5, "poor")>> >>,
   stocktwits  |-> << <<C(6, "poor")>> >>,
   news_alpaca |-> << <<C(7, "good")>> >>,
   news_google |-> << <<C(8, "foreign"), C(9, "good")>> >>]

MCSymbols == {<<"tesla", "apple", "unknown">>}

MCStoredBefore ==
  {{[ticker |-> "apple", source |-> "news_google", id |-> 22, at |-> 12, kind |-> "foreign"],
    [ticker |-> "tesla", source |-> "stocktwits", id |-> 20, at |-> 5, kind |-> "good"],
    [ticker |-> "tesla", source |-> "stocktwits", id |-> 21, at |-> 2, kind |-> "good"]}}

================================================================================
