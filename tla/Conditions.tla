------------------------------- MODULE Conditions -------------------------------
(***************************************************************************)
(* What a strategy condition is compared with, and how                      *)
(* (apps/strategies/engine.py): the context of an event, built from its     *)
(* payload and the stored prices, and the comparison of one of its fields.  *)
(*                                                                          *)
(* A number is a fraction, a text a string, None what could not be          *)
(* computed.  The value of a condition is [number, text], its number None   *)
(* if it does not parse as one.                                             *)
(***************************************************************************)
EXTENDS Indicators

CONSTANTS SMA_PERIOD,   \* of sma_20, of the bands and of the volumes before
          EMA_PERIOD, RSI_PERIOD, MACD_FAST, MACD_SLOW, MACD_SIGNAL,
          PartOf        \* <<part, text>>: what text is part of what other

NUMERIC_FIELDS ==
  {"sentiment_score", "rsi", "sma_20", "ema_50", "volume_change", "bollinger_position", "price"}
ENUM_FIELDS == {"signal", "alert_type", "mood", "macd_signal"}

mood_from_sentiment(s) ==
  IF s = None THEN None
  ELSE IF AtMost(<<75, 100>>, s) THEN "euphoric"
  ELSE IF AtMost(<<20, 100>>, s) THEN "bullish"
  ELSE IF AtMost(s, <<-75, 100>>) THEN "panic"
  ELSE IF AtMost(s, <<-20, 100>>) THEN "bearish"
  ELSE "uncertain"

\* The newest volume against the average of those before it.
VolumeChange(volumes) ==
  LET before   == SubSeq(volumes, 1, Len(volumes) - 1)
      baseline == Average(Newest(before, IF Len(before) < SMA_PERIOD THEN Len(before) ELSE SMA_PERIOD))
  IN IF Len(volumes) < 2 THEN None
     ELSE IF baseline[1] = 0 THEN None
     ELSE Over(Minus(Last(volumes), baseline), baseline)

\* How far the price is from the middle of bands four deviations wide, as a part
\* of their width: the signed square of it.
BollingerPosition(closes) ==
  LET bands == bollinger_bands(closes, SMA_PERIOD)
  IN IF bands = None THEN None
     ELSE IF bands.variance[1] = 0 THEN None
     ELSE Over(SignedSquare(Minus(Last(closes), bands.middle)), Times(Whole(16), bands.variance))

MacdSignal(closes) ==
  LET result    == macd(closes, MACD_FAST, MACD_SLOW, MACD_SIGNAL)
      histogram == Minus(result.macd, result.signal)
  IN IF result = None THEN None
     ELSE IF histogram[1] > 0 THEN "bullish"
     ELSE IF histogram[1] < 0 THEN "bearish" ELSE "neutral"

\* The payload's own price goes before the stored one.
build_evaluation_context(payload, closes, volumes) ==
  LET stored(value) == IF closes = <<>> THEN None ELSE value
  IN [sentiment_score    |-> payload.sentiment,
      mood               |-> mood_from_sentiment(payload.sentiment),
      signal             |-> payload.signal,
      alert_type         |-> payload.alert_type,
      price              |-> IF payload.price # None THEN payload.price ELSE stored(Last(closes)),
      sma_20             |-> stored(sma(closes, SMA_PERIOD)),
      ema_50             |-> stored(ema(closes, EMA_PERIOD)),
      rsi                |-> stored(rsi(closes, RSI_PERIOD)),
      volume_change      |-> stored(VolumeChange(volumes)),
      bollinger_position |-> stored(BollingerPosition(closes)),
      macd_signal        |-> stored(MacdSignal(closes))]

\* A band position is 1/2 in the middle, and kept as above.
Expected(field, number) ==
  IF field = "bollinger_position" THEN SignedSquare(Minus(number, <<1, 2>>)) ELSE number

CompareNumbers(left, operator, right) ==
  CASE operator = "gt"  -> ~AtMost(left, right)
    [] operator = "lt"  -> ~AtMost(right, left)
    [] operator = "gte" -> AtMost(right, left)
    [] operator = "lte" -> AtMost(left, right)
    [] operator = "eq"  -> AtMost(left, right) /\ AtMost(right, left)
    [] operator = "neq" -> ~(AtMost(left, right) /\ AtMost(right, left))
    [] OTHER            -> FALSE

CompareTexts(left, operator, right) ==
  \/ operator = "eq" /\ left = right
  \/ operator = "neq" /\ left # right
  \/ operator = "contains" /\ (left = right \/ <<right, left>> \in PartOf)

\* A text that has to be a number for its operator does not parse as one.
compare(actual, operator, value, field) ==
  /\ actual # None
  /\ IF field \in NUMERIC_FIELDS
       THEN value.number # None /\ CompareNumbers(actual, operator, Expected(field, value.number))
       ELSE operator \notin {"gt", "lt", "gte", "lte"} /\ CompareTexts(actual, operator, value.text)

=================================================================================
