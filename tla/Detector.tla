-------------------------------- MODULE Detector --------------------------------
(***************************************************************************)
(* When detect_pump_pattern (apps/intelligence/detector.py) suspects a pump *)
(* of a ticker: the volume of its newest bar against those of the bars      *)
(* before, the swing of the sentiment in an hour, and its consistency.  The *)
(* three weights of the score are 1, their default; nobody passes others.   *)
(***************************************************************************)
EXTENDS Fractions

CONSTANTS PUMP_SCORE_THRESHOLD, MIN_BASELINE_SAMPLES, MIN_POST_COUNT

\* The signed square of z.
compute_volume_z(current, baseline) ==
  LET volumes == [i \in DOMAIN baseline |-> Whole(baseline[i])]
      above   == SignedSquare(Minus(Whole(current), Average(volumes)))
  IN IF Variance(volumes)[1] = 0 THEN Whole(0) ELSE Over(above, Variance(volumes))

Magnitude(x) == IF x < 0 THEN -x ELSE x

\* compute_pump_score is above its threshold: z + |swing| - consistency is.
ScoreExceeds(z, swing, consistency) ==
  ~AtMost(z, SignedSquare(Whole(PUMP_SCORE_THRESHOLD - Magnitude(swing) + consistency)))

detect_pump_pattern(current, baseline, swing, consistency, post_count) ==
  /\ Len(baseline) >= MIN_BASELINE_SAMPLES
  /\ post_count >= MIN_POST_COUNT
  /\ ScoreExceeds(compute_volume_z(current, baseline), swing, consistency)

=================================================================================
