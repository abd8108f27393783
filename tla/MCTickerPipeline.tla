---------------------------- MODULE MCTickerPipeline ----------------------------
(* TickerPipeline with one Celery worker and one news stream.  The readings *)
(* are one for each kind of outcome: a confirmed signal, an extreme         *)
(* divergence, a moderate one, and a spike.                                 *)
EXTENDS TickerPipeline

Reading(raw, momentum, spike) == [raw |-> raw, momentum |-> momentum, spike |-> spike]

MCReadings == {
  Reading(30, 20, FALSE), Reading(30, -30, FALSE),
  Reading(-20, 40, FALSE), Reading(32, 10, TRUE) }

=================================================================================
