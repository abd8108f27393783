------------------------------ MODULE MCStrategies ------------------------------
(* Strategies with two stored rules and a new one.  The requests edit, give *)
(* no conditions, activate, toggle, delete and create; the lists tell the   *)
(* connectives and their order apart, some hold a value of nan, and those   *)
(* of two edits mix when they are written beside each other.                *)
EXTENDS Strategies

CONSTANTS s1, s2, s3

If(order, holds) == [order |-> order, op |-> "AND", holds |-> holds, raises |-> FALSE]
Or(order, holds) == [order |-> order, op |-> "OR", holds |-> holds, raises |-> FALSE]
Nan(order)       == [order |-> order, op |-> "AND", holds |-> FALSE, raises |-> TRUE]

MCRules  == {s1, s2, s3}
MCStored == {s1, s2}
MCConditions == {<<>>, <<If(1, TRUE), Or(2, FALSE), If(3, FALSE)>>, <<If(1, TRUE), Nan(2)>>}

Wish(kind, rule, on, list, n) ==
  [kind |-> kind, rule |-> rule, active |-> on, conditions |-> list, actions |-> n]

MCWishes == {
  Wish("edit", s1, Unsaid, <<If(1, FALSE), Or(2, TRUE)>>, 1),
  Wish("edit", s1, Unsaid, <<If(1, TRUE), Nan(3)>>, Unsaid),
  Wish("edit", s1, Unsaid, <<>>, Unsaid),
  Wish("edit", s1, "on", Unsaid, Unsaid),
  Wish("edit", s1, "off", Unsaid, 0),
  Wish("toggle", s1, Unsaid, Unsaid, Unsaid),
  Wish("toggle", s2, "on", Unsaid, Unsaid),
  Wish("delete", s1, Unsaid, Unsaid, Unsaid),
  Wish("create", s3, "on", <<If(1, TRUE), If(2, FALSE)>>, 1) }

=================================================================================
