---------------------------- MODULE StrategiesProofs ----------------------------
(***************************************************************************)
(* While rules are written row by row and deleted: no rule that an event    *)
(* has read is passed over, no row outlives its rule, one of the edits of a *)
(* rule is kept whole, conditions are read in their order, and a rule acts  *)
(* exactly when they say so from left to right.  For any rules, requests    *)
(* and events.                                                              *)
(***************************************************************************)
EXTENDS Strategies, WellFoundedInduction, TLAPS

Places == {"received", "valid", "saved", "conditions", "actions", "loaded", "checked", "ok",
           "refused", "failed"}
Stages == {"raised", "rules", "conditions", "evaluating", "done", "failed"}

\* Where requests and events are, and which rules there are.
PlacesOK ==
  /\ rules \subseteq Rules
  /\ pc \in [Requests -> Places] /\ wish \in [Requests -> Wishes]
  /\ stage \in [Events -> Stages]
  /\ read \in [Events -> SUBSET Rules] /\ batch \in [Events -> SUBSET Rules]

\* What an event has read and no longer before it is recorded, or deleted.
Recorded(e) ==
  \A s \in (read[e] \ batch[e]) \ DeletedRules : \E x \in executions : x.event = e /\ x.rule = s

SkipInv ==
  /\ PlacesOK
  /\ \A e \in Events : Recorded(e) /\ (stage[e] = "done" => batch[e] = {})

LEMMA RulesOfWishes == ASSUME PlacesOK, NEW r \in Requests PROVE Rule(r) \in Rules
BY WishesAssumption DEF PlacesOK, Rule

\* A request leaves the events alone, and what it asked for.
LEMMA ServeLeaves ==
  ASSUME NEW r \in Requests, Serve(r)
  PROVE  UNCHANGED <<wish, events>>
BY DEF Serve, Validate, Refuse, SaveRule, ClearConditions, CreateCondition, ClearActions,
       CreateAction, Saved, RowRefused, LoadRule, CheckRule, SaveActive, Delete, Answer

LEMMA ServeGoesOn ==
  ASSUME PlacesOK, NEW r \in Requests, Serve(r)
  PROVE  pc[r] # "ok" /\ \E place \in Places : pc' = [pc EXCEPT ![r] = place]
<1>1. CASE Validate(r) \/ SaveRule(r) \/ ClearConditions(r) \/ ClearActions(r) \/ LoadRule(r) \/ Delete(r)
  BY <1>1 DEF Validate, SaveRule, ClearConditions, ClearActions, LoadRule, Delete, Goto, Places
<1>2. CASE CreateCondition(r) \/ CreateAction(r)
  BY <1>2 DEF CreateCondition, CreateAction, PlacesOK, Places
<1>3. CASE Refuse(r) \/ Saved(r) \/ RowRefused(r) \/ CheckRule(r) \/ SaveActive(r)
  BY <1>3 DEF Refuse, Saved, RowRefused, CheckRule, SaveActive, Answer, Goto, Places
<1>. QED BY <1>1, <1>2, <1>3 DEF Serve

LEMMA ServeKeepsRules ==
  ASSUME PlacesOK, NEW r \in Requests, Serve(r)
  PROVE  rules' \subseteq Rules
<1>1. Rule(r) \in Rules
  BY RulesOfWishes
<1>2. rules' \in {rules, rules \union {Rule(r)}, rules \ {Rule(r)}}
  BY DEF Serve, Validate, Refuse, SaveRule, ClearConditions, CreateCondition, ClearActions,
         CreateAction, Saved, RowRefused, LoadRule, CheckRule, SaveActive, Delete, Answer, tables
<1>. QED BY <1>1, <1>2 DEF PlacesOK

\* Executions go only with their rule, which is then a deleted one.
LEMMA ServeKeepsRecorded ==
  ASSUME PlacesOK, NEW r \in Requests, Serve(r), NEW e \in Events, Recorded(e)
  PROVE  Recorded(e)'
<1>1. \E place \in Places : pc' = [pc EXCEPT ![r] = place] /\ pc[r] # "ok"
  BY ServeGoesOn
<1>2. UNCHANGED <<wish, read, batch>>
  BY ServeLeaves DEF events
<1>3. DeletedRules \subseteq DeletedRules'
  BY <1>1, <1>2 DEF DeletedRules, Rule, PlacesOK
<1>4. CASE Delete(r)
  <2>1. Rule(r) \in DeletedRules'
    BY <1>2, <1>4 DEF Delete, Goto, DeletedRules, Rule, PlacesOK
  <2>. QED BY <1>2, <1>3, <1>4, <2>1 DEF Recorded, Delete
<1>5. CASE ~Delete(r)
  <2>1. executions' = executions
    BY <1>5 DEF Serve, Validate, Refuse, SaveRule, ClearConditions, CreateCondition, ClearActions,
                CreateAction, Saved, RowRefused, LoadRule, CheckRule, SaveActive, Answer
  <2>. QED BY <1>2, <1>3, <2>1 DEF Recorded
<1>. QED BY <1>4, <1>5

LEMMA ServeKeepsSkipInv ==
  ASSUME SkipInv, NEW r \in Requests, Serve(r)
  PROVE  SkipInv'
<1>1. UNCHANGED <<wish, stage, read, batch>>
  BY ServeLeaves DEF events
<1>2. PlacesOK'
  BY <1>1, ServeGoesOn, ServeKeepsRules DEF SkipInv, PlacesOK
<1>3. \A e \in Events : Recorded(e)'
  BY ServeKeepsRecorded DEF SkipInv
<1>. QED BY <1>1, <1>2, <1>3 DEF SkipInv

\* An event leaves requests and rules alone, and no execution is lost by it.
LEMMA EvaluateLeaves ==
  ASSUME NEW e \in Events, Evaluate(e)
  PROVE  UNCHANGED <<rules, pc, wish>> /\ executions \subseteq executions'
BY DEF Evaluate, ReadRules, ReadConditions, ReadActions, EvaluateRule, EvaluationFails,
       EvaluationEnds, tables, requests

LEMMA EvaluateKeepsSkipInv ==
  ASSUME SkipInv, NEW e \in Events, Evaluate(e)
  PROVE  SkipInv'
<1>1. UNCHANGED <<rules, pc, wish>> /\ executions \subseteq executions' /\ DeletedRules' = DeletedRules
  BY EvaluateLeaves DEF DeletedRules, Rule
<1>2. CASE ReadRules(e)
  <2>1. \E found \in SUBSET Rules :
          read' = [read EXCEPT ![e] = found] /\ batch' = [batch EXCEPT ![e] = found]
    BY <1>2 DEF ReadRules, SkipInv, PlacesOK
  <2>2. stage' = [stage EXCEPT ![e] = "rules"]
    BY <1>2 DEF ReadRules, Advance
  <2>. QED BY <1>1, <2>1, <2>2 DEF SkipInv, PlacesOK, Recorded, Stages
<1>3. CASE ReadConditions(e) \/ ReadActions(e) \/ EvaluationEnds(e)
  <2>1. UNCHANGED <<read, batch>>
    BY <1>3 DEF ReadConditions, ReadActions, EvaluationEnds
  <2>2. \E to \in Stages : /\ stage' = [stage EXCEPT ![e] = to]
                           /\ to = "done" => batch[e] = {}
    BY <1>3 DEF ReadConditions, ReadActions, EvaluationEnds, Advance, Stages
  <2>. QED BY <1>1, <2>1, <2>2 DEF SkipInv, PlacesOK, Recorded
<1>4. ASSUME NEW s \in Rules, EvaluateRule(e, s) PROVE SkipInv'
  <2>1. batch' = [batch EXCEPT ![e] = @ \ {s}] /\ UNCHANGED <<read, stage>>
    BY <1>4 DEF EvaluateRule
  <2>2. \E x \in executions' : x.event = e /\ x.rule = s
    <3>1. PICK success \in BOOLEAN :
            executions' = executions \union
              {[event |-> e, rule |-> s, conditions |-> readConditions[e][s],
                actions |-> readActions[e][s], success |-> success,
                acted |-> success /\ Matches(readConditions[e][s]) /\ readActions[e][s] > 0]}
      BY <1>4, Zenon DEF EvaluateRule
    <3>. DEFINE acted == success /\ Matches(readConditions[e][s]) /\ readActions[e][s] > 0
                x == [event |-> e, rule |-> s, conditions |-> readConditions[e][s],
                      actions |-> readActions[e][s], success |-> success, acted |-> acted]
    <3>2. x \in executions'
      BY <3>1
    <3>. HIDE DEF acted
    <3>3. x.event = e /\ x.rule = s
      OBVIOUS
    <3>. QED BY <3>2, <3>3
  <2>3. PlacesOK'
    BY <1>1, <2>1 DEF SkipInv, PlacesOK
  <2>4. ASSUME NEW f \in Events PROVE Recorded(f)'
    <3>1. read'[f] \ batch'[f] \subseteq (read[f] \ batch[f]) \union (IF f = e THEN {s} ELSE {})
      BY <2>1 DEF SkipInv, PlacesOK
    <3>. QED BY <1>1, <2>2, <3>1 DEF SkipInv, Recorded
  <2>. QED BY <2>1, <2>3, <2>4 DEF SkipInv, PlacesOK
<1>5. ASSUME NEW s \in Rules, EvaluationFails(e, s) PROVE SkipInv'
  <2>1. stage' = [stage EXCEPT ![e] = "failed"] /\ UNCHANGED <<read, batch>>
    BY <1>5 DEF EvaluationFails, Advance, AfterError
  <2>. QED BY <1>1, <2>1 DEF SkipInv, PlacesOK, Recorded, Stages
<1>. QED BY <1>2, <1>3, <1>4, <1>5 DEF Evaluate

LEMMA NextKeepsSkipInv == SkipInv /\ [Next]_vars => SkipInv'
<1>. SUFFICES ASSUME SkipInv, [Next]_vars PROVE SkipInv'
  OBVIOUS
<1>1. CASE UNCHANGED vars
  BY <1>1 DEF vars, tables, requests, events, SkipInv, PlacesOK, Recorded, DeletedRules, Rule
<1>. QED BY <1>1, ServeKeepsSkipInv, EvaluateKeepsSkipInv DEF Next

\* An event evaluated without an error has recorded every rule it read, unless the
\* rule was deleted: rules deleted, edited or stored meanwhile cannot hide another.
THEOREM NothingPassedOver == SafeSpec => []NoRuleSkipped
<1>1. Init => SkipInv
  BY StoredAssumption DEF Init, SkipInv, PlacesOK, Recorded, Places, Stages
<1>2. SkipInv /\ [Next]_vars => SkipInv'
  BY NextKeepsSkipInv
<1>3. SkipInv => NoRuleSkipped
  BY DEF SkipInv, Recorded, NoRuleSkipped
<1>. QED BY <1>1, <1>2, <1>3, PTL DEF SafeSpec

-----------------------------------------------------------------------------

\* The foreign keys: no condition and no action of a rule that is not there, and
\* no execution of one.
RowsHaveRules ==
  /\ \A s \in Rules \ rules : conditions[s] = <<>> /\ actions[s] = 0
  /\ \A x \in executions : x.rule \in rules

RowInv ==
  /\ PlacesOK
  /\ conditions = [s \in Rules |-> conditions[s]] /\ actions = [s \in Rules |-> actions[s]]
  /\ RowsHaveRules

LEMMA ServeKeepsRows ==
  ASSUME RowInv, NEW r \in Requests, Serve(r)
  PROVE  RowInv' \/ ~PlacesOK'
<1>. SUFFICES ASSUME PlacesOK' PROVE RowInv'
  OBVIOUS
<1>1. Rule(r) \in Rules
  BY RulesOfWishes DEF RowInv
<1>2. CASE Validate(r) \/ LoadRule(r)
  BY <1>2 DEF Validate, LoadRule, tables, RowInv, RowsHaveRules
<1>3. CASE Refuse(r) \/ Saved(r) \/ RowRefused(r) \/ CheckRule(r)
  BY <1>3 DEF Refuse, Saved, RowRefused, CheckRule, Answer, tables, RowInv, RowsHaveRules
<1>4. CASE SaveActive(r)
  BY <1>4 DEF SaveActive, Answer, tables, RowInv, RowsHaveRules
<1>5. CASE SaveRule(r)
  BY <1>1, <1>5 DEF SaveRule, RowInv, RowsHaveRules
<1>6. CASE ClearConditions(r)
  BY <1>1, <1>6 DEF ClearConditions, RowInv, RowsHaveRules
<1>7. CASE ClearActions(r)
  BY <1>1, <1>7 DEF ClearActions, RowInv, RowsHaveRules
<1>8. CASE CreateCondition(r)
  BY <1>1, <1>8 DEF CreateCondition, RuleExists, RowInv, RowsHaveRules
<1>9. CASE CreateAction(r)
  BY <1>1, <1>9 DEF CreateAction, RuleExists, RowInv, RowsHaveRules
<1>10. CASE Delete(r)
  BY <1>1, <1>10 DEF Delete, RowInv, RowsHaveRules
<1>. QED BY <1>2, <1>3, <1>4, <1>5, <1>6, <1>7, <1>8, <1>9, <1>10 DEF Serve

LEMMA EvaluateKeepsRows ==
  ASSUME RowInv, NEW e \in Events, Evaluate(e)
  PROVE  RowsHaveRules' /\ UNCHANGED <<conditions, actions>>
<1>1. UNCHANGED <<rules, conditions, actions>>
  BY DEF Evaluate, ReadRules, ReadConditions, ReadActions, EvaluateRule, EvaluationFails,
         EvaluationEnds, tables
<1>2. \A x \in executions' : x \in executions \/ x.rule \in rules
  BY DEF Evaluate, ReadRules, ReadConditions, ReadActions, EvaluateRule, EvaluationFails,
         EvaluationEnds
<1>. QED BY <1>1, <1>2 DEF RowInv, RowsHaveRules

LEMMA NextKeepsRowInv == SkipInv /\ RowInv /\ [Next]_vars => SkipInv' /\ RowInv'
<1>. SUFFICES ASSUME SkipInv, RowInv, [Next]_vars PROVE RowInv' /\ SkipInv'
  OBVIOUS
<1>1. SkipInv' /\ PlacesOK'
  BY NextKeepsSkipInv DEF SkipInv
<1>2. CASE UNCHANGED vars
  BY <1>1, <1>2 DEF vars, tables, RowInv, RowsHaveRules
<1>3. CASE \E r \in Requests : Serve(r)
  BY <1>1, <1>3, ServeKeepsRows
<1>4. CASE \E e \in Events : Evaluate(e)
  BY <1>1, <1>4, EvaluateKeepsRows DEF RowInv
<1>. QED BY <1>1, <1>2, <1>3, <1>4 DEF Next

\* Whatever requests delete while others write conditions and actions, no row and
\* no execution is left of a rule that is gone (part of TypeOK).
THEOREM NoOrphans == SafeSpec => []RowsHaveRules
<1>1. Init => SkipInv /\ RowInv
  BY StoredAssumption DEF Init, SkipInv, RowInv, RowsHaveRules, PlacesOK, Recorded, Places, Stages
<1>2. SkipInv /\ RowInv /\ [Next]_vars => SkipInv' /\ RowInv'
  BY NextKeepsRowInv
<1>3. RowInv => RowsHaveRules
  BY DEF RowInv
<1>. QED BY <1>1, <1>2, <1>3, PTL DEF SafeSpec

-----------------------------------------------------------------------------
(* What a list of conditions says.                                          *)

\* A set of naturals that is not empty has a least member.
LEMMA Least ==
  ASSUME NEW S, S \subseteq Nat, S # {}
  PROVE  \E least \in S : \A x \in S : least <= x
<1>. DEFINE Below == {pair \in Nat \X Nat : pair[1] < pair[2]}
<1>1. IsWellFoundedOn(Below, Nat)
  BY NatLessThanWellFounded DEF OpToRel
<1>2. PICK least \in S : \A x \in S : ~(<<x, least>> \in Below)
  <2>. HIDE DEF Below
  <2>. QED BY <1>1, WFMin
<1>3. \A x, y \in Nat : x < y => <<x, y>> \in Below
  OBVIOUS
<1>. HIDE DEF Below
<1>4. \A x \in S : ~(x < least)
  BY <1>2, <1>3
<1>. QED BY <1>2, <1>4

\* Of the first k conditions the i-th decides: it is the first or after an OR, and
\* holds with every AND after it.
Decides(list, i, k) ==
  /\ i = 1 \/ list[i].op = "OR"
  /\ \A j \in i..k : (j = i \/ list[j].op = "AND") => list[j].holds

\* A function that evaluates a list from left to right.
Evaluates(f, list) ==
  \A i \in 1..Len(list) :
    f[i] = IF i = 1 THEN list[1].holds
           ELSE IF list[i].op = "OR" THEN f[i - 1] \/ list[i].holds
           ELSE f[i - 1] /\ list[i].holds

LEMMA ConditionsOf ==
  ASSUME NEW list \in Seq(Condition)
  PROVE  \A i \in 1..Len(list) : list[i].op \in {"AND", "OR"} /\ list[i].holds \in BOOLEAN
<1>1. \A i \in 1..Len(list) : list[i] \in Condition
  OBVIOUS
<1>. QED BY <1>1 DEF Condition

\* One more condition: after an AND whatever decided goes on if it holds too, and
\* after an OR it may decide by itself.
LEMMA DecidesStep ==
  ASSUME NEW list \in Seq(Condition), NEW k \in 2..Len(list)
  PROVE  (\E i \in 1..k : Decides(list, i, k)) <=>
           IF list[k].op = "OR" THEN (\E i \in 1..(k - 1) : Decides(list, i, k - 1)) \/ list[k].holds
           ELSE (\E i \in 1..(k - 1) : Decides(list, i, k - 1)) /\ list[k].holds
<1>1. k \in 1..Len(list) /\ k - 1 \in 1..Len(list) /\ k \in Nat
  OBVIOUS
<1>2. list[k].op \in {"AND", "OR"}
  BY <1>1, ConditionsOf
<1>3. ASSUME NEW i \in 1..(k - 1)
      PROVE  Decides(list, i, k) <=> Decides(list, i, k - 1) /\ (list[k].op = "AND" => list[k].holds)
  <2>1. i..k = (i..(k - 1)) \union {k} /\ k # i
    OBVIOUS
  <2>. QED BY <2>1, Zenon DEF Decides
<1>4. Decides(list, k, k) <=> list[k].op = "OR" /\ list[k].holds
  <2>1. k..k = {k} /\ k # 1
    OBVIOUS
  <2>. QED BY <2>1 DEF Decides
<1>5. 1..k = (1..(k - 1)) \union {k}
  OBVIOUS
<1>6. (\E i \in 1..k : Decides(list, i, k)) <=>
        (\E i \in 1..(k - 1) : Decides(list, i, k)) \/ Decides(list, k, k)
  BY <1>5, Zenon
<1>7. CASE list[k].op = "OR"
  <2>1. list[k].op # "AND"
    BY <1>7
  <2>. QED BY <1>3, <1>4, <1>6, <1>7, <2>1, Zenon
<1>8. CASE list[k].op = "AND"
  <2>1. list[k].op # "OR"
    BY <1>8
  <2>. QED BY <1>3, <1>4, <1>6, <1>8, <2>1, Zenon
<1>. QED BY <1>2, <1>7, <1>8

\* Lists can be evaluated.
LEMMA EvaluationExists ==
  ASSUME NEW list \in Seq(Condition)
  PROVE  \E g \in [1..Len(list) -> BOOLEAN] : Evaluates(g, list)
<1>. DEFINE any(k) == \E i \in 1..k : Decides(list, i, k)
            g == [k \in 1..Len(list) |-> any(k)]
<1>1. \A k \in 1..Len(list) : any(k) \in BOOLEAN
  BY Zenon
<1>2. 1 <= Len(list) => (any(1) <=> list[1].holds)
  <2>1. 1..1 = {1}
    OBVIOUS
  <2>2. any(1) <=> Decides(list, 1, 1)
    BY <2>1, Zenon
  <2>. HIDE DEF any
  <2>3. Decides(list, 1, 1) <=> list[1].holds
    BY <2>1, Zenon DEF Decides
  <2>. QED BY <2>2, <2>3
<1>3. ASSUME NEW k \in 2..Len(list)
      PROVE  any(k) <=> IF list[k].op = "OR" THEN any(k - 1) \/ list[k].holds
                        ELSE any(k - 1) /\ list[k].holds
  BY DecidesStep
<1>4. \A k \in 1..Len(list) : list[k].holds \in BOOLEAN
  BY ConditionsOf
<1>5. g \in [1..Len(list) -> BOOLEAN]
  <2>. HIDE DEF any
  <2>. QED BY <1>1
<1>6. \A k \in 1..Len(list) : g[k] = any(k)
  <2>. HIDE DEF any
  <2>. QED OBVIOUS
<1>. HIDE DEF any, g
<1>7. ASSUME NEW k \in 1..Len(list)
      PROVE  g[k] = IF k = 1 THEN list[1].holds
                    ELSE IF list[k].op = "OR" THEN g[k - 1] \/ list[k].holds
                    ELSE g[k - 1] /\ list[k].holds
  <2>1. CASE k = 1
    BY <1>1, <1>2, <1>4, <1>6, <2>1
  <2>2. CASE k # 1
    <3>1. k \in 2..Len(list) /\ k - 1 \in 1..Len(list)
      BY <2>2
    <3>2. g[k] \in BOOLEAN /\ list[k].holds \in BOOLEAN /\ g[k] = any(k) /\ g[k - 1] = any(k - 1)
      BY <3>1, <1>4, <1>5, <1>6
    <3>3. any(k) <=> IF list[k].op = "OR" THEN any(k - 1) \/ list[k].holds
                     ELSE any(k - 1) /\ list[k].holds
      BY <3>1, <1>3
    <3>. QED BY <2>2, <3>2, <3>3
  <2>. QED BY <2>1, <2>2
<1>8. Evaluates(g, list)
  BY <1>7, Zenon DEF Evaluates
<1>. QED BY <1>5, <1>8

\* Whatever evaluates a list finds a condition that decides, or none.
LEMMA EvaluatesDecides ==
  ASSUME NEW list \in Seq(Condition), NEW f, Evaluates(f, list), NEW k \in 1..Len(list)
  PROVE  f[k] <=> \E i \in 1..k : Decides(list, i, k)
<1>. DEFINE any(n) == \E i \in 1..n : Decides(list, i, n)
            Wrong == {n \in 1..Len(list) : ~(f[n] <=> any(n))}
<1>. SUFFICES Wrong = {}
  BY Zenon
<1>. SUFFICES ASSUME Wrong # {} PROVE FALSE
  OBVIOUS
<1>1. PICK n \in Wrong : \A x \in Wrong : n <= x
  <2>1. Wrong \subseteq Nat
    OBVIOUS
  <2>. HIDE DEF Wrong
  <2>. QED BY <2>1, Least
<1>2. n \in 1..Len(list) /\ ~(f[n] <=> any(n))
  BY Zenon
<1>3. CASE n = 1
  <2>1. 1..1 = {1} /\ 1 \in 1..Len(list)
    BY <1>2, <1>3
  <2>2. any(1) <=> Decides(list, 1, 1)
    BY <2>1, Zenon
  <2>3. Decides(list, 1, 1) <=> list[1].holds
    BY <2>1, Zenon DEF Decides
  <2>4. f[1] = list[1].holds
    BY <2>1 DEF Evaluates
  <2>. HIDE DEF any
  <2>. QED BY <1>2, <1>3, <2>2, <2>3, <2>4
<1>4. CASE n # 1
  <2>1. n \in 2..Len(list) /\ n - 1 \in 1..Len(list) /\ n \in Nat /\ ~(n <= n - 1)
    BY <1>2, <1>4
  <2>2. n - 1 \notin Wrong
    BY <1>1, <2>1, Zenon
  <2>3. f[n - 1] <=> any(n - 1)
    BY <2>1, <2>2, Zenon
  <2>4. any(n) <=> IF list[n].op = "OR" THEN any(n - 1) \/ list[n].holds
                   ELSE any(n - 1) /\ list[n].holds
    BY <2>1, DecidesStep
  <2>5. f[n] = IF list[n].op = "OR" THEN f[n - 1] \/ list[n].holds
               ELSE f[n - 1] /\ list[n].holds
    BY <1>2, <1>4 DEF Evaluates
  <2>. HIDE DEF any, Wrong
  <2>6. CASE list[n].op = "OR"
    BY <1>2, <2>3, <2>4, <2>5, <2>6, Zenon
  <2>7. CASE list[n].op # "OR"
    BY <1>2, <2>3, <2>4, <2>5, <2>7, Zenon
  <2>. QED BY <2>6, <2>7
<1>. QED BY <1>3, <1>4

\* evaluate_rule goes from left to right: a list matches if one of its conditions,
\* the first or one after an OR, holds with every AND after it, whatever is between.
LEMMA MatchesLeftToRight ==
  ASSUME NEW list \in Seq(Condition)
  PROVE  Matches(list) <=> \E i \in DOMAIN list : HoldsFrom(list, i)
<1>. DEFINE F(h) == [i \in 1..Len(list) |->
                IF i = 1 THEN list[1].holds
                ELSE IF list[i].op = "OR" THEN h[i - 1] \/ list[i].holds
                ELSE h[i - 1] /\ list[i].holds]
            upTo == CHOOSE h : h = F(h)
<1>1. Matches(list) <=> list # <<>> /\ upTo[Len(list)]
  BY Zenon DEF Matches
<1>2. PICK g \in [1..Len(list) -> BOOLEAN] : Evaluates(g, list)
  BY EvaluationExists
<1>3. g = F(g)
  BY <1>2 DEF Evaluates
<1>4. upTo = F(upTo)
  <2>. HIDE DEF F
  <2>. QED BY <1>3
<1>. HIDE DEF upTo
<1>5. Evaluates(upTo, list)
  BY <1>4 DEF Evaluates
<1>. HIDE DEF F
<1>6. Len(list) \in Nat /\ DOMAIN list = 1..Len(list) /\ (list # <<>> <=> Len(list) # 0)
  OBVIOUS
<1>7. \A i : HoldsFrom(list, i) <=> Decides(list, i, Len(list))
  BY Zenon DEF HoldsFrom, Decides
<1>8. CASE Len(list) = 0
  BY <1>1, <1>6, <1>8
<1>9. CASE Len(list) # 0
  <2>1. Len(list) \in 1..Len(list)
    BY <1>6, <1>9
  <2>2. upTo[Len(list)] <=> \E i \in 1..Len(list) : Decides(list, i, Len(list))
    BY <1>5, <2>1, EvaluatesDecides
  <2>. QED BY <1>1, <1>6, <1>7, <1>9, <2>2, Zenon
<1>. QED BY <1>8, <1>9
-----------------------------------------------------------------------------
(* What rows are written.                                                   *)

\* The types of what requests and events carry; whoever saves a rule has an
\* identity for it.
Typed ==
  /\ rules \subseteq taken /\ taken \subseteq Rules
  /\ active \in [Rules -> BOOLEAN]
  /\ conditions \in [Rules -> Seq(Condition)]
  /\ actions \in [Rules -> Nat]
  /\ turnOn \in [Requests -> BOOLEAN]
  /\ todo \in [Requests -> Seq(Condition)]
  /\ todoActions \in [Requests -> Nat]
  /\ \A r \in Requests : pc[r] = "valid" => Rule(r) \in taken
  /\ \A e \in Events : batch[e] \subseteq read[e]
  /\ readConditions \in [Events -> [Rules -> Seq(Condition)]]
  /\ readActions \in [Events -> [Rules -> Nat]]

\* A row goes behind the first rows, as many as are not after it.
LEMMA InsertedAt ==
  ASSUME NEW rows \in Seq(Condition), NEW c \in Condition
  PROVE  \E n \in 0..Len(rows) :
           /\ Inserted(rows, c) = SubSeq(rows, 1, n) \o <<c>> \o SubSeq(rows, n + 1, Len(rows))
           /\ \A i \in 1..n : rows[i].order <= c.order
           /\ n < Len(rows) => rows[n + 1].order > c.order
<1>. DEFINE At(n) == /\ \A i \in 1..n : rows[i].order <= c.order
                     /\ n < Len(rows) => rows[n + 1].order > c.order
            Later == {n \in 0..Len(rows) : n < Len(rows) => rows[n + 1].order > c.order}
            place == CHOOSE n \in 0..Len(rows) : At(n)
<1>1. \E n \in 0..Len(rows) : At(n)
  <2>1. Later \subseteq Nat /\ Len(rows) \in Later
    OBVIOUS
  <2>2. PICK n \in Later : \A x \in Later : n <= x
    <3>. HIDE DEF Later
    <3>. QED BY <2>1, Least
  <2>3. ASSUME NEW i \in 1..n PROVE rows[i].order <= c.order
    <3>1. n \in Nat /\ i - 1 \in 0..Len(rows) /\ ~(n <= i - 1) /\ i - 1 < Len(rows) /\ i \in 1..Len(rows)
      BY <2>2
    <3>2. i - 1 \notin Later
      <4>. HIDE DEF Later
      <4>. QED BY <2>2, <3>1
    <3>3. ~(rows[i].order > c.order)
      BY <3>1, <3>2
    <3>4. rows[i] \in Condition
      BY <3>1
    <3>5. rows[i].order \in Nat /\ c.order \in Nat
      BY <3>4 DEF Condition
    <3>. QED BY <3>3, <3>5
  <2>. QED BY <2>2, <2>3
<1>2. place \in 0..Len(rows) /\ At(place)
  <2>. HIDE DEF At
  <2>. QED BY <1>1
<1>3. Inserted(rows, c) = SubSeq(rows, 1, place) \o <<c>> \o SubSeq(rows, place + 1, Len(rows))
  BY Zenon DEF Inserted
<1>. HIDE DEF place
<1>. QED BY <1>2, <1>3

LEMMA Joined ==
  ASSUME NEW S, NEW a \in Seq(S), NEW b \in Seq(S)
  PROVE  /\ a \o b \in Seq(S) /\ Len(a \o b) = Len(a) + Len(b)
         /\ \A i \in 1..Len(a) : (a \o b)[i] = a[i]
         /\ \A i \in 1..Len(b) : (a \o b)[Len(a) + i] = b[i]
OBVIOUS

LEMMA InsertedType ==
  ASSUME NEW rows \in Seq(Condition), NEW c \in Condition
  PROVE  Inserted(rows, c) \in Seq(Condition)
<1>1. PICK n \in 0..Len(rows) :
        Inserted(rows, c) = SubSeq(rows, 1, n) \o <<c>> \o SubSeq(rows, n + 1, Len(rows))
  BY InsertedAt
<1>2. /\ SubSeq(rows, 1, n) \in Seq(Condition) /\ <<c>> \in Seq(Condition)
      /\ SubSeq(rows, n + 1, Len(rows)) \in Seq(Condition)
  BY <1>1
<1>. QED BY <1>1, <1>2

\* Conditions by their `order'.
InOrder(list) == \A i, j \in DOMAIN list : i < j => list[i].order <= list[j].order

\* They are still in order when one more is stored.
LEMMA InsertedInOrder ==
  ASSUME NEW rows \in Seq(Condition), NEW c \in Condition, InOrder(rows)
  PROVE  InOrder(Inserted(rows, c))
<1>. DEFINE list == Inserted(rows, c)
<1>1. PICK n \in 0..Len(rows) :
        /\ list = SubSeq(rows, 1, n) \o <<c>> \o SubSeq(rows, n + 1, Len(rows))
        /\ \A i \in 1..n : rows[i].order <= c.order
        /\ n < Len(rows) => rows[n + 1].order > c.order
  BY InsertedAt
<1>. HIDE DEF list
<1>2. /\ DOMAIN list = 1..(Len(rows) + 1) /\ list[n + 1] = c
      /\ \A i \in 1..n : list[i] = rows[i]
      /\ \A i \in (n + 2)..(Len(rows) + 1) : list[i] = rows[i - 1]
  <2>. DEFINE a == SubSeq(rows, 1, n)
              b == SubSeq(rows, n + 1, Len(rows))
              d == a \o <<c>>
  <2>1. a \in Seq(Condition) /\ Len(a) = n /\ \A i \in 1..n : a[i] = rows[i]
    BY <1>1
  <2>2. /\ b \in Seq(Condition) /\ Len(b) = Len(rows) - n
        /\ \A i \in 1..(Len(rows) - n) : b[i] = rows[n + i]
    BY <1>1
  <2>. HIDE DEF a, b
  <2>3. /\ d \in Seq(Condition) /\ Len(d) = n + 1 /\ d[n + 1] = c
        /\ \A i \in 1..n : d[i] = rows[i]
    BY <2>1
  <2>4. list = d \o b
    BY <1>1 DEF a, b
  <2>. HIDE DEF d
  <2>5. /\ list \in Seq(Condition) /\ Len(list) = (n + 1) + (Len(rows) - n)
        /\ \A i \in 1..(n + 1) : list[i] = d[i]
        /\ \A i \in 1..(Len(rows) - n) : list[(n + 1) + i] = b[i]
    <3>1. /\ d \o b \in Seq(Condition) /\ Len(d \o b) = Len(d) + Len(b)
          /\ \A i \in 1..Len(d) : (d \o b)[i] = d[i]
          /\ \A i \in 1..Len(b) : (d \o b)[Len(d) + i] = b[i]
      <4>1. d \in Seq(Condition) /\ b \in Seq(Condition)
        BY <2>2, <2>3
      <4>. QED BY <4>1, Joined
    <3>. QED BY <2>2, <2>3, <2>4, <3>1
  <2>6. ASSUME NEW i \in (n + 2)..(Len(rows) + 1) PROVE list[i] = rows[i - 1]
    <3>. DEFINE k == i - (n + 1)
    <3>1. k \in 1..(Len(rows) - n) /\ (n + 1) + k = i /\ n + k = i - 1
      BY <1>1, <2>6
    <3>. HIDE DEF k
    <3>. QED BY <2>2, <2>5, <3>1
  <2>7. DOMAIN list = 1..(Len(rows) + 1)
    <3>1. DOMAIN list = 1..Len(list) /\ (n + 1) + (Len(rows) - n) = Len(rows) + 1
      BY <1>1, <2>5
    <3>. QED BY <2>5, <3>1
  <2>8. n + 1 \in 1..(n + 1) /\ \A i \in 1..n : i \in 1..(n + 1)
    BY <1>1
  <2>. QED BY <2>3, <2>5, <2>6, <2>7, <2>8
<1>3. c.order \in Nat /\ \A i \in 1..Len(rows) : rows[i].order \in Nat
  <2>1. \A i \in 1..Len(rows) : rows[i] \in Condition
    OBVIOUS
  <2>. QED BY <2>1 DEF Condition
<1>4. \A i \in (n + 1)..Len(rows) : rows[i].order > c.order
  <2>1. ASSUME NEW i \in (n + 1)..Len(rows) PROVE rows[i].order > c.order
    <3>1. /\ n + 1 \in 1..Len(rows) /\ i \in 1..Len(rows)
          /\ rows[n + 1].order > c.order
      BY <1>1
    <3>2. i = n + 1 \/ rows[n + 1].order <= rows[i].order
      BY <3>1 DEF InOrder
    <3>. QED BY <1>3, <3>1, <3>2
  <2>. QED BY <2>1
<1>5. ASSUME NEW i \in DOMAIN list, NEW j \in DOMAIN list, i < j
      PROVE  list[i].order <= list[j].order
  <2>1. CASE j <= n
    BY <1>2, <1>5, <2>1 DEF InOrder
  <2>2. CASE j = n + 1
    BY <1>1, <1>2, <1>3, <1>5, <2>2
  <2>3. CASE j > n + 1
    <3>1. j - 1 \in (n + 1)..Len(rows) /\ list[j] = rows[j - 1]
      BY <1>2, <2>3
    <3>2. CASE i = n + 1
      BY <1>2, <1>3, <1>4, <3>1, <3>2
    <3>3. CASE i <= n
      BY <1>2, <1>5, <3>1, <3>3 DEF InOrder
    <3>4. CASE i > n + 1
      <4>1. /\ i - 1 \in 1..Len(rows) /\ j - 1 \in 1..Len(rows) /\ i - 1 < j - 1
            /\ list[i] = rows[i - 1]
        BY <1>2, <1>5, <3>1, <3>4
      <4>. QED BY <3>1, <4>1 DEF InOrder
    <3>. QED BY <1>2, <3>2, <3>3, <3>4
  <2>. QED BY <1>2, <2>1, <2>2, <2>3
<1>. QED BY <1>5 DEF InOrder, list

LEMMA ServeKeepsTyped ==
  ASSUME PlacesOK, Typed, NEW r \in Requests, Serve(r)
  PROVE  Typed'
<1>1. /\ Rule(r) \in Rules
      /\ wish[r].active \in {"on", "off", Unsaid}
      /\ wish[r].conditions # Unsaid => wish[r].conditions \in Seq(Condition)
      /\ wish[r].actions # Unsaid => wish[r].actions \in Nat
  BY WishesAssumption, RulesOfWishes DEF PlacesOK
<1>2. UNCHANGED <<wish, events>> /\ \A q \in Requests : Rule(q)' = Rule(q)
  BY ServeLeaves DEF Rule
<1>3. PICK place \in Places : pc' = [pc EXCEPT ![r] = place]
  BY ServeGoesOn
<1>4. CASE Validate(r)
  <2>1. Asked(r) \in BOOLEAN
    <3>1. active[Rule(r)] \in BOOLEAN
      BY <1>1 DEF Typed
    <3>. QED BY <1>1, <3>1 DEF Asked
  <2>. QED BY <1>1, <1>2, <1>4, <2>1 DEF Validate, Goto, PlacesOK, Typed, events
<1>5. CASE Refuse(r) \/ Saved(r) \/ RowRefused(r) \/ CheckRule(r)
  <2>1. UNCHANGED <<tables, turnOn, todo, todoActions>> /\ pc' \in {[pc EXCEPT ![r] = to] : to \in Places \ {"valid"}}
    BY <1>5 DEF Refuse, Saved, RowRefused, CheckRule, Answer, Goto, Places
  <2>. QED BY <1>2, <2>1 DEF tables, PlacesOK, Typed, events
<1>6. CASE SaveActive(r)
  <2>1. UNCHANGED <<rules, taken, conditions, actions, turnOn, todo, todoActions>>
    BY <1>6 DEF SaveActive, Answer, tables
  <2>2. active' \in {active, [active EXCEPT ![Rule(r)] = turnOn[r]]}
    BY <1>6 DEF SaveActive, Answer, tables
  <2>3. pc'[r] # "valid" /\ \A q \in Requests : q # r => pc'[q] = pc[q]
    BY <1>6 DEF SaveActive, Answer, Goto, PlacesOK
  <2>4. active' \in [Rules -> BOOLEAN]
    BY <1>1, <2>2 DEF Typed
  <2>. QED BY <1>2, <2>1, <2>3, <2>4 DEF Typed, events
<1>7. CASE SaveRule(r)
  <2>1. Rule(r) \in taken
    BY <1>7 DEF SaveRule, Typed
  <2>. QED BY <1>1, <1>2, <1>7, <2>1 DEF SaveRule, Goto, PlacesOK, Typed, events
<1>8. CASE ClearConditions(r)
  BY <1>1, <1>2, <1>8 DEF ClearConditions, Goto, PlacesOK, Typed, events
<1>9. CASE ClearActions(r)
  BY <1>1, <1>2, <1>9 DEF ClearActions, Goto, PlacesOK, Typed, events
<1>10. CASE CreateCondition(r)
  <2>1. todo[r] \in Seq(Condition) /\ todo[r] # <<>> /\ conditions[Rule(r)] \in Seq(Condition)
    BY <1>1, <1>10 DEF CreateCondition, Typed
  <2>2. Head(todo[r]) \in Condition /\ Tail(todo[r]) \in Seq(Condition)
    BY <2>1
  <2>3. Inserted(conditions[Rule(r)], Head(todo[r])) \in Seq(Condition)
    BY <2>1, <2>2, InsertedType
  <2>. QED BY <1>1, <1>2, <1>10, <2>2, <2>3 DEF CreateCondition, PlacesOK, Typed, events
<1>11. CASE CreateAction(r)
  BY <1>1, <1>2, <1>11 DEF CreateAction, PlacesOK, Typed, events
<1>12. CASE LoadRule(r)
  <2>1. (IF wish[r].active = Unsaid THEN ~active[Rule(r)] ELSE wish[r].active = "on") \in BOOLEAN
    OBVIOUS
  <2>. QED BY <1>1, <1>2, <1>12, <2>1 DEF LoadRule, Goto, tables, PlacesOK, Typed, events
<1>13. CASE Delete(r)
  BY <1>1, <1>2, <1>13 DEF Delete, Goto, PlacesOK, Typed, events
<1>. QED BY <1>4, <1>5, <1>6, <1>7, <1>8, <1>9, <1>10, <1>11, <1>12, <1>13 DEF Serve

LEMMA EvaluateKeepsTyped ==
  ASSUME PlacesOK, Typed, NEW e \in Events, Evaluate(e)
  PROVE  Typed'
<1>1. UNCHANGED <<tables, pc, wish, turnOn, todo, todoActions>>
  BY DEF Evaluate, ReadRules, ReadConditions, ReadActions, EvaluateRule, EvaluationFails,
         EvaluationEnds, tables, requests
<1>2. CASE ReadRules(e)
  BY <1>1, <1>2 DEF ReadRules, tables, PlacesOK, Typed, Rule
<1>3. CASE ReadConditions(e)
  BY <1>1, <1>3 DEF ReadConditions, tables, PlacesOK, Typed, Rule
<1>4. CASE ReadActions(e)
  BY <1>1, <1>4 DEF ReadActions, tables, PlacesOK, Typed, Rule
<1>5. CASE EvaluationEnds(e)
  BY <1>1, <1>5 DEF EvaluationEnds, tables, Typed, Rule
<1>6. ASSUME NEW s \in Rules, EvaluateRule(e, s) PROVE Typed'
  BY <1>1, <1>6 DEF EvaluateRule, tables, PlacesOK, Typed, Rule
<1>7. ASSUME NEW s \in Rules, EvaluationFails(e, s) PROVE Typed'
  BY <1>1, <1>7 DEF EvaluationFails, tables, Typed, Rule
<1>. QED BY <1>2, <1>3, <1>4, <1>5, <1>6, <1>7 DEF Evaluate

\* An execution is of an event, and did what was read says.
Grounded(x) ==
  /\ x \in Execution
  /\ LET matched == \E i \in DOMAIN x.conditions : HoldsFrom(x.conditions, i) IN
     /\ x.acted <=> (x.success /\ x.actions > 0 /\ matched)
     /\ x.success => ~Incomparable(x.conditions)
     /\ ~x.success => Incomparable(x.conditions) \/ (matched /\ x.actions > 0)

LEMMA EvaluateRuleGrounded ==
  ASSUME Typed, NEW e \in Events, NEW s \in Rules, EvaluateRule(e, s),
         NEW x \in executions'
  PROVE  x \in executions \/ Grounded(x)
<1>. DEFINE list == readConditions[e][s]
            n == readActions[e][s]
            matched == Matches(list)
            row(success) == [event |-> e, rule |-> s, conditions |-> list, actions |-> n,
                             success |-> success, acted |-> success /\ matched /\ n > 0]
<1>1. PICK success \in BOOLEAN :
        /\ success => ~Incomparable(list)
        /\ ~success => Incomparable(list) \/ (matched /\ n > 0)
        /\ executions' = executions \union {row(success)}
  BY Zenon DEF EvaluateRule
<1>2. list \in Seq(Condition) /\ n \in Nat
  BY DEF Typed
<1>3. matched <=> \E i \in DOMAIN list : HoldsFrom(list, i)
  BY <1>2, MatchesLeftToRight
<1>. DEFINE acted == success /\ matched /\ n > 0
<1>4. acted \in BOOLEAN /\ row(success) = [event |-> e, rule |-> s, conditions |-> list,
                                         actions |-> n, success |-> success, acted |-> acted]
  BY Zenon
<1>5. acted <=> (success /\ n > 0 /\ matched)
  BY Zenon
<1>. HIDE DEF list, n, matched, acted
<1>6. /\ row(success) \in Execution /\ row(success).acted = acted
      /\ row(success).actions = n /\ row(success).conditions = list
      /\ row(success).success = success
  BY <1>2, <1>4 DEF Execution
<1>. HIDE DEF row
<1>7. Grounded(row(success))
  BY <1>1, <1>3, <1>5, <1>6, Zenon DEF Grounded
<1>. QED BY <1>1, <1>7

\* All there is to say of the rows.
RuleInv ==
  /\ SkipInv /\ RowInv /\ Typed
  /\ \A x \in executions : Grounded(x)

LEMMA NextKeepsRuleInv == RuleInv /\ [Next]_vars => RuleInv'
<1>. SUFFICES ASSUME RuleInv, [Next]_vars PROVE RuleInv'
  OBVIOUS
<1>1. SkipInv' /\ RowInv'
  BY NextKeepsRowInv DEF RuleInv
<1>2. Typed'
  <2>1. CASE UNCHANGED vars
    BY <2>1 DEF vars, tables, requests, events, RuleInv, Typed, Rule
  <2>. QED BY <2>1, ServeKeepsTyped, EvaluateKeepsTyped DEF Next, RuleInv, SkipInv
<1>3. ASSUME NEW x \in executions' PROVE x \in executions \/ Grounded(x)
  <2>1. CASE UNCHANGED executions
    BY <2>1
  <2>2. CASE \E r \in Requests : Serve(r)
    BY <2>2 DEF Serve, Validate, Refuse, SaveRule, ClearConditions, CreateCondition, ClearActions,
                CreateAction, Saved, RowRefused, LoadRule, CheckRule, SaveActive, Delete, Answer
  <2>3. CASE \E e \in Events : Evaluate(e)
    <3>1. PICK e \in Events : Evaluate(e)
      BY <2>3
    <3>2. CASE \E s \in Rules : EvaluateRule(e, s)
      BY <3>2, EvaluateRuleGrounded DEF RuleInv
    <3>3. CASE ~\E s \in Rules : EvaluateRule(e, s)
      BY <3>1, <3>3 DEF Evaluate, ReadRules, ReadConditions, ReadActions, EvaluationFails,
                        EvaluationEnds
    <3>. QED BY <3>2, <3>3
  <2>. QED BY <2>1, <2>2, <2>3 DEF Next, vars
<1>4. ASSUME NEW x \in executions' PROVE Grounded(x)'
  BY <1>3 DEF RuleInv, Grounded
<1>. QED BY <1>1, <1>2, <1>4 DEF RuleInv

LEMMA InitRuleInv == Init => RuleInv
<1>. SUFFICES ASSUME Init PROVE RuleInv
  OBVIOUS
<1>1. SkipInv /\ RowInv
  BY StoredAssumption DEF Init, SkipInv, RowInv, RowsHaveRules, PlacesOK, Recorded, Places, Stages
<1>2. Typed
  <2>1. PICK given \in [Stored -> Conditions \X (0..MaxActions)], on \in SUBSET Stored :
          /\ active = [s \in Rules |-> s \in on]
          /\ conditions = [s \in Rules |-> IF s \in Stored THEN given[s][1] ELSE <<>>]
          /\ actions = [s \in Rules |-> IF s \in Stored THEN given[s][2] ELSE 0]
    BY DEF Init
  <2>2. \A s \in Stored : given[s][1] \in Seq(Condition) /\ given[s][2] \in Nat
    <3>1. ASSUME NEW s \in Stored PROVE given[s][1] \in Conditions /\ given[s][2] \in 0..MaxActions
      OBVIOUS
    <3>. QED BY <3>1, ConditionsAssumption, MaxActionsAssumption
  <2>3. <<>> \in Seq(Condition)
    OBVIOUS
  <2>4. /\ active \in [Rules -> BOOLEAN] /\ conditions \in [Rules -> Seq(Condition)]
        /\ actions \in [Rules -> Nat]
    BY <2>1, <2>2, <2>3
  <2>. QED BY <2>3, <2>4, StoredAssumption DEF Init, Typed
<1>. QED BY <1>1, <1>2 DEF Init, RuleInv

\* Requests write rules row by row, and events read them half written: every list
\* is one of conditions, every number of actions a natural, every rule saved has
\* an identity of its own, and there is no row of a rule that is not there.
THEOREM RowsTyped == SafeSpec => []TypeOK
<1>1. RuleInv => TypeOK
  <2>. SUFFICES ASSUME RuleInv PROVE TypeOK
    OBVIOUS
  <2>1. executions \subseteq Execution
    BY DEF RuleInv, Grounded
  <2>. QED BY <2>1 DEF RuleInv, SkipInv, RowInv, RowsHaveRules, Typed, PlacesOK, Places, Stages,
                       TypeOK
<1>. QED BY <1>1, InitRuleInv, NextKeepsRuleInv, PTL DEF SafeSpec

\* Whatever half-written list an event reads, a rule acts just when evaluate_rule
\* succeeds and one condition, the first or one after an OR, holds with all the
\* ANDs to its right: from left to right, AND binds no closer than OR.  It fails
\* only if a condition cannot be compared or an action of it raises.
THEOREM ActsLeftToRight == SafeSpec => []ActsAsConditionsSay
<1>1. RuleInv => ActsAsConditionsSay
  BY DEF RuleInv, Grounded, ActsAsConditionsSay
<1>. QED BY <1>1, InitRuleInv, NextKeepsRuleInv, PTL DEF SafeSpec

-----------------------------------------------------------------------------

\* Conditions come by their `order', as RuleCondition.Meta asks: those
\* of a rule that is written row by row, and those an event has read of it.
ConditionsInOrder ==
  /\ \A s \in Rules : InOrder(conditions[s])
  /\ \A e \in Events, s \in Rules : InOrder(readConditions[e][s])

LEMMA ServeKeepsOrder ==
  ASSUME RuleInv, ConditionsInOrder, NEW r \in Requests, Serve(r)
  PROVE  ConditionsInOrder'
<1>1. Rule(r) \in Rules /\ readConditions' = readConditions
  BY RulesOfWishes, ServeLeaves DEF events, RuleInv, SkipInv
<1>2. InOrder(<<>>)
  BY DEF InOrder
<1>3. CASE CreateCondition(r)
  <2>1. todo[r] \in Seq(Condition) /\ todo[r] # <<>> /\ conditions[Rule(r)] \in Seq(Condition)
    BY <1>1, <1>3 DEF CreateCondition, RuleInv, Typed
  <2>2. Head(todo[r]) \in Condition
    BY <2>1
  <2>3. InOrder(Inserted(conditions[Rule(r)], Head(todo[r])))
    BY <1>1, <2>1, <2>2, InsertedInOrder DEF ConditionsInOrder
  <2>. QED BY <1>1, <1>3, <2>3 DEF CreateCondition, ConditionsInOrder, RuleInv, Typed
<1>4. CASE ~CreateCondition(r)
  <2>1. conditions' \in {conditions, [conditions EXCEPT ![Rule(r)] = <<>>]}
    BY <1>4 DEF Serve, Validate, Refuse, SaveRule, ClearConditions, ClearActions, CreateAction,
                Saved, RowRefused, LoadRule, CheckRule, SaveActive, Delete, Answer, tables
  <2>. QED BY <1>1, <1>2, <2>1 DEF ConditionsInOrder, RuleInv, Typed
<1>. QED BY <1>3, <1>4

LEMMA EvaluateKeepsOrder ==
  ASSUME RuleInv, ConditionsInOrder, NEW e \in Events, Evaluate(e)
  PROVE  ConditionsInOrder'
<1>1. /\ conditions' = conditions
      /\ readConditions' \in {readConditions, [readConditions EXCEPT ![e] = conditions]}
  BY DEF Evaluate, ReadRules, ReadConditions, ReadActions, EvaluateRule, EvaluationFails,
         EvaluationEnds, tables
<1>. QED BY <1>1 DEF ConditionsInOrder, RuleInv, Typed

\* However requests interleave their rows, the connectives are read in the order
\* the conditions were given.
THEOREM ReadInOrder == SafeSpec => []ConditionsInOrder
<1>1. Init => ConditionsInOrder
  <2>. SUFFICES ASSUME Init PROVE ConditionsInOrder
    OBVIOUS
  <2>1. PICK given \in [Stored -> Conditions \X (0..MaxActions)], on \in SUBSET Stored :
          conditions = [s \in Rules |-> IF s \in Stored THEN given[s][1] ELSE <<>>]
    BY DEF Init
  <2>2. ASSUME NEW s \in Rules PROVE InOrder(conditions[s])
    <3>1. CASE s \in Stored
      <4>1. given[s][1] \in Conditions
        BY <3>1
      <4>. QED BY <2>1, <3>1, <4>1, ConditionsAssumption DEF InOrder
    <3>2. CASE s \notin Stored
      BY <2>1, <3>2 DEF InOrder
    <3>. QED BY <3>1, <3>2
  <2>. QED BY <2>2 DEF Init, ConditionsInOrder
<1>2. RuleInv /\ ConditionsInOrder /\ [Next]_vars => ConditionsInOrder'
  <2>. SUFFICES ASSUME RuleInv, ConditionsInOrder, [Next]_vars PROVE ConditionsInOrder'
    OBVIOUS
  <2>1. CASE UNCHANGED vars
    BY <2>1 DEF vars, tables, events, ConditionsInOrder
  <2>. QED BY <2>1, ServeKeepsOrder, EvaluateKeepsOrder DEF Next
<1>. QED BY <1>1, <1>2, InitRuleInv, NextKeepsRuleInv, PTL DEF SafeSpec

-----------------------------------------------------------------------------
(* Edits beside each other.                                                 *)

Saving == {"saved", "conditions", "actions", "ok"}

\* Which requests are where: what they have left to write, and that a rule which
\* was saved is there until it is deleted.
WriterOK(r) ==
  /\ pc[r] \in {"valid", "saved", "conditions", "actions"} => wish[r].kind \in {"create", "edit"}
  /\ pc[r] \in {"loaded", "checked"} => wish[r].kind = "toggle"
  /\ pc[r] = "saved" /\ wish[r].conditions # Unsaid => todo[r] = wish[r].conditions
  /\ pc[r] \notin {"saved", "conditions", "failed"} => todo[r] = <<>>
  /\ wish[r].kind \in {"create", "edit"} /\ pc[r] \in Saving => Rule(r) \in rules \union DeletedRules

\* Those that have deleted the conditions they replace.
Past(s) == {r \in Writers(s) : pc[r] \in Saving \ {"saved"}}

\* What one of them asked for is stored, or it has still to store it.
Kept(s) ==
  Past(s) # {} =>
    \E r \in Past(s) : Range(wish[r].conditions) \subseteq Range(conditions[s]) \union Range(todo[r])

EditInv ==
  /\ \A r \in Requests : WriterOK(r)
  /\ \A s \in Rules \ DeletedRules : Kept(s)

\* A row that is stored takes none away.
LEMMA InsertedRange ==
  ASSUME NEW rows \in Seq(Condition), NEW c \in Condition
  PROVE  Range(rows) \union {c} \subseteq Range(Inserted(rows, c))
<1>. DEFINE list == Inserted(rows, c)
<1>1. PICK n \in 0..Len(rows) :
        list = SubSeq(rows, 1, n) \o <<c>> \o SubSeq(rows, n + 1, Len(rows))
  BY InsertedAt
<1>. HIDE DEF list
<1>. DEFINE a == SubSeq(rows, 1, n)
            b == SubSeq(rows, n + 1, Len(rows))
            d == a \o <<c>>
<1>2. a \in Seq(Condition) /\ Len(a) = n /\ \A i \in 1..n : a[i] = rows[i]
  BY <1>1
<1>3. /\ b \in Seq(Condition) /\ Len(b) = Len(rows) - n
      /\ \A i \in 1..(Len(rows) - n) : b[i] = rows[n + i]
  BY <1>1
<1>. HIDE DEF a, b
<1>4. /\ d \in Seq(Condition) /\ Len(d) = n + 1 /\ d[n + 1] = c
      /\ \A i \in 1..n : d[i] = rows[i]
  BY <1>2
<1>5. list = d \o b
  BY <1>1 DEF a, b
<1>. HIDE DEF d
<1>6. /\ list \in Seq(Condition) /\ Len(list) = Len(d) + Len(b)
      /\ \A i \in 1..Len(d) : list[i] = d[i]
      /\ \A i \in 1..Len(b) : list[Len(d) + i] = b[i]
  <2>1. d \in Seq(Condition) /\ b \in Seq(Condition)
    BY <1>3, <1>4
  <2>. QED BY <1>5, <2>1, Joined
<1>7. DOMAIN list = 1..(Len(rows) + 1)
  BY <1>3, <1>4, <1>6
<1>8. n + 1 \in DOMAIN list /\ list[n + 1] = c
  BY <1>4, <1>6, <1>7
<1>9. ASSUME NEW i \in 1..Len(rows) PROVE \E j \in DOMAIN list : list[j] = rows[i]
  <2>1. CASE i <= n
    <3>1. i \in DOMAIN list /\ i \in 1..Len(d) /\ i \in 1..n
      BY <1>4, <1>7, <2>1
    <3>. QED BY <1>4, <1>6, <3>1
  <2>2. CASE i > n
    <3>1. PICK k \in 1..(Len(rows) - n) : i = n + k
      <4>1. i - n \in 1..(Len(rows) - n) /\ i = n + (i - n)
        BY <2>2
      <4>. QED BY <4>1
    <3>2. Len(d) + k \in DOMAIN list /\ list[Len(d) + k] = rows[i]
      BY <1>3, <1>4, <1>6, <1>7, <3>1
    <3>. QED BY <3>2
  <2>. QED BY <2>1, <2>2
<1>10. \A x \in Range(rows) : x \in Range(list)
  <2>1. \A x \in Range(rows) : \E i \in 1..Len(rows) : x = rows[i]
    BY DEF Range
  <2>. QED BY <1>9, <2>1 DEF Range
<1>11. c \in Range(list)
  BY <1>8 DEF Range
<1>. QED BY <1>10, <1>11 DEF list

LEMMA HeadAndTail ==
  ASSUME NEW list \in Seq(Condition), list # <<>>
  PROVE  Range(list) \subseteq {Head(list)} \union Range(Tail(list))
<1>1. ASSUME NEW i \in DOMAIN list PROVE list[i] \in {Head(list)} \union Range(Tail(list))
  <2>1. CASE i = 1
    BY <2>1
  <2>2. CASE i # 1
    <3>1. i - 1 \in DOMAIN Tail(list) /\ Tail(list)[i - 1] = list[i]
      BY <2>2
    <3>. QED BY <3>1 DEF Range
  <2>. QED BY <2>1, <2>2
<1>. QED BY <1>1 DEF Range

\* What is deleted stays so, and only the request that acts goes on.
LEMMA DeletedStay ==
  ASSUME PlacesOK, NEW r \in Requests, Serve(r)
  PROVE  /\ DeletedRules \subseteq DeletedRules' /\ wish' = wish
         /\ \A q \in Requests : Rule(q)' = Rule(q)
         /\ \A q \in Requests \ {r} : pc'[q] = pc[q]
<1>1. PICK place \in Places : pc' = [pc EXCEPT ![r] = place] /\ pc[r] # "ok"
  BY ServeGoesOn
<1>2. wish' = wish
  BY ServeLeaves
<1>3. DeletedRules \subseteq DeletedRules'
  BY <1>1, <1>2 DEF DeletedRules, Rule, PlacesOK
<1>. QED BY <1>1, <1>2, <1>3 DEF PlacesOK, Rule

\* A rule goes only when it is deleted.
LEMMA SavedStay ==
  ASSUME PlacesOK, NEW r \in Requests, Serve(r)
  PROVE  rules \subseteq rules' \union DeletedRules'
<1>1. CASE Delete(r)
  <2>1. Rule(r) \in DeletedRules'
    <3>1. wish'[r].kind = "delete" /\ pc'[r] = "ok" /\ Rule(r)' = Rule(r)
      BY <1>1, DeletedStay DEF Delete, Goto, PlacesOK
    <3>. QED BY <3>1 DEF DeletedRules
  <2>. QED BY <1>1, <2>1 DEF Delete
<1>2. CASE ~Delete(r)
  BY <1>2 DEF Serve, Validate, Refuse, SaveRule, ClearConditions, CreateCondition, ClearActions,
              CreateAction, Saved, RowRefused, LoadRule, CheckRule, SaveActive, Answer, tables
<1>. QED BY <1>1, <1>2

LEMMA ServeKeepsWriters ==
  ASSUME RuleInv, EditInv, NEW r \in Requests, Serve(r)
  PROVE  \A q \in Requests : WriterOK(q)'
<1>0. PlacesOK /\ Typed /\ WriterOK(r)
  BY DEF RuleInv, SkipInv, EditInv
<1>1. /\ DeletedRules \subseteq DeletedRules' /\ wish' = wish
      /\ \A q \in Requests : Rule(q)' = Rule(q)
      /\ \A q \in Requests \ {r} : pc'[q] = pc[q]
      /\ rules \subseteq rules' \union DeletedRules'
  BY <1>0, DeletedStay, SavedStay
<1>2. \A q \in Requests \ {r} : todo'[q] = todo[q]
  BY <1>0 DEF Serve, Validate, Refuse, SaveRule, ClearConditions, CreateCondition, ClearActions,
              CreateAction, Saved, RowRefused, LoadRule, CheckRule, SaveActive, Delete, Answer, Typed
<1>3. ASSUME NEW q \in Requests \ {r} PROVE WriterOK(q)'
  <2>1. WriterOK(q) /\ pc'[q] = pc[q] /\ todo'[q] = todo[q] /\ Rule(q)' = Rule(q)
    BY <1>1, <1>2 DEF EditInv
  <2>. QED BY <1>1, <2>1 DEF WriterOK
<1>4. WriterOK(r)'
  <2>. USE DEF WriterOK, Saving
  <2>1. CASE Validate(r) \/ Refuse(r)
    BY <1>0, <1>1, <2>1 DEF Validate, Refuse, Answer, Goto, PlacesOK
  <2>2. CASE SaveRule(r)
    BY <1>0, <1>1, <2>2 DEF SaveRule, Goto, PlacesOK, Typed
  <2>3. CASE ClearConditions(r)
    BY <1>0, <1>1, <2>3 DEF ClearConditions, Goto, PlacesOK
  <2>4. CASE CreateCondition(r)
    BY <1>0, <1>1, <2>4 DEF CreateCondition, PlacesOK, Typed
  <2>5. CASE ClearActions(r)
    BY <1>0, <1>1, <2>5 DEF ClearActions, Goto, PlacesOK
  <2>6. CASE CreateAction(r)
    BY <1>0, <1>1, <2>6 DEF CreateAction, PlacesOK
  <2>7. CASE Saved(r) \/ RowRefused(r)
    BY <1>0, <1>1, <2>7 DEF Saved, RowRefused, Answer, Goto, PlacesOK, tables
  <2>8. CASE LoadRule(r) \/ CheckRule(r) \/ SaveActive(r)
    BY <1>0, <1>1, <2>8 DEF LoadRule, CheckRule, SaveActive, Answer, Goto, PlacesOK, tables
  <2>9. CASE Delete(r)
    BY <1>0, <1>1, <2>9 DEF Delete, Goto, PlacesOK
  <2>. QED BY <2>1, <2>2, <2>3, <2>4, <2>5, <2>6, <2>7, <2>8, <2>9 DEF Serve
<1>. QED BY <1>3, <1>4

\* The step that deletes conditions is of a request that has its own to store.
LEMMA ServeKeepsEdits ==
  ASSUME RuleInv, EditInv, NEW r \in Requests, Serve(r), NEW s \in Rules \ DeletedRules'
  PROVE  Kept(s)'
<1>0. PlacesOK /\ Typed /\ WriterOK(r)
  BY DEF RuleInv, SkipInv, EditInv
<1>1. /\ DeletedRules \subseteq DeletedRules' /\ wish' = wish
      /\ \A q \in Requests : Rule(q)' = Rule(q)
      /\ \A q \in Requests \ {r} : pc'[q] = pc[q]
  BY <1>0, DeletedStay
<1>2. Kept(s)
  BY <1>1 DEF EditInv
<1>3. CASE ClearConditions(r) /\ Rule(r) = s /\ wish[r].conditions # Unsaid
  <2>1. /\ pc[r] = "saved" /\ pc'[r] = "conditions" /\ todo' = todo
        /\ todo[r] = wish[r].conditions /\ wish[r].kind \in {"create", "edit"}
    BY <1>0, <1>3 DEF ClearConditions, Goto, PlacesOK, WriterOK
  <2>2. r \in Past(s)'
    BY <1>1, <1>3, <2>1 DEF Past, Writers, Saving
  <2>. QED BY <1>1, <2>1, <2>2 DEF Kept
<1>4. CASE ~(ClearConditions(r) /\ Rule(r) = s /\ wish[r].conditions # Unsaid)
  <2>1. Past(s)' \subseteq Past(s)
    <3>1. ASSUME NEW q \in Past(s)' PROVE q \in Past(s)
      <4>1. /\ q \in Requests /\ Rule(q) = s /\ wish[q].conditions # Unsaid
            /\ wish[q].kind \in {"create", "edit"} /\ pc'[q] \in Saving \ {"saved"}
        BY <1>1 DEF Past, Writers
      <4>2. pc[q] \in Saving \ {"saved"}
        <5>1. CASE q # r
          BY <1>1, <4>1, <5>1
        <5>2. CASE q = r
          BY <1>0, <1>4, <4>1, <5>2
             DEF Serve, Validate, Refuse, SaveRule, ClearConditions, CreateCondition, ClearActions,
                 CreateAction, Saved, RowRefused, LoadRule, CheckRule, SaveActive, Delete, Answer,
                 Goto, PlacesOK, WriterOK, Saving
        <5>. QED BY <5>1, <5>2
      <4>. QED BY <4>1, <4>2 DEF Past, Writers, Saving
    <3>. QED BY <3>1
  <2>2. ASSUME NEW q \in Past(s) PROVE q \in Past(s)'
    <3>1. /\ q \in Requests /\ Rule(q) = s /\ wish[q].conditions # Unsaid
          /\ wish[q].kind \in {"create", "edit"} /\ pc[q] \in Saving \ {"saved"}
      BY <2>2 DEF Past, Writers
    <3>2. pc'[q] \in Saving \ {"saved"}
      <4>1. CASE q # r
        BY <1>1, <3>1, <4>1
      <4>2. CASE q = r
        <5>1. RuleExists(r)
          BY <1>0, <1>1, <3>1, <4>2 DEF WriterOK, RuleExists
        <5>. QED BY <1>0, <3>1, <4>2, <5>1
             DEF Serve, Validate, Refuse, SaveRule, ClearConditions, CreateCondition, ClearActions,
                 CreateAction, Saved, RowRefused, LoadRule, CheckRule, SaveActive, Delete, Answer,
                 Goto, PlacesOK, Saving
      <4>. QED BY <4>1, <4>2
    <3>. QED BY <1>1, <3>1, <3>2 DEF Past, Writers, Saving
  <2>3. ASSUME NEW q \in Past(s)
        PROVE  Range(conditions[s]) \union Range(todo[q])
                 \subseteq Range(conditions'[s]) \union Range(todo'[q])
    <3>0. q \in Requests /\ pc[q] \in Saving \ {"saved"} /\ Rule(q) = s
      BY <2>3 DEF Past, Writers
    <3>1. CASE CreateCondition(r)
      <4>. DEFINE c == Head(todo[r])
                  rows == conditions[Rule(r)]
      <4>1. /\ todo[r] \in Seq(Condition) /\ todo[r] # <<>> /\ Rule(r) \in Rules
            /\ todo' = [todo EXCEPT ![r] = Tail(todo[r])]
            /\ conditions' = [conditions EXCEPT ![Rule(r)] = Inserted(rows, c)]
        BY <1>0, <3>1, RulesOfWishes DEF CreateCondition, Typed
      <4>2. rows \in Seq(Condition) /\ c \in Condition
        BY <1>0, <4>1 DEF Typed
      <4>. HIDE DEF c, rows
      <4>3. Range(rows) \union {c} \subseteq Range(Inserted(rows, c))
        BY <4>2, InsertedRange
      <4>4. Range(todo[r]) \subseteq {c} \union Range(Tail(todo[r]))
        BY <4>1, HeadAndTail DEF c
      <4>5. CASE q = r
        <5>1. conditions'[s] = Inserted(rows, c) /\ todo'[q] = Tail(todo[r]) /\ conditions[s] = rows
          BY <1>0, <3>0, <4>1, <4>5 DEF Typed, rows
        <5>. QED BY <4>3, <4>4, <4>5, <5>1
      <4>6. CASE q # r
        <5>1. todo'[q] = todo[q]
          BY <1>0, <3>0, <4>1, <4>6 DEF Typed
        <5>2. conditions'[s] = conditions[s] \/ (conditions[s] = rows /\ conditions'[s] = Inserted(rows, c))
          BY <1>0, <4>1 DEF Typed, rows
        <5>. QED BY <4>3, <5>1, <5>2
      <4>. QED BY <4>5, <4>6
    <3>2. CASE ~CreateCondition(r)
      <4>1. conditions'[s] = conditions[s]
        <5>1. CASE Delete(r)
          <6>1. Rule(r) \in DeletedRules'
            <7>1. wish'[r].kind = "delete" /\ pc'[r] = "ok" /\ Rule(r)' = Rule(r)
              BY <1>0, <1>1, <5>1 DEF Delete, Goto, PlacesOK
            <7>. QED BY <7>1 DEF DeletedRules
          <6>. QED BY <1>0, <5>1, <6>1, RulesOfWishes DEF Delete, Typed
        <5>2. CASE ClearConditions(r)
          BY <1>0, <1>4, <5>2, RulesOfWishes DEF ClearConditions, Replaces, Typed
        <5>3. CASE ~Delete(r) /\ ~ClearConditions(r)
          BY <3>2, <5>3 DEF Serve, Validate, Refuse, SaveRule, ClearActions, CreateAction, Saved,
                            RowRefused, LoadRule, CheckRule, SaveActive, Answer, tables
        <5>. QED BY <5>1, <5>2, <5>3
      <4>2. todo'[q] = todo[q]
        BY <1>0, <3>0, <3>2 DEF Serve, Validate, Refuse, SaveRule, ClearConditions, ClearActions,
             CreateAction, Saved, RowRefused, LoadRule, CheckRule, SaveActive, Delete, Answer, Typed,
             Saving
      <4>. QED BY <4>1, <4>2
    <3>. QED BY <3>1, <3>2
  <2>4. CASE Past(s)' = {}
    BY <2>4 DEF Kept
  <2>5. CASE Past(s)' # {}
    <3>1. PICK q \in Past(s) :
            Range(wish[q].conditions) \subseteq Range(conditions[s]) \union Range(todo[q])
      BY <1>2, <2>1, <2>5 DEF Kept
    <3>2. q \in Past(s)' /\ Range(wish'[q].conditions) \subseteq Range(conditions'[s]) \union Range(todo'[q])
      BY <1>1, <2>2, <2>3, <3>1
    <3>. QED BY <3>2 DEF Kept
  <2>. QED BY <2>4, <2>5
<1>. QED BY <1>3, <1>4

LEMMA NextKeepsEditInv == RuleInv /\ EditInv /\ [Next]_vars => EditInv'
<1>. SUFFICES ASSUME RuleInv, EditInv, [Next]_vars PROVE EditInv'
  OBVIOUS
<1>1. CASE \E r \in Requests : Serve(r)
  BY <1>1, ServeKeepsWriters, ServeKeepsEdits DEF EditInv
<1>2. CASE UNCHANGED <<rules, conditions, pc, wish, todo>>
  BY <1>2 DEF EditInv, WriterOK, Kept, Past, Writers, DeletedRules, Rule
<1>3. ASSUME NEW e \in Events, Evaluate(e) PROVE UNCHANGED <<rules, conditions, pc, wish, todo>>
  BY <1>3 DEF Evaluate, ReadRules, ReadConditions, ReadActions, EvaluateRule, EvaluationFails,
              EvaluationEnds, tables, requests
<1>4. ASSUME UNCHANGED vars PROVE UNCHANGED <<rules, conditions, pc, wish, todo>>
  BY <1>4 DEF vars, tables, requests
<1>. QED BY <1>1, <1>2, <1>3, <1>4 DEF Next

\* However many requests write the conditions of a rule beside each other, and
\* wherever their rows interleave: once all are answered, those that one of them
\* gave are all there, if among some that others have left.
THEOREM EditsSurvive == SafeSpec => []EditsKept
<1>1. Init => EditInv
  BY DEF Init, EditInv, WriterOK, Kept, Past, Writers, Saving
<1>2. EditInv => EditsKept
  <2>. SUFFICES ASSUME EditInv, NEW s \in Rules \ DeletedRules, Writers(s) # {},
                       \A r \in Writers(s) : pc[r] = "ok"
                PROVE  \E r \in Writers(s) : Range(wish[r].conditions) \subseteq Range(conditions[s])
    BY DEF EditsKept
  <2>1. Past(s) = Writers(s)
    BY DEF Past, Saving
  <2>2. PICK r \in Writers(s) :
          Range(wish[r].conditions) \subseteq Range(conditions[s]) \union Range(todo[r])
    BY <2>1 DEF EditInv, Kept
  <2>3. todo[r] = <<>>
    BY <2>2 DEF EditInv, WriterOK, Writers
  <2>4. Range(<<>>) = {}
    BY DEF Range
  <2>. QED BY <2>2, <2>3, <2>4
<1>. QED BY <1>1, <1>2, InitRuleInv, NextKeepsRuleInv, NextKeepsEditInv, PTL DEF SafeSpec

=================================================================================
