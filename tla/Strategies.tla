------------------------------- MODULE Strategies -------------------------------
(***************************************************************************)
(* Strategy rules: requests that create, edit, toggle and delete them       *)
(* (apps/strategies/views.py and serializers.py) while events of the        *)
(* pipeline evaluate the active ones (apps/strategies/engine.py).           *)
(*                                                                          *)
(* ATOMIC_REQUESTS is off: every query is a transaction of its own, an edit *)
(* writes the rule, its conditions and its actions one row at a time, and   *)
(* an event reads rules, conditions and actions with three queries.         *)
(*                                                                          *)
(* All rules are of the user who asks and of the ticker of the events.  A   *)
(* condition has its place, its connective, and whether it holds in the     *)
(* context of the events or cannot be compared: the serializer takes nan    *)
(* for a number, and to order it raises.  Of actions the number is kept.    *)
(***************************************************************************)
EXTENDS Integers, Sequences, FiniteSets, Functions

CONSTANTS Rules, Requests, Events,
          Stored,      \* rules there are at the beginning
          Conditions,  \* the lists a stored rule may have, by `order'
          Wishes,      \* what requests ask for
          MaxActions,
          Unsaid       \* a field a request leaves out

Condition == [order : Nat, op : {"AND", "OR"}, holds : BOOLEAN, raises : BOOLEAN]

ASSUME StoredAssumption == Stored \subseteq Rules
ASSUME ConditionsAssumption ==
  \A list \in Conditions :
    /\ list \in Seq(Condition)
    /\ \A i, j \in DOMAIN list : i < j => list[i].order <= list[j].order
ASSUME WishesAssumption ==
  \A w \in Wishes :
    /\ w.rule \in Rules /\ w.active \in {"on", "off", Unsaid}
    /\ w.conditions # Unsaid => w.conditions \in Seq(Condition)
    /\ w.actions # Unsaid => w.actions \in Nat
ASSUME MaxActionsAssumption == MaxActions \in Nat

VARIABLES
  rules, taken,         \* rules that exist; identities given out so far
  active,               \* is_active
  conditions, actions,  \* rows of each rule
  executions,           \* StrategyExecution rows
  pc, wish,             \* of each request: where it is, what it asks for
  turnOn,               \* the is_active it will write
  todo, todoActions,    \* rows it has left to write
  stage,                \* of each event: where its evaluation is
  read, batch,          \* the active rules it read; those it has left
  readConditions, readActions

tables   == <<rules, taken, active, conditions, actions>>
requests == <<pc, wish, turnOn, todo, todoActions>>
events   == <<stage, read, batch, readConditions, readActions>>
vars     == <<tables, executions, requests, events>>

Init ==
  /\ rules = Stored /\ taken = Stored
  /\ \E given \in [Stored -> Conditions \X (0..MaxActions)], on \in SUBSET Stored :
       /\ \A s \in on : given[s][1] # <<>> /\ given[s][2] > 0
       /\ active = [s \in Rules |-> s \in on]
       /\ conditions = [s \in Rules |-> IF s \in Stored THEN given[s][1] ELSE <<>>]
       /\ actions = [s \in Rules |-> IF s \in Stored THEN given[s][2] ELSE 0]
  /\ executions = {}
  /\ pc = [r \in Requests |-> "received"]
  /\ wish \in [Requests -> Wishes]
  /\ turnOn = [r \in Requests |-> FALSE]
  /\ todo = [r \in Requests |-> <<>>]
  /\ todoActions = [r \in Requests |-> 0]
  /\ stage = [e \in Events |-> "raised"]
  /\ read = [e \in Events |-> {}] /\ batch = [e \in Events |-> {}]
  /\ readConditions = [e \in Events |-> conditions]
  /\ readActions = [e \in Events |-> actions]

Rule(r) == wish[r].rule

Goto(r, where) == pc' = [pc EXCEPT ![r] = where]

Answer(r, where, code) ==
  /\ pc[r] = where
  /\ Goto(r, code)
  /\ UNCHANGED <<tables, executions, wish, turnOn, todo, todoActions, events>>

-----------------------------------------------------------------------------
(* POST and PATCH: StrategyRuleSerializer.                                  *)

\* What is_active becomes: as asked, or as the rule had it when it was loaded.
Asked(r) ==
  CASE wish[r].active = "on"   -> TRUE
    [] wish[r].active = "off"  -> FALSE
    [] wish[r].active = Unsaid -> wish[r].kind = "edit" /\ active[Rule(r)]

\* validate looks at the conditions and actions of the request only.
Valid(r) == Asked(r) => wish[r].conditions # <<>> /\ wish[r].actions # 0

\* The identity of a new rule, or a rule that is there to load.
Found(r) ==
  \/ wish[r].kind = "create" /\ Rule(r) \notin taken
  \/ wish[r].kind # "create" /\ Rule(r) \in rules

Validate(r) ==
  /\ pc[r] = "received" /\ wish[r].kind \in {"create", "edit"}
  /\ Found(r) /\ Valid(r)
  /\ turnOn' = [turnOn EXCEPT ![r] = Asked(r)]
  /\ taken' = taken \union {Rule(r)}
  /\ Goto(r, "valid")
  /\ UNCHANGED <<rules, active, conditions, actions, executions, wish, todo, todoActions, events>>

\* 400, or 404.
Refuse(r) ==
  /\ \/ ~Found(r)
     \/ wish[r].kind \in {"create", "edit"} /\ ~Valid(r)
  /\ Answer(r, "received", "refused")

\* objects.create, or instance.save(), which inserts the rule again if it has
\* been deleted since it was loaded.
SaveRule(r) ==
  /\ pc[r] = "valid"
  /\ rules' = rules \union {Rule(r)}
  /\ active' = [active EXCEPT ![Rule(r)] = turnOn[r]]
  /\ todo' = [todo EXCEPT ![r] = IF wish[r].conditions = Unsaid THEN <<>> ELSE wish[r].conditions]
  /\ todoActions' = [todoActions EXCEPT ![r] = IF wish[r].actions = Unsaid THEN 0 ELSE wish[r].actions]
  /\ Goto(r, "saved")
  /\ UNCHANGED <<taken, conditions, actions, executions, wish, turnOn, events>>

\* Mutant: an edit that leaves the conditions out counts as one that gives none.
AnyEdit(r) == wish[r].kind = "edit"

Replaces(r) == wish[r].kind = "edit" /\ wish[r].conditions # Unsaid

ClearConditions(r) ==
  /\ pc[r] = "saved"
  /\ conditions' = IF Replaces(r)
                     THEN [conditions EXCEPT ![Rule(r)] = <<>>] ELSE conditions
  /\ Goto(r, "conditions")
  /\ UNCHANGED <<rules, taken, active, actions, executions, wish, turnOn, todo, todoActions, events>>

\* Rows are read by their `order', rows of equal order as they were stored.
Inserted(rows, c) ==
  LET place == CHOOSE n \in 0..Len(rows) :
        /\ \A i \in 1..n : rows[i].order <= c.order
        /\ n < Len(rows) => rows[n + 1].order > c.order
  IN SubSeq(rows, 1, place) \o <<c>> \o SubSeq(rows, place + 1, Len(rows))

\* Mutant: the foreign key to the rule is not enforced.
NoForeignKey(r) == TRUE

RuleExists(r) == Rule(r) \in rules

CreateCondition(r) ==
  /\ pc[r] = "conditions" /\ todo[r] # <<>> /\ RuleExists(r)
  /\ conditions' = [conditions EXCEPT ![Rule(r)] = Inserted(@, Head(todo[r]))]
  /\ todo' = [todo EXCEPT ![r] = Tail(@)]
  /\ UNCHANGED <<rules, taken, active, actions, executions, pc, wish, turnOn, todoActions, events>>

ClearActions(r) ==
  /\ pc[r] = "conditions" /\ todo[r] = <<>>
  /\ actions' = IF wish[r].kind = "edit" /\ wish[r].actions # Unsaid
                  THEN [actions EXCEPT ![Rule(r)] = 0] ELSE actions
  /\ Goto(r, "actions")
  /\ UNCHANGED <<rules, taken, active, conditions, executions, wish, turnOn, todo, todoActions, events>>

CreateAction(r) ==
  /\ pc[r] = "actions" /\ todoActions[r] > 0 /\ RuleExists(r)
  /\ actions' = [actions EXCEPT ![Rule(r)] = @ + 1]
  /\ todoActions' = [todoActions EXCEPT ![r] = @ - 1]
  /\ UNCHANGED <<rules, taken, active, conditions, executions, pc, wish, turnOn, todo, events>>

Saved(r) == todoActions[r] = 0 /\ Answer(r, "actions", "ok")

\* The foreign key refuses a row of a rule that has gone: 500.
RowRefused(r) ==
  /\ ~RuleExists(r)
  /\ \/ todo[r] # <<>> /\ Answer(r, "conditions", "failed")
     \/ todoActions[r] > 0 /\ Answer(r, "actions", "failed")

-----------------------------------------------------------------------------
(* Toggle and delete.                                                       *)

LoadRule(r) ==
  /\ pc[r] = "received" /\ wish[r].kind = "toggle" /\ Found(r)
  /\ turnOn' = [turnOn EXCEPT ![r] =
       IF wish[r].active = Unsaid THEN ~active[Rule(r)] ELSE wish[r].active = "on"]
  /\ Goto(r, "loaded")
  /\ UNCHANGED <<tables, executions, wish, todo, todoActions, events>>

Complete(r) == conditions[Rule(r)] # <<>> /\ actions[Rule(r)] > 0

CheckRule(r) ==
  \/ (turnOn[r] => Complete(r)) /\ Answer(r, "loaded", "checked")
  \/ turnOn[r] /\ ~Complete(r) /\ Answer(r, "loaded", "refused")

\* save(update_fields=["is_active"]) raises if the rule has gone.
SaveActive(r) ==
  \/ /\ pc[r] = "checked" /\ RuleExists(r)
     /\ active' = [active EXCEPT ![Rule(r)] = turnOn[r]]
     /\ Goto(r, "ok")
     /\ UNCHANGED <<rules, taken, conditions, actions, executions, wish, turnOn, todo, todoActions, events>>
  \/ ~RuleExists(r) /\ Answer(r, "checked", "failed")

\* With everything that refers to the rule.
Delete(r) ==
  /\ pc[r] = "received" /\ wish[r].kind = "delete" /\ Found(r)
  /\ rules' = rules \ {Rule(r)}
  /\ active' = [active EXCEPT ![Rule(r)] = FALSE]
  /\ conditions' = [conditions EXCEPT ![Rule(r)] = <<>>]
  /\ actions' = [actions EXCEPT ![Rule(r)] = 0]
  /\ executions' = {x \in executions : x.rule # Rule(r)}
  /\ Goto(r, "ok")
  /\ UNCHANGED <<taken, wish, turnOn, todo, todoActions, events>>

-----------------------------------------------------------------------------
(* evaluate_strategies_for_event.                                           *)

Advance(e, where) == stage' = [stage EXCEPT ![e] = where]

ReadRules(e) ==
  /\ stage[e] = "raised"
  /\ LET found == {s \in rules : active[s]} IN
     /\ read' = [read EXCEPT ![e] = found]
     /\ batch' = [batch EXCEPT ![e] = found]
  /\ Advance(e, "rules")
  /\ UNCHANGED <<tables, executions, requests, readConditions, readActions>>

\* prefetch_related, a query for the conditions and one for the actions.
ReadConditions(e) ==
  /\ stage[e] = "rules"
  /\ readConditions' = [readConditions EXCEPT ![e] = conditions]
  /\ Advance(e, "conditions")
  /\ UNCHANGED <<tables, executions, requests, read, batch, readActions>>

ReadActions(e) ==
  /\ stage[e] = "conditions"
  /\ readActions' = [readActions EXCEPT ![e] = actions]
  /\ Advance(e, "evaluating")
  /\ UNCHANGED <<tables, executions, requests, read, batch, readConditions>>

\* evaluate_rule: from left to right, without precedence.
Matches(list) ==
  LET upTo[i \in 1..Len(list)] ==
        IF i = 1 THEN list[1].holds
        ELSE IF list[i].op = "OR" THEN upTo[i - 1] \/ list[i].holds
        ELSE upTo[i - 1] /\ list[i].holds
  IN list # <<>> /\ upTo[Len(list)]

\* Every condition is compared, before any connective is looked at.
Incomparable(list) == \E i \in DOMAIN list : list[i].raises

\* One rule: its execution is stored, matched or not.  If a condition cannot be
\* compared, or an action of a rule that matched raises (its config may be no
\* object), it is stored as a failure, without actions, and the loop goes on.
EvaluateRule(e, s) ==
  LET list    == readConditions[e][s]
      matched == Matches(list)
  IN /\ stage[e] = "evaluating"
     /\ s \in batch[e] /\ s \in rules
     /\ \E success \in BOOLEAN :
          /\ success => ~Incomparable(list)
          /\ ~success => Incomparable(list) \/ (matched /\ readActions[e][s] > 0)
          /\ executions' = executions \union
               {[event |-> e, rule |-> s, conditions |-> list, actions |-> readActions[e][s],
                 success |-> success, acted |-> success /\ matched /\ readActions[e][s] > 0]}
     /\ batch' = [batch EXCEPT ![e] = @ \ {s}]
     /\ UNCHANGED <<tables, requests, stage, read, readConditions, readActions>>

\* Mutant: the loop goes on as if the rule had been recorded.
SkipsOnError(e) == "done"

AfterError(e) == "failed"

\* A rule that has gone: its execution cannot be stored, nor the one that the
\* exception handler tries to store, and that ends the evaluation.
EvaluationFails(e, s) ==
  /\ stage[e] = "evaluating"
  /\ s \in batch[e] /\ s \notin rules
  /\ Advance(e, AfterError(e))
  /\ UNCHANGED <<tables, executions, requests, read, batch, readConditions, readActions>>

EvaluationEnds(e) ==
  /\ stage[e] = "evaluating" /\ batch[e] = {}
  /\ Advance(e, "done")
  /\ UNCHANGED <<tables, executions, requests, read, batch, readConditions, readActions>>

Evaluate(e) ==
  \/ ReadRules(e) \/ ReadConditions(e) \/ ReadActions(e) \/ EvaluationEnds(e)
  \/ \E s \in Rules : EvaluateRule(e, s) \/ EvaluationFails(e, s)

Serve(r) ==
  \/ Validate(r) \/ Refuse(r) \/ SaveRule(r) \/ ClearConditions(r) \/ CreateCondition(r)
  \/ ClearActions(r) \/ CreateAction(r) \/ Saved(r) \/ RowRefused(r)
  \/ LoadRule(r) \/ CheckRule(r) \/ SaveActive(r) \/ Delete(r)

Next == (\E r \in Requests : Serve(r)) \/ (\E e \in Events : Evaluate(e))

SafeSpec == Init /\ [][Next]_vars

-----------------------------------------------------------------------------
(* Properties.                                                              *)

Execution == [event : Events, rule : Rules, conditions : Seq(Condition),
              actions : Nat, success : BOOLEAN, acted : BOOLEAN]

\* The type of every variable, and the foreign keys: no row is left of a rule
\* that does not exist.
TypeOK ==
  /\ rules \subseteq taken /\ taken \subseteq Rules
  /\ active \in [Rules -> BOOLEAN]
  /\ conditions \in [Rules -> Seq(Condition)]
  /\ actions \in [Rules -> Nat]
  /\ executions \subseteq Execution
  /\ \A s \in Rules \ rules : conditions[s] = <<>> /\ actions[s] = 0
  /\ \A x \in executions : x.rule \in rules
  /\ pc \in [Requests -> {"received", "valid", "saved", "conditions", "actions",
                          "loaded", "checked", "ok", "refused", "failed"}]
  /\ wish \in [Requests -> Wishes]
  /\ turnOn \in [Requests -> BOOLEAN]
  /\ todo \in [Requests -> Seq(Condition)]
  /\ todoActions \in [Requests -> Nat]
  /\ stage \in [Events -> {"raised", "rules", "conditions", "evaluating", "done", "failed"}]
  /\ read \in [Events -> SUBSET Rules]
  /\ \A e \in Events : batch[e] \subseteq read[e]
  /\ readConditions \in [Events -> [Rules -> Seq(Condition)]]
  /\ readActions \in [Events -> [Rules -> Nat]]

\* The i-th condition decides a list: it holds, and so do all after it that an AND
\* ties to what is before them.
HoldsFrom(list, i) ==
  /\ i = 1 \/ list[i].op = "OR"
  /\ \A j \in i..Len(list) : (j = i \/ list[j].op = "AND") => list[j].holds

\* What a half-written list that was read says, from left to right and without
\* precedence, is what the rule does: it acts if the first condition, or one after
\* an OR, holds with every AND to its right, even past another OR.  One without
\* conditions never acts, nor one that failed; and none fails without a cause.
ActsAsConditionsSay ==
  \A x \in executions :
    LET matched == \E i \in DOMAIN x.conditions : HoldsFrom(x.conditions, i) IN
    /\ x.acted <=> (x.success /\ x.actions > 0 /\ matched)
    /\ x.success => ~Incomparable(x.conditions)
    /\ ~x.success => Incomparable(x.conditions) \/ (matched /\ x.actions > 0)

DeletedRules == {Rule(r) : r \in {q \in Requests : wish[q].kind = "delete" /\ pc[q] = "ok"}}

\* An event that was evaluated without an error has an execution for every rule
\* that was active, matched or not, unless the rule has been deleted.
NoRuleSkipped ==
  \A e \in Events : stage[e] = "done" =>
    \A s \in read[e] \ DeletedRules : \E x \in executions : x.event = e /\ x.rule = s

\* The requests that have begun to write conditions of a rule.
Writers(s) ==
  {r \in Requests : /\ Rule(r) = s /\ wish[r].conditions # Unsaid
                    /\ wish[r].kind \in {"create", "edit"}
                    /\ pc[r] \notin {"received", "refused"}}

\* Edits of one rule delete and create its conditions row by row, beside each
\* other and beside requests that leave them out.  They may mix; but when all have
\* been answered, every condition that one of them gave is there.
EditsKept ==
  \A s \in Rules \ DeletedRules :
    (Writers(s) # {} /\ \A r \in Writers(s) : pc[r] = "ok") =>
      \E r \in Writers(s) : Range(wish[r].conditions) \subseteq Range(conditions[s])

=================================================================================
