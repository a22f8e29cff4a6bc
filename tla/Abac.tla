--------------------------------- MODULE Abac ---------------------------------
(***************************************************************************)
(* Attribute-based access control: abac/abac.go and abac/conditions.go.    *)
(*                                                                         *)
(* A condition is a record: op "All", "Any" or "Not" over children, or the *)
(* name of an operator on the fact `ref`.  `want` holds the literals of    *)
(* Equal, GreaterThan, LessThan and In; `holds` what SetContains looks for *)
(* or the texts or addresses that HasPrefix, HasSuffix, StringContains and *)
(* IPIn accept, none for an invalid prefix.  "Nil" is the nil interface.   *)
(* Facts map references to values, kind "Missing" for both an absent fact  *)
(* and ValueMissing.  Matched is Status = "Match" in every Result the code *)
(* builds, so only the status is kept.                                     *)
(***************************************************************************)
EXTENDS ModelDecision, EarlyReturn, Attribute

AbacLimits(limits) ==
    WithLimits([maxRules |-> 1000, maxDepth |-> 32, maxCost |-> 1000, maxMatches |-> 100,
                maxSetSize |-> 1000, maxBatchSize |-> 1000, maxNamedConditions |-> 1000], limits)

-----------------------------------------------------------------------------
(* validateConditionLimits                                                 *)

Combinators == {"All", "Any", "Not"}
TextTests == {"HasPrefix", "HasSuffix", "StringContains"}

(* validate of each condition.                                             *)
ValidCondition(c) ==
    CASE c.op \in Combinators ->
             c.children # <<>> /\ \A i \in DOMAIN c.children : c.children[i].op # "Nil"
      [] c.op = "Equal" -> c.ref # 0 /\ c.want[1].kind # "Missing"
      [] c.op \in {"GreaterThan", "LessThan"} -> c.ref # 0 /\ c.want[1].kind \in Ordered
      [] c.op = "In" ->
             /\ c.ref # 0 /\ c.want # <<>>
             /\ \A i \in DOMAIN c.want : c.want[i].kind \notin {"Missing", "Null"}
             /\ \A i, j \in DOMAIN c.want : c.want[i].kind = c.want[j].kind
      [] c.op = "IPIn" -> c.ref # 0 /\ c.holds # {}
      [] OTHER -> c.ref # 0

(* conditionLocalCardinality                                               *)
LocalCardinality(c) ==
    CASE c.op = "In" -> Len(c.want)
      [] c.op = "Equal" -> CollectionLength(c.want[1])
      [] OTHER -> 0

(* The walk of a condition in preorder; seen is its error and cardinality. *)
RECURSIVE WalkCondition(_, _, _, _)
WalkCondition(seen, c, depth, limits) ==
    IF seen.err # "none" THEN seen
    ELSE LET err == FirstError(<<
                 <<depth > limits.maxDepth, "ErrDepthExceeded">>,
                 <<~ValidCondition(c), "ErrInvalidCondition">>,
                 <<LocalCardinality(c) > limits.maxSetSize - seen.cardinality, "ErrSetLimitExceeded">> >>)
         IN  IF err # "none" THEN [seen EXCEPT !.err = err]
             ELSE FoldLeft(LAMBDA s, child : WalkCondition(s, child, depth + 1, limits),
                           [seen EXCEPT !.cardinality = @ + LocalCardinality(c)], c.children)

ConditionError(c, limits) ==
    WalkCondition([err |-> "none", cardinality |-> 0], c, 1, limits).err

-----------------------------------------------------------------------------
(* New                                                                     *)

NamedError(model, i) ==
    LET d == model.named[i] IN
    FirstError(<< <<d.name = 0 \/ d.version = 0 \/ d.condition.op = "Nil", "ErrInvalidCondition">>,
                  <<\E j \in 1..(i-1) : model.named[j].name = d.name
                                        /\ model.named[j].version = d.version,
                    "ErrDuplicateNamedCondition">>,
                  <<TRUE, ConditionError(d.condition, model.limits)>> >>)

(* The inline condition, or the named one a rule refers to.                *)
ConditionOf(model, rule) ==
    LET named == {d \in ToSet(model.named) :
                     d.name = rule.name /\ d.version = rule.version}
    IN  IF rule.name = 0 \/ named = {} THEN rule.condition
        ELSE (CHOOSE d \in named : TRUE).condition

RuleError(model, i) ==
    LET rule == model.rules[i] IN
    FirstError(<<
        <<rule.name # 0 /\ (rule.condition.op # "Nil" \/ rule.version = 0), "ErrInvalidRule">>,
        <<rule.name # 0 /\ \A d \in ToSet(model.named) :
              d.name # rule.name \/ d.version # rule.version, "ErrUnknownNamedCondition">>,
        <<rule.name = 0 /\ rule.version # 0, "ErrInvalidRule">>,
        <<0 \in {rule.id, rule.action, rule.type} \/ rule.effect \notin {"Allow", "Deny"}
          \/ ConditionOf(model, rule).op = "Nil", "ErrInvalidRule">>,
        <<\E j \in 1..(i-1) : model.rules[j].id = rule.id, "ErrInvalidRule">>,
        <<TRUE, ConditionError(ConditionOf(model, rule), model.limits)>> >>)

NewAbac(model) ==
    LET named == FirstFailure(Len(model.named), LAMBDA i : NamedError(model, i)) IN
    IF Len(model.rules) > model.limits.maxRules \/ Len(model.named) > model.limits.maxNamedConditions
    THEN "ErrRuleLimitExceeded"
    ELSE IF named # "none" THEN named
    ELSE FirstFailure(Len(model.rules), LAMBDA i : RuleError(model, i))

(* The evaluator's rules: bound to their conditions, in evaluation order.  *)
SortedRules(model) ==
    SortSeq([i \in DOMAIN model.rules |->
                [model.rules[i] EXCEPT !.condition = ConditionOf(model, model.rules[i])]],
            LAMBDA p, q : p.priority > q.priority \/ (p.priority = q.priority /\ p.id < q.id))

-----------------------------------------------------------------------------
(* Conditions.  A call is [facts, cancelAt, limits]; the context ends      *)
(* before the node visit that cancelAt counts.                             *)

Status(status, cost) == [status |-> status, err |-> "none", cost |-> cost]
Failure(err, cost) == [status |-> "NoMatch", err |-> err, cost |-> cost]

ConsumeError(call, cost) ==
    FirstError(<< <<cost >= call.cancelAt, "ContextError">>,
                  <<cost >= call.limits.maxCost, "ErrCostExceeded">> >>)

(* Variant with a mistake: whatever did not match is negated to a match.   *)
NegateAll(result) ==
    IF result.err # "none" THEN result
    ELSE Status(IF result.status = "Match" THEN "NoMatch" ELSE "Match", result.cost)

(* Not negates Match and NoMatch only.                                     *)
Negate(result) ==
    IF result.err # "none" \/ result.status \notin {"Match", "NoMatch"} THEN result
    ELSE Status(IF result.status = "Match" THEN "NoMatch" ELSE "Match", result.cost)

(* The kind an operator applies to.                                        *)
KindOf(c) ==
    CASE c.op \in {"Equal", "GreaterThan", "LessThan", "In"} -> c.want[1].kind
      [] c.op = "SetContains" -> "StringSet"
      [] c.op \in TextTests -> "String"
      [] c.op = "IPIn" -> "IP"

(* The operator's own test, of a value of its kind.                        *)
Accepts(c, got) ==
    CASE c.op = "GreaterThan" -> Compare(got, c.want[1]) > 0
      [] c.op = "LessThan" -> Compare(got, c.want[1]) < 0
      [] c.op \in {"Equal", "In"} -> \E i \in DOMAIN c.want : ValueEqual(got, c.want[i])
      [] c.op = "SetContains" -> c.holds \subseteq got.set
      [] c.op \in TextTests \cup {"IPIn"} -> got.scalar \in c.holds

(* Equal alone accepts null, if it asks for it.                            *)
LoadedStatus(c, got) ==
    CASE got.kind = "Missing" -> "Missing"
      [] got.kind = "Null" -> IF c.op = "Equal" /\ KindOf(c) = "Null" THEN "Match" ELSE "Null"
      [] got.kind \notin {"Missing", "Null", KindOf(c)} -> "TypeMismatch"
      [] OTHER -> IF Accepts(c, got) THEN "Match" ELSE "NoMatch"

(* The status of a condition on one fact.                                  *)
FactStatus(c, got) ==
    CASE c.op = "Exists" -> IF got.kind # "Missing" THEN "Match" ELSE "NoMatch"
      [] c.op = "IsNull" -> IF got.kind = "Null" THEN "Match" ELSE "NoMatch"
      [] OTHER -> LoadedStatus(c, got)

EvaluateFact(c, call, cost) ==
    LET got == call.facts[c.ref] IN
    IF c.op \notin {"Exists", "IsNull"} /\ CollectionLength(got) > call.limits.maxSetSize
    THEN Failure("ErrSetLimitExceeded", cost)
    ELSE Status(FactStatus(c, got), cost)

(* Any remembers the first status other than NoMatch.                      *)
AnyStatus(sofar, next) ==
    IF next.err # "none" \/ next.status = "Match" \/ sofar.status = "NoMatch" THEN next
    ELSE [next EXCEPT !.status = sofar.status]

RECURSIVE EvaluateCondition(_, _, _)
EvaluateCondition(c, call, cost) ==
    IF ConsumeError(call, cost) # "none" THEN Failure(ConsumeError(call, cost), cost)
    ELSE CASE c.op = "All" ->
                 FoldLeft(LAMBDA r, child :
                              IF r.err # "none" \/ r.status # "Match" THEN r
                              ELSE EvaluateCondition(child, call, r.cost),
                          Status("Match", cost + 1), c.children)
           [] c.op = "Any" ->
                 FoldLeft(LAMBDA r, child :
                              IF r.err # "none" \/ r.status = "Match" THEN r
                              ELSE AnyStatus(r, EvaluateCondition(child, call, r.cost)),
                          Status("NoMatch", cost + 1), c.children)
           [] c.op = "Not" -> Negate(EvaluateCondition(c.children[1], call, cost + 1))
           [] OTHER -> EvaluateFact(c, call, cost + 1)

-----------------------------------------------------------------------------
(* One iteration of Evaluate; so far is the decision and the cost.         *)

InScope(rule, request) ==
    /\ rule.tenant = request.tenant /\ rule.action = request.action /\ rule.type = request.type
    /\ rule.resource \in {0, request.resource}

(* Variant with a mistake: every rule starts with a fresh cost counter.    *)
EvaluateRuleAfresh(sofar, rule, request, call) ==
    LET result == EvaluateCondition(rule.condition, call, 0) IN
    IF ~InScope(rule, request) THEN sofar
    ELSE [cost |-> result.cost,
          decision |-> CASE result.err # "none" -> Refused(result.err)
                         [] result.err = "none" /\ result.status = "Match" ->
                                Match(sofar.decision, rule.id, rule.effect, call.limits.maxMatches)
                         [] OTHER -> sofar.decision]

EvaluateRule(sofar, rule, request, call) ==
    LET result == EvaluateCondition(rule.condition, call, sofar.cost) IN
    IF ~InScope(rule, request) THEN sofar
    ELSE [cost |-> result.cost,
          decision |-> CASE result.err # "none" -> Refused(result.err)
                         [] result.err = "none" /\ result.status = "Match" ->
                                Match(sofar.decision, rule.id, rule.effect, call.limits.maxMatches)
                         [] OTHER -> sofar.decision]

=============================================================================
