-------------------------------- MODULE Document --------------------------------
(***************************************************************************)
(* The editable documents of the three models: acl/document.go,            *)
(* rbac/document.go and abac/document.go.  A document is the record of its *)
(* members; effects, operators, sources and kinds are labels, any other    *)
(* string is "unknown".  A reference with an unknown source or an empty    *)
(* attribute is 0.  Optional members are sequences of at most one element. *)
(***************************************************************************)
EXTENDS Acl, Rbac, Abac

CONSTANTS
    MaxEncodedDocumentBytes,
    UTF8   \* a string as encoding/json writes and reads it

Built(model) == [err |-> "none", model |-> model]
NotBuilt(err) == [err |-> err, model |-> <<>>]

DocumentVersion == 1

ParseEffect(label) ==
    CASE label = "allow" -> "Allow" [] label = "deny" -> "Deny" [] OTHER -> "invalid"

(* The effects are parsed in order before New sees any of the items.       *)
ParsedEffects(items) == [i \in DOMAIN items |-> [items[i] EXCEPT !.effect = ParseEffect(@)]]

EffectError(items) ==
    IF \E i \in DOMAIN items : ParseEffect(items[i].effect) = "invalid"
    THEN "ErrInvalidDocument" ELSE "none"

(* What WithGlobalInheritance and WithLimits do is in the model's record.  *)
BuildAcl(document) ==
    LET model == [entries |-> ParsedEffects(document.entries),
                  limits |-> AclLimits(document.limits),
                  inheritGlobal |-> document.globalInheritance]
        err == FirstError(<< <<document.version # DocumentVersion, "ErrUnsupportedDocumentVersion">>,
                             <<TRUE, EffectError(document.entries)>> >>)
    IN  IF err # "none" THEN {NotBuilt(err)}
        ELSE IF NewAcl(model) # "none" THEN {NotBuilt(NewAcl(model))}
        ELSE {Built(model)}

BuildRbac(document) ==
    LET model == [roles |-> document.roles, permissions |-> ParsedEffects(document.permissions),
                  assignments |-> document.assignments,
                  limits |-> RbacLimits(document.limits),
                  inheritGlobal |-> document.globalInheritance]
        err == FirstError(<< <<document.version # DocumentVersion, "ErrUnsupportedDocumentVersion">>,
                             <<TRUE, EffectError(document.permissions)>> >>)
    IN  IF err # "none" THEN {NotBuilt(err)}
        ELSE {IF e = "none" THEN Built(model) ELSE NotBuilt(e) : e \in New(model)}

-----------------------------------------------------------------------------
(* Conditions of ABAC documents                                            *)


(* The children an operator selects; other members are inactive.           *)
SelectedChildren(c) ==
    CASE c.operator \in {"all", "any"} -> c.conditions
      [] c.operator = "not" -> c.condition
      [] OTHER -> <<>>

(* validateConditionDocumentLimits finds a node below maxDepth.            *)
RECURSIVE DeeperThan(_, _, _)
DeeperThan(c, depth, maxDepth) ==
    \/ depth > maxDepth
    \/ \E i \in DOMAIN SelectedChildren(c) :
           DeeperThan(SelectedChildren(c)[i], depth + 1, maxDepth)

KindOfLabel ==
    [null |-> "Null", string |-> "String", bool |-> "Bool", int |-> "Int", float |-> "Float",
     time |-> "Time", ip |-> "IP", string_set |-> "StringSet"]

(* build of ValueDocument: times and addresses may not parse, floats may   *)
(* not be finite.                                                          *)
ValueError(v) ==
    CASE v.kind \notin DOMAIN KindOfLabel \/ (v.kind \in {"time", "ip"} /\ ~v.wellFormed) ->
             "ErrInvalidDocument"
      [] v.kind = "float" /\ ~v.wellFormed -> "ErrInvalidFloat"
      [] OTHER -> "none"

BuildValue(v) ==
    CASE v.kind = "null" -> NullValue
      [] v.kind = "string_set" -> StringSetValue(v.strings)
      [] OTHER -> Value(KindOfLabel[v.kind], v.scalar)

OpOfOperator ==
    [all |-> "All", any |-> "Any", not |-> "Not", exists |-> "Exists", is_null |-> "IsNull",
     equal |-> "Equal", greater_than |-> "GreaterThan", less_than |-> "LessThan", in |-> "In",
     set_contains |-> "SetContains", has_prefix |-> "HasPrefix", has_suffix |-> "HasSuffix",
     string_contains |-> "StringContains", ip_in |-> "IPIn"]

(* The literals an operator reads.                                         *)
Literals(c) ==
    CASE c.operator \in {"equal", "greater_than", "less_than"} -> c.value
      [] c.operator = "in" -> c.values
      [] OTHER -> <<>>

(* The errors of a leaf, in the order build meets them.                    *)
LeafError(c) ==
    FirstError(<<
        <<c.ref = 0 \/ c.operator \notin DOMAIN OpOfOperator, "ErrInvalidDocument">>,
        <<c.operator \in {"equal", "greater_than", "less_than"} /\ c.value = <<>>,
          "ErrInvalidDocument">>,
        <<c.operator = "ip_in" /\ c.operand = {}, "ErrInvalidDocument">>,
        <<TRUE, FirstFailure(Len(Literals(c)), LAMBDA i : ValueError(Literals(c)[i]))>> >>)

(* build of ConditionDocument: what it returns, and how deep it recurses   *)
(* if no child fails.                                                      *)
RECURSIVE BuildCondition(_)
BuildCondition(c) ==
    LET combinator == c.operator \in {"all", "any", "not"}
        children == IF c.operator = "not" THEN c.condition ELSE c.conditions
        built == [i \in DOMAIN children |-> BuildCondition(children[i])]
        err == IF ~combinator THEN LeafError(c)
               ELSE IF c.operator = "not" /\ children = <<>> THEN "ErrInvalidDocument"
               ELSE FirstFailure(Len(children), LAMBDA i : built[i].err)
    IN  [err |-> err,
         depth |-> 1 + IF combinator THEN Max({0} \cup {built[i].depth : i \in DOMAIN built}) ELSE 0,
         condition |->
            IF err # "none" THEN [op |-> "Nil"]
            ELSE [op |-> OpOfOperator[c.operator], ref |-> IF combinator THEN 0 ELSE c.ref,
                  want |-> [i \in DOMAIN Literals(c) |-> BuildValue(Literals(c)[i])],
                  holds |-> c.operand,
                  children |-> IF combinator THEN [i \in DOMAIN built |-> built[i].condition] ELSE <<>>]]

-----------------------------------------------------------------------------
(* Build of an ABAC document                                               *)

ConditionsOf(document) ==
    [i \in DOMAIN document.namedConditions |-> document.namedConditions[i].condition]
      \o FlattenSeq([i \in DOMAIN document.rules |-> document.rules[i].condition])

TooDeep(document) ==
    \E i \in DOMAIN ConditionsOf(document) :
        DeeperThan(ConditionsOf(document)[i], 1, AbacLimits(document.limits).maxDepth)

NamedOf(definition) ==
    [definition EXCEPT !.condition = BuildCondition(definition.condition).condition]

RuleOf(rule) ==
    [rule EXCEPT !.effect = ParseEffect(@),
                 !.condition = IF @ = <<>> THEN [op |-> "Nil"] ELSE BuildCondition(@[1]).condition]

RuleDocumentError(rule) ==
    IF ParseEffect(rule.effect) = "invalid" THEN "ErrInvalidDocument"
    ELSE FirstFailure(Len(rule.condition), LAMBDA i : BuildCondition(rule.condition[i]).err)

(* Named conditions are built first, then the rules.                       *)
BuildError(document) ==
    LET named == FirstFailure(Len(document.namedConditions), LAMBDA i :
                     BuildCondition(document.namedConditions[i].condition).err)
    IN  IF named # "none" THEN named
        ELSE FirstFailure(Len(document.rules), LAMBDA i : RuleDocumentError(document.rules[i]))

BuildAbac(document) ==
    LET model == [rules |-> [i \in DOMAIN document.rules |-> RuleOf(document.rules[i])],
                  named |-> [i \in DOMAIN document.namedConditions |->
                                NamedOf(document.namedConditions[i])],
                  limits |-> AbacLimits(document.limits)]
    IN  IF document.version # DocumentVersion THEN {NotBuilt("ErrUnsupportedDocumentVersion")}
        ELSE IF TooDeep(document) THEN {NotBuilt("ErrDepthExceeded")}
        ELSE IF BuildError(document) # "none" THEN {NotBuilt(BuildError(document))}
        ELSE IF NewAbac(model) # "none" THEN {NotBuilt(NewAbac(model))}
        ELSE {Built(model)}

-----------------------------------------------------------------------------
(* The wire format.  A text is the document it holds, its length, and      *)
(* whether it is a single JSON value with known members only.              *)

Build(model, document) ==
    CASE model = "acl" -> BuildAcl(document)
      [] model = "rbac" -> BuildRbac(document)
      [] model = "abac" -> BuildAbac(document)

DecodeDocument(model, text) ==
    IF text.bytes > MaxEncodedDocumentBytes THEN {NotBuilt("ErrDocumentLimitExceeded")}
    ELSE IF ~text.wellFormed THEN {NotBuilt("ErrInvalidDocument")}
    ELSE Build(model, text.document)

-----------------------------------------------------------------------------
(* EncodeDocument.  Marshaling puts replacement characters for what is not *)
(* UTF-8 in a string; labels that the packages know, times and addresses   *)
(* are UTF-8 in any document that builds.                                  *)

Coerced(item, members) ==
    [m \in DOMAIN item |-> IF m \in members THEN UTF8[item[m]] ELSE item[m]]

WrittenAcl(document) ==
    LET WrittenEntry(e) ==
            [Coerced(e, {"id", "action", "type", "resource", "tenant"}) EXCEPT !.subject[2] = UTF8[@]]
    IN  [document EXCEPT !.entries = [i \in DOMAIN @ |-> WrittenEntry(@[i])]]

WrittenRbac(document) ==
    LET WrittenRole(r) ==
            [Coerced(r, {"id", "tenant"}) EXCEPT !.parents = [i \in DOMAIN @ |-> UTF8[@[i]]]]
        WrittenAssignment(a) ==
            [Coerced(a, {"id", "role", "tenant"}) EXCEPT !.subject.id = UTF8[@]]
    IN  [document EXCEPT
            !.roles = [i \in DOMAIN @ |-> WrittenRole(@[i])],
            !.permissions = [i \in DOMAIN @ |->
                Coerced(@[i], {"id", "role", "tenant", "action", "type", "resource"})],
            !.assignments = [i \in DOMAIN @ |-> WrittenAssignment(@[i])]]

WrittenValue(v) ==
    [v EXCEPT !.scalar = IF v.kind = "string" THEN UTF8[@] ELSE @,
              !.strings = [i \in DOMAIN @ |-> UTF8[@[i]]]]

RECURSIVE WrittenCondition(_)
WrittenCondition(c) ==
    LET WrittenAll(cs) == [i \in DOMAIN cs |-> WrittenCondition(cs[i])] IN
    [c EXCEPT !.ref = UTF8[@], !.operand = {UTF8[s] : s \in @},
              !.value = [i \in DOMAIN @ |-> WrittenValue(@[i])],
              !.values = [i \in DOMAIN @ |-> WrittenValue(@[i])],
              !.conditions = WrittenAll(@), !.condition = WrittenAll(@)]

WrittenAbac(document) ==
    LET WrittenRule(r) ==
            [Coerced(r, {"id", "tenant", "action", "type", "resource", "name"}) EXCEPT
                !.condition = [i \in DOMAIN @ |-> WrittenCondition(@[i])]]
        WrittenNamed(d) ==
            [Coerced(d, {"name"}) EXCEPT !.condition = WrittenCondition(@)]
    IN  [document EXCEPT !.rules = [i \in DOMAIN @ |-> WrittenRule(@[i])],
                         !.namedConditions = [i \in DOMAIN @ |-> WrittenNamed(@[i])]]

(* The document a reader of what MarshalIndent wrote finds.                *)
Written(model, document) ==
    CASE model = "acl" -> WrittenAcl(document)
      [] model = "rbac" -> WrittenRbac(document)
      [] model = "abac" -> WrittenAbac(document)

NoText == [document |-> <<>>, bytes |-> 0, wellFormed |-> FALSE]

(* EncodeDocument of a document whose indented text has that length.  JSON *)
(* cannot write it if a member it does not use is a float that is not      *)
(* finite.                                                                 *)
EncodeDocument(model, document, bytes, writable) ==
    {LET err == FirstError(<< <<built.err # "none", built.err>>, <<~writable, "UnsupportedValueError">>,
                              <<bytes > MaxEncodedDocumentBytes, "ErrDocumentLimitExceeded">> >>)
     IN  [err |-> err,
          text |-> IF err # "none" THEN NoText
                   ELSE [document |-> Written(model, document), bytes |-> bytes, wellFormed |-> TRUE]] :
        built \in Build(model, document)}

=============================================================================
