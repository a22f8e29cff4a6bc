--------------------------- MODULE MCModelEvaluation ---------------------------
(***************************************************************************)
(* Instance of ModelEvaluation: every list of up to two ACL entries for a  *)
(* user and a group, every list of three for the user alone, and rules     *)
(* with conditions up to height three (one of height four, refused) over   *)
(* facts that are present, null, missing, of another kind or too large.    *)
(***************************************************************************)
EXTENDS ModelEvaluation

ListLimits == AclLimits([maxEntries |-> 3, maxGroups |-> 2, maxMatches |-> 2, maxBatchSize |-> 0])

RuleLimits ==
    AbacLimits([maxRules |-> 2, maxNamedConditions |-> 1, maxDepth |-> 3, maxCost |-> 5,
                maxMatches |-> 1, maxSetSize |-> 1, maxBatchSize |-> 0])

Entry(id, subject, resource, tenant, effect) ==
    [id |-> id, subject |-> subject, action |-> 1, type |-> 1,
     resource |-> resource, tenant |-> tenant, effect |-> effect]

Shapes == {<<"user", 1>>, <<"group", 1>>} \X {0, 1} \X {0, 1} \X {"Allow", "Deny"}

AclModel(shapes, inheritGlobal) ==
    [entries |-> [i \in DOMAIN shapes |-> Entry(i, shapes[i][1], shapes[i][2], shapes[i][3], shapes[i][4])],
     limits |-> ListLimits, inheritGlobal |-> inheritGlobal]

Base == AclModel(<< <<<<"user", 1>>, 0, 0, "Allow">>, <<<<"group", 1>>, 1, 0, "Deny">> >>, FALSE)

MCAclModels ==
    {AclModel(shapes, g) : shapes \in UNION {[1..n -> Shapes] : n \in {0, 1, 2}}, g \in BOOLEAN}
    \cup {AclModel(shapes, TRUE) : shapes \in [1..3 -> {<<"user", 1>>} \X {0, 1, 2} \X {0} \X {"Allow", "Deny"}]}
    \cup {[Base EXCEPT !.entries[2].id = 1], [Base EXCEPT !.entries[2].action = 0],
          [Base EXCEPT !.entries = @ \o @]}

-----------------------------------------------------------------------------

Node(op, children) == [op |-> op, ref |-> 0, want |-> <<>>, holds |-> {}, children |-> children]

Leaf(op, ref, want, holds) ==
    [op |-> op, ref |-> ref, want |-> want, holds |-> holds, children |-> <<>>]

Nil == Node("Nil", <<>>)

Number(n) == Value("Int", n)
Exists == Leaf("Exists", 1, <<>>, {})
Below(ref) == Leaf("LessThan", ref, <<Number(2)>>, {})

Leaves == {Exists, Leaf("IsNull", 1, <<>>, {}), Leaf("Equal", 1, <<NullValue>>, {}),
           Leaf("Equal", 1, <<StringSetValue(<<1>>)>>, {}), Below(1), Below(2)}

(* The other operators, and literals they refuse.                          *)
Lone == {Leaf("GreaterThan", 1, <<Number(1)>>, {}), Leaf("LessThan", 1, <<Value("Bool", 1)>>, {}),
         Leaf("In", 1, <<Number(1)>>, {}), Leaf("In", 1, <<Number(1), Number(3)>>, {}), Leaf("In", 1, <<>>, {}),
         Leaf("Equal", 1, <<Value("Missing", 0)>>, {}),
         Leaf("SetContains", 1, <<>>, {1}), Leaf("HasPrefix", 2, <<>>, {1}), Leaf("HasSuffix", 1, <<>>, {1}),
         Leaf("StringContains", 1, <<>>, {1}), Leaf("IPIn", 1, <<>>, {1}), Leaf("IPIn", 1, <<>>, {})}

Over(set) == {Node("Not", <<c>>) : c \in set}
             \cup {Node(op, <<c, d>>) : op \in {"All", "Any"}, c \in set, d \in Leaves}

Conditions == Leaves \cup Lone \cup Over(Leaves)
              \cup {Node("Not", <<c>>) : c \in Over(Leaves)}
              \cup {Node("All", <<Below(2), c>>) : c \in Over(Leaves)}
              \cup {Node("Not", <<>>), Node("Any", <<Nil>>), Leaf("Exists", 0, <<>>, {}),
                    Node("Not", <<Node("Not", <<Node("Not", <<Below(1)>>)>>)>>)}

Rule(id, priority, effect, condition, name, version, resource) ==
    [id |-> id, priority |-> priority, tenant |-> 0, action |-> 1, type |-> 1, resource |-> resource,
     effect |-> effect, condition |-> condition, name |-> name, version |-> version]

AbacModel(rules, named) == [rules |-> rules, named |-> named, limits |-> RuleLimits]

Named == [name |-> 1, version |-> 1, condition |-> Below(2)]

MCAbacModels ==
    {AbacModel(<<Rule(1, 0, "Allow", c, 0, 0, 0), Rule(2, p, "Deny", Nil, 1, 1, 1)>>, <<Named>>) :
        c \in Conditions, p \in {0, 1}}
    \cup {AbacModel(<<Rule(1, 0, e, Nil, n, v, 0)>>, named) :
        e \in {"Allow", "NotApplicable"}, n \in {0, 1}, v \in {0, 1, 2},
        named \in {<<>>, <<Named>>, <<Named, Named>>, <<[Named EXCEPT !.version = 0]>>}}
    \cup {AbacModel(<<Rule(1, 0, "Allow", Exists, 0, 0, 0),
                      Rule(i, 0, "Deny", Exists, 0, 0, 0),
                      Rule(3, 0, "Allow", Exists, 0, 0, 0)>>, <<>>) : i \in {1, 2}}

-----------------------------------------------------------------------------

Facts == [1..2 -> {Number(1), Number(2), NullValue, Value("Missing", 0),
                   StringSetValue(<<1>>), StringSetValue(<<2, 1>>)}]
           \cup {<<Value("String", n), Value("IP", n)>> : n \in {1, 2}}
           \cup {<<Value("IP", n), Value("String", n)>> : n \in {1, 2}}

Request(groups, resource, tenant, facts) ==
    [subject |-> [kind |-> "user", id |-> 1, groups |-> groups],
     action |-> 1, type |-> 1, resource |-> resource, tenant |-> tenant, facts |-> facts]

MCAclRequests ==
    {Request(groups, resource, tenant, <<>>) :
        groups \in {<<>>, <<1>>, <<1, 1>>, <<1, 1, 1>>}, resource \in {1, 2}, tenant \in {0, 1}}

MCAbacRequests == {Request(<<>>, resource, 0, facts) : resource \in {1, 2}, facts \in Facts}

MCResourceIDs == {1, 2}

-----------------------------------------------------------------------------
(* Documents: one of every operator, each flaw that some check refuses,    *)
(* and trees at, below and above the depth limit, also in members that the *)
(* operator does not select.                                               *)

Literal(kind, scalar, wellFormed) ==
    [kind |-> kind, scalar |-> scalar, strings |-> <<1, 2, 1>>, wellFormed |-> wellFormed]

Doc(operator) ==
    [operator |-> operator, ref |-> 1, value |-> <<Literal("int", 1, TRUE)>>,
     values |-> <<Literal("int", 1, TRUE)>>, conditions |-> <<>>, condition |-> <<>>, operand |-> {1}]

DocNot(c) == [Doc("not") EXCEPT !.condition = <<c>>]
DocAny(c) == [Doc("any") EXCEPT !.conditions = <<c, Doc("exists")>>]
Deep == DocNot(DocNot(DocNot(Doc("exists"))))

Equals(literal) == [Doc("equal") EXCEPT !.value = <<literal>>]

ConditionDocuments ==
    {Doc(operator) : operator \in DOMAIN OpOfOperator \cup {"unknown"}}
    \cup {Equals(Literal(kind, 1, w)) : kind \in DOMAIN KindOfLabel \cup {"unknown"}, w \in BOOLEAN}
    \cup {[Doc("equal") EXCEPT !.value = <<>>], [Doc("exists") EXCEPT !.ref = 0],
          [Doc("ip_in") EXCEPT !.operand = {}],
          [Doc("in") EXCEPT !.values = <<Literal("int", 2, TRUE), Literal("ip", 2, FALSE)>>],
          DocNot(DocNot(Doc("exists"))), DocNot(DocAny(Doc("is_null"))), DocAny(DocNot(Doc("unknown"))),
          Deep, DocAny(DocNot(DocNot(Doc("exists")))),
          [Doc("exists") EXCEPT !.condition = <<Deep>>], [DocNot(Doc("exists")) EXCEPT !.conditions = <<Deep>>],
          [DocAny(Doc("is_null")) EXCEPT !.condition = <<Deep>>]}

RuleDocument(c, name, version, effect) ==
    [id |-> 1, priority |-> 0, tenant |-> 0, action |-> 1, type |-> 1, resource |-> 0,
     effect |-> effect, condition |-> c, name |-> name, version |-> version]

AbacDocument(rules, named) ==
    [version |-> 1, limits |-> [RuleLimits EXCEPT !.maxSetSize = 2], rules |-> rules, namedConditions |-> named]

PlainAbac == AbacDocument(<<RuleDocument(<<Doc("less_than")>>, 0, 0, "deny")>>, <<>>)

AbacDocuments ==
    {AbacDocument(<<RuleDocument(<<c>>, 0, 0, "allow")>>, <<>>) : c \in ConditionDocuments}
    \cup {AbacDocument(<<RuleDocument(<<>>, 1, 1, "deny")>>, <<[name |-> 1, version |-> v, condition |-> c]>>) :
            v \in {0, 1}, c \in {Doc("exists"), Doc("unknown"), Deep}}
    \cup {PlainAbac, [PlainAbac EXCEPT !.version = 2], [PlainAbac EXCEPT !.rules[1].effect = "unknown"],
          [PlainAbac EXCEPT !.limits.maxDepth = 0, !.rules[1].condition = <<Deep>>]}

PlainAcl ==
    [version |-> 1, globalInheritance |-> TRUE, limits |-> ListLimits,
     entries |-> <<[Entry(1, <<"group", 1>>, 0, 0, "allow") EXCEPT !.tenant = 0]>>]

PlainRbac ==
    [version |-> 1, globalInheritance |-> FALSE, limits |-> [f \in DOMAIN DefaultLimits |-> 0],
     roles |-> <<[id |-> 1, tenant |-> 0, parents |-> <<2>>], [id |-> 2, tenant |-> 0, parents |-> <<>>]>>,
     permissions |-> <<[id |-> 1, role |-> 2, tenant |-> 0, action |-> 1, type |-> 1,
                        resource |-> 1, effect |-> "allow", priority |-> 0]>>,
     assignments |-> <<[id |-> 1, subject |-> [kind |-> "user", id |-> 1], role |-> 1, tenant |-> 0]>>]

AclDocuments == {PlainAcl, [PlainAcl EXCEPT !.version = 0], [PlainAcl EXCEPT !.entries[1].effect = "unknown"],
                 [PlainAcl EXCEPT !.entries = @ \o @]}

RbacDocuments == {PlainRbac, [PlainRbac EXCEPT !.version = 0], [PlainRbac EXCEPT !.permissions[1].effect = "unknown"],
                  [PlainRbac EXCEPT !.roles[2].parents = <<1>>], [PlainRbac EXCEPT !.permissions[1].effect = "deny"]}

Source(m, document, bytes, wellFormed) ==
    [model |-> m, text |-> [document |-> document, bytes |-> bytes, wellFormed |-> wellFormed]]

Sources(m, documents, plain) ==
    {Source(m, d, 10, TRUE) : d \in documents}
    \cup {Source(m, plain, bytes, w) : bytes \in {9, 11}, w \in BOOLEAN}

MCDocuments ==
    Sources("acl", AclDocuments, PlainAcl) \cup Sources("rbac", RbacDocuments, PlainRbac)
    \cup Sources("abac", AbacDocuments, PlainAbac)

(* Edited documents: the strings 5 and 6 are not UTF-8 and are both        *)
(* written as 7.                                                           *)
MCUTF8 == [s \in 0..7 |-> IF s \in {5, 6} THEN 7 ELSE s]

TwoEntries(id) == [PlainAcl EXCEPT !.entries = <<[@[1] EXCEPT !.id = 5], [@[1] EXCEPT !.id = id]>>]

TwoRoles(id, parent, role) ==
    [PlainRbac EXCEPT !.roles[2].id = id, !.roles[1].parents = <<parent>>, !.permissions[1].role = role]

NamedAs(name, other, wanted) ==
    AbacDocument(<<RuleDocument(<<>>, wanted, 1, "deny")>>,
                 <<[name |-> name, version |-> 1, condition |-> Doc("exists")],
                   [name |-> other, version |-> 1, condition |-> Doc("is_null")]>>)

ThreeRoles ==
    [PlainRbac EXCEPT !.roles = <<[id |-> 1, tenant |-> 0, parents |-> <<5>>],
                                  [id |-> 5, tenant |-> 0, parents |-> <<2>>],
                                  [id |-> 2, tenant |-> 0, parents |-> <<>>]>>]

Draft(m, document, bytes, writable) ==
    [model |-> m, document |-> document, bytes |-> bytes, writable |-> writable, text |-> NoText]

Drafts ==
    [acl |-> AclDocuments \cup {TwoEntries(id) : id \in 1..6}
               \cup {[PlainAcl EXCEPT !.entries[1].subject[2] = 5]},
     rbac |-> RbacDocuments \cup {TwoRoles(id, id, id) : id \in {5, 6}} \cup {ThreeRoles}
               \cup {[ThreeRoles EXCEPT !.roles[3].id = 6, !.roles[2].parents = <<6>>,
                                         !.permissions[1].role = 6]},
     abac |-> AbacDocuments \cup {NamedAs(n, o, w) : n, o, w \in {1, 5, 6}}
               \cup {AbacDocument(<<RuleDocument(<<Equals(Literal("string", 5, TRUE))>>, 0, 0, "allow"),
                                    [RuleDocument(<<[Doc("exists") EXCEPT !.ref = 5]>>, 0, 0, "allow")
                                         EXCEPT !.id = id]>>, <<>>) : id \in {2, 6}}
               \cup {AbacDocument(<<RuleDocument(<<[Doc("in") EXCEPT !.values =
                            <<Literal("string", 5, TRUE), Literal("string", 6, TRUE)>>]>>, 0, 0, "allow")>>, <<>>)}]

MCEdited ==
    UNION {{Draft(m, d, 10, TRUE) : d \in Drafts[m]} : m \in DOMAIN Drafts}
    \cup {Draft("abac", PlainAbac, bytes, w) : bytes \in {9, 11}, w \in BOOLEAN}

MCDocumentRequests ==
    {Request(<<1>>, 1, 0, facts \o [i \in 1..5 |-> Value("Missing", 0)]) :
        facts \in {<<Number(0), Number(1)>>, <<NullValue, Number(1)>>, <<StringSetValue(<<1, 2>>), Number(1)>>}}

-----------------------------------------------------------------------------
(* Principals: claims of every type, at and beyond the ends of int64.      *)

Claim(type, value, elements, form) ==
    [type |-> type, value |-> value, elements |-> elements, form |-> form]

Scalar(type, value) == Claim(type, value, <<>>, "finite")
List(type, elements) == Claim(type, 0, elements, "finite")

Claims ==
    {Scalar("int64", n) : n \in -4..3} \cup {Scalar("uint64", n) : n \in 0..7}
    \cup {Claim("Number", n, <<>>, form) : n \in {-5, -4, 0, 3, 4},
              form \in {"integer", "finite", "nonfinite", "malformed"}}
    \cup {Claim("float64", 1, <<>>, form) : form \in {"finite", "nonfinite"}}
    \cup {Scalar(type, 1) : type \in {"nil", "string", "bool", "Time", "Addr", "struct"}}
    \cup {List(type, elements) : type \in {"[]string", "[]any"}, elements \in {<<>>, <<1, 1>>}}

GroupClaims ==
    {List("[]string", groups) : groups \in {<<>>, <<1>>, <<1, 1>>, <<1, 2, 3>>, <<0>>}}
    \cup {List("[]any", <<1>>), List("[]any", <<1, -1>>), Scalar("string", 1)}

Identity(attribute, groups, maxGroups) ==
    [principal |-> [kind |-> "user", subject |-> 1, claims |-> <<attribute, groups>>],
     config |-> [kind |-> "user", attributeClaims |-> <<1>>, groupsClaim |-> 2, maxGroups |-> maxGroups]]

PlainIdentity == Identity(Scalar("int64", 1), List("[]string", <<1>>), 2)

MCIdentities ==
    {Identity(attribute, List("[]string", <<1>>), 2) : attribute \in Claims}
    \cup {Identity(Scalar("int64", 1), groups, maxGroups) : groups \in GroupClaims, maxGroups \in {-1, 0, 2}}
    \cup {[PlainIdentity EXCEPT !.principal.kind = kind] : kind \in {"nil", "anonymous"}}
    \cup {[PlainIdentity EXCEPT !.principal.subject = 0], [PlainIdentity EXCEPT !.config.kind = ""],
          [PlainIdentity EXCEPT !.config.attributeClaims = <<0>>], [PlainIdentity EXCEPT !.config.groupsClaim = 0],
          [PlainIdentity EXCEPT !.config.groupsClaim = 3],
          [PlainIdentity EXCEPT !.config.attributeClaims = <<3, 2>>],
          [PlainIdentity EXCEPT !.config.attributeClaims = <<3, 1>>,
                                !.principal.claims[1] = Scalar("struct", 1)]}

MCIdentityModels ==
    {Base} \cup {AbacModel(<<Rule(1, 0, "Allow", Leaf(op, 1, <<Number(n)>>, {}), 0, 0, 0)>>, <<>>) :
                    op \in {"LessThan", "GreaterThan"}, n \in {-1, 1}}

MCIdentityRequests == {Request(<<>>, 1, 0, <<Value("Missing", 0), Value("Missing", 0)>>)}

=============================================================================
