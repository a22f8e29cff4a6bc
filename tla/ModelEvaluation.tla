---------------------------- MODULE ModelEvaluation ----------------------------
(***************************************************************************)
(* One call of an RBAC, ACL or ABAC evaluator, of rbac/rbac.go, acl/acl.go *)
(* and abac/abac.go, and the context of its caller, which may end at any   *)
(* time.  The ACL loops look at the context before every principal, the    *)
(* ABAC conditions at every node they visit, RBAC once.  The evaluator is  *)
(* constructed directly or decoded from a document, which may first have   *)
(* been edited and encoded; the subject of the request is given or mapped  *)
(* from an authenticated principal.                                        *)
(***************************************************************************)
EXTENDS Document, Authn

CONSTANTS AclModels, AbacModels,      \* arguments of the two constructors
          AclRequests, AbacRequests,  \* requests, with the facts ABAC reads
          Documents,                  \* texts of documents, with their model
          Edited,                     \* documents to encode, with their model
          DocumentRequests,           \* requests of the evaluators built from them
          Identities,                 \* principals with the mapping's configuration
          IdentityModels,             \* ACL and ABAC models they are evaluated by
          IdentityRequests,           \* their requests, before the subject is set
          ResourceIDs                 \* instances the list is compared on

VARIABLES origin, identity, model, request, operation, failure,
          canceled, pc, index, decision, listing, cost

input == <<origin, identity, model, request, operation, failure>>
vars == <<input, canceled, pc, index, decision, listing, cost>>

NoDocument == [model |-> "none"]
NoIdentity == [principal |-> [kind |-> "none"]]

OperationOf == [acl |-> "AclEvaluate", rbac |-> "RbacEvaluate", abac |-> "AbacEvaluate"]

Direct ==
    /\ pc = "new" /\ origin = NoDocument /\ identity = NoIdentity
    /\ \/ /\ model \in AclModels /\ request \in AclRequests
          /\ operation \in {"AclEvaluate", "ListResourceIDs"}
       \/ /\ model \in AbacModels /\ request \in AbacRequests
          /\ operation = "AbacEvaluate"

FromDocument ==
    /\ \/ pc = "document" /\ origin \in Documents
       \/ pc = "edited" /\ origin \in Edited
    /\ identity = NoIdentity
    /\ model = <<>> /\ request \in DocumentRequests
    /\ operation = OperationOf[origin.model]

FromPrincipal ==
    /\ pc = "principal" /\ origin = NoDocument /\ identity \in Identities
    /\ model \in IdentityModels /\ request \in IdentityRequests
    /\ operation = IF "entries" \in DOMAIN model THEN "AclEvaluate" ELSE "AbacEvaluate"

Init ==
    /\ Direct \/ FromDocument \/ FromPrincipal
    /\ failure = "none"
    /\ canceled = FALSE
    /\ index = 1
    /\ decision = Undecided
    /\ listing = NoListing
    /\ cost = 0

-----------------------------------------------------------------------------

(* authn.Subject: the subject, whose attributes the conditions refer to.   *)
MapSubject ==
    /\ pc = "principal"
    /\ failure' \in SubjectErrors(identity.principal, identity.config)
    /\ IF failure' = "none"
       THEN LET subject == MappedSubject(identity.principal, identity.config) IN
            /\ request' = [request EXCEPT !.subject = subject, !.facts = subject.attributes @@ @]
            /\ pc' = "new"
       ELSE UNCHANGED request /\ pc' = "refused"
    /\ UNCHANGED <<origin, identity, model, operation, canceled, index, decision, listing, cost>>

(* EncodeDocument of the model's package, Build included.                  *)
Encode ==
    /\ pc = "edited"
    /\ \E encoded \in EncodeDocument(origin.model, origin.document, origin.bytes, origin.writable) :
         /\ failure' = encoded.err
         /\ IF encoded.err = "none"
            THEN origin' = [origin EXCEPT !.text = encoded.text] /\ pc' = "document"
            ELSE UNCHANGED origin /\ pc' = "refused"
    /\ UNCHANGED <<identity, model, request, operation, canceled, index, decision, listing, cost>>

(* DecodeDocument of the model's package, New included.                    *)
Decode ==
    /\ pc = "document"
    /\ \E built \in DecodeDocument(origin.model, origin.text) :
         /\ failure' = built.err
         /\ model' = built.model
         /\ pc' = IF built.err = "none" THEN "call" ELSE "refused"
    /\ UNCHANGED <<origin, identity, request, operation, canceled, index, decision, listing, cost>>

Fail(err) ==
    /\ pc' = "done"
    /\ decision' = Refused(err)
    /\ listing' = [NoListing EXCEPT !.err = err]
    /\ UNCHANGED <<index, cost>>

(* New of either package.                                                  *)
NewError == IF operation = "AbacEvaluate" THEN NewAbac(model) ELSE NewAcl(model)

Construct ==
    /\ pc = "new"
    /\ failure' = NewError
    /\ pc' = IF NewError = "none" THEN "call" ELSE "refused"
    /\ UNCHANGED <<origin, identity, model, request, operation, canceled, index, decision, listing, cost>>

(* What the loop of the operation ranges over.                             *)
Work ==
    CASE operation = "AclEvaluate" -> PrincipalList(request.subject)
      [] operation = "ListResourceIDs" -> PrincipalKeys(request.subject)
      [] operation = "AbacEvaluate" -> SortedRules(model)

(* What Evaluate and ListResourceIDs of ACL do before their loops.         *)
CallAcl ==
    /\ pc = "call" /\ operation \in {"AclEvaluate", "ListResourceIDs"}
    /\ CASE canceled -> Fail("ContextError")
         [] ~canceled /\ Len(request.subject.groups) > model.limits.maxGroups ->
                Fail("ErrGroupLimitExceeded")
         [] OTHER -> pc' = "loop" /\ UNCHANGED <<index, decision, listing, cost>>
    /\ UNCHANGED <<input, canceled>>

EvaluatePrincipal ==
    /\ pc = "loop" /\ operation = "AclEvaluate" /\ index <= Len(Work)
    /\ IF canceled THEN Fail("ContextError")
       ELSE LET next == IF SeenBefore(Work, index) THEN decision
                        ELSE MatchEntries(decision, model, request, Work[index]) IN
            /\ decision' = next
            /\ pc' = IF next.err # "none" THEN "done" ELSE "loop"
            /\ index' = index + 1
            /\ UNCHANGED <<listing, cost>>
    /\ UNCHANGED <<input, canceled>>

ListPrincipal ==
    /\ pc = "loop" /\ operation = "ListResourceIDs" /\ index <= Len(Work)
    /\ IF canceled THEN Fail("ContextError")
       ELSE LET next == ListEntries(listing, model, request, Work[index]) IN
            /\ listing' = next
            /\ pc' = IF next.denied \/ next.err # "none" THEN "done" ELSE "loop"
            /\ index' = index + 1
            /\ UNCHANGED <<decision, cost>>
    /\ UNCHANGED <<input, canceled>>

EvaluateRbac ==
    /\ pc = "call" /\ operation = "RbacEvaluate"
    /\ decision' = Evaluate(model, [canceled |-> canceled] @@ request)
    /\ pc' = "done"
    /\ UNCHANGED <<input, canceled, index, listing, cost>>

CallAbac ==
    /\ pc = "call" /\ operation = "AbacEvaluate"
    /\ pc' = "loop"
    /\ UNCHANGED <<input, canceled, index, decision, listing, cost>>

(* One rule.  The context may end before any node the condition visits.    *)
MatchRule ==
    /\ pc = "loop" /\ operation = "AbacEvaluate" /\ index <= Len(Work)
    /\ \E cancelAt \in IF canceled THEN {cost} ELSE cost..(model.limits.maxCost + 1) :
           LET next == EvaluateRule([decision |-> decision, cost |-> cost], Work[index], request,
                           [facts |-> request.facts, cancelAt |-> cancelAt, limits |-> model.limits])
           IN  /\ decision' = next.decision
               /\ cost' = next.cost
               /\ canceled' = (canceled \/ next.decision.err = "ContextError")
               /\ pc' = IF next.decision.err # "none" THEN "done" ELSE "loop"
               /\ index' = index + 1
    /\ UNCHANGED <<input, listing>>

Return ==
    /\ pc = "loop" /\ index > Len(Work)
    /\ pc' = "done"
    /\ listing' = [listing EXCEPT !.err = ListError(listing)]
    /\ UNCHANGED <<input, canceled, index, decision, cost>>

(* The caller's context ends.                                              *)
Cancel ==
    /\ ~canceled /\ pc \in {"call", "loop"}
    /\ canceled' = TRUE
    /\ UNCHANGED <<input, pc, index, decision, listing, cost>>

Next ==
    \/ MapSubject
    \/ Encode
    \/ Decode
    \/ Construct
    \/ EvaluateRbac
    \/ CallAcl
    \/ EvaluatePrincipal
    \/ ListPrincipal
    \/ CallAbac
    \/ MatchRule
    \/ Return
    \/ Cancel

Spec == Init /\ [][Next]_vars

-----------------------------------------------------------------------------

(* The truth of a condition when a fact that is missing, null or of the    *)
(* wrong kind may be anything: TRUE or FALSE alone if all completions      *)
(* agree.                                                                  *)
RECURSIVE Verdicts(_, _)
Verdicts(c, facts) ==
    CASE c.op = "All" ->
             LET v == [i \in DOMAIN c.children |-> Verdicts(c.children[i], facts)] IN
             (IF \A i \in DOMAIN v : TRUE \in v[i] THEN {TRUE} ELSE {})
             \cup (IF \E i \in DOMAIN v : FALSE \in v[i] THEN {FALSE} ELSE {})
      [] c.op = "Any" ->
             LET v == [i \in DOMAIN c.children |-> Verdicts(c.children[i], facts)] IN
             (IF \E i \in DOMAIN v : TRUE \in v[i] THEN {TRUE} ELSE {})
             \cup (IF \A i \in DOMAIN v : FALSE \in v[i] THEN {FALSE} ELSE {})
      [] c.op = "Not" -> {~v : v \in Verdicts(c.children[1], facts)}
      [] OTHER -> CASE FactStatus(c, facts[c.ref]) = "Match" -> {TRUE}
                    [] FactStatus(c, facts[c.ref]) = "NoMatch" -> {FALSE}
                    [] OTHER -> BOOLEAN

(* A rule matches only if its condition is true whatever the facts that    *)
(* are missing, null or of the wrong kind would have been: neither Not nor *)
(* the short circuits of All and Any turn an unknown into a match.         *)
UnknownFactsNeverMatch ==
    operation = "AbacEvaluate" /\ pc \in {"loop", "done"} =>
        \A rule \in ToSet(SortedRules(model)) :
            rule.id \in ToSet(decision.matched) => Verdicts(rule.condition, request.facts) = {TRUE}

(* Node visits a condition takes with no limit and no cancellation.        *)
Visits(c, facts) ==
    EvaluateCondition(c, [facts |-> facts, cancelAt |-> 1000,
                          limits |-> [model.limits EXCEPT !.maxCost = 1000]], 0).cost

RECURSIVE Height(_)
Height(c) == 1 + Max({0} \cup {Height(child) : child \in ToSet(c.children)})

(* One cost counter serves all rules of a call: a decision without error   *)
(* took at most maxCost visits over all rules in scope, a cost error means *)
(* they would have taken more, and no admitted condition is higher than    *)
(* maxDepth; no evaluator collects more matches than its limit (consume    *)
(* and validateConditionLimits of abac.go, MaxMatches of all three).       *)
WorkIsBounded ==
    pc \in {"call", "loop", "done"} =>
        /\ Len(decision.matched) <= model.limits.maxMatches
        /\ listing.matches <= model.limits.maxMatches
        /\ operation = "AbacEvaluate" =>
            LET scope == SelectSeq(SortedRules(model), LAMBDA rule : InScope(rule, request))
                total == FoldLeft(LAMBDA n, rule : n + Visits(rule.condition, request.facts), 0, scope) IN
            /\ cost <= model.limits.maxCost
            /\ pc = "done" /\ decision.err = "none" => total <= model.limits.maxCost
            /\ decision.err = "ErrCostExceeded" => total > model.limits.maxCost
            /\ \A rule \in ToSet(SortedRules(model)) : Height(rule.condition) <= model.limits.maxDepth

(* The entries of the list that apply to an instance.                      *)
Applies(e, resource) ==
    /\ e.subject \in Principals(request.subject)
    /\ e.action = request.action /\ e.type = request.type
    /\ e.resource \in {0, resource}
    /\ e.tenant = request.tenant \/ (model.inheritGlobal /\ e.tenant = 0)

Applicable(resource) == {e \in ToSet(model.entries) : Applies(e, resource)}

Allows(resource) ==
    /\ \E e \in Applicable(resource) : e.effect = "Allow"
    /\ \A e \in Applicable(resource) : e.effect = "Allow"

(* However a call ends, an error denies and shows no partial match; an ACL *)
(* call that ends without one matched each applicable entry exactly once,  *)
(* also when a group is named twice, and allows only what no entry denies. *)
DecisionsFollowMatches ==
    pc = "done" =>
        /\ decision.err # "none" => decision.outcome = "Deny" /\ decision.matched = <<>>
        /\ operation = "AclEvaluate" /\ decision.err = "none" =>
              /\ ToSet(decision.matched) = {e.id : e \in Applicable(request.resource)}
              /\ Len(decision.matched) = Cardinality(Applicable(request.resource))
              /\ decision.outcome = "Allow" <=> Allows(request.resource)
              /\ decision.outcome = "NotApplicable" <=> Applicable(request.resource) = {}

(* ListResourceIDs agrees with Evaluate on every instance: what it lists   *)
(* is what Evaluate allows, and it calls the set unbounded only if         *)
(* Evaluate allows every instance that no entry denies by name.            *)
ListAgreesWithEvaluate ==
    operation = "ListResourceIDs" /\ pc = "done" =>
        /\ listing.err = "none" => \A id \in ResourceIDs : id \in ListedIDs(listing) <=> Allows(id)
        /\ listing.err = "ErrUnboundedResourceSet" =>
              \A id \in ResourceIDs : Allows(id) \/ \E e \in Applicable(id) :
                                                        e.effect = "Deny" /\ e.resource = id

(* How deep Build recurses into the conditions of an ABAC document.        *)
Heights(document) == {BuildCondition(c).depth : c \in ToSet(ConditionsOf(document))}

Recursion(document) ==
    IF document.version # DocumentVersion \/ TooDeep(document) THEN 0
    ELSE Max({0} \cup Heights(document))

(* The labels of a document that New requires to be distinct.              *)
Distinct(m, document) ==
    LET Injective(items, Label(_)) ==
            \A i, j \in DOMAIN items : Label(items[i]) = Label(items[j]) => i = j
        ID(item) == item.id
    IN  CASE m = "acl" -> Injective(document.entries, ID)
          [] m = "rbac" -> /\ Injective(document.roles, LAMBDA r : <<r.id, r.tenant>>)
                           /\ Injective(document.permissions, ID)
                           /\ Injective(document.assignments, ID)
          [] m = "abac" -> /\ Injective(document.rules, ID)
                           /\ Injective(document.namedConditions, LAMBDA d : <<d.name, d.version>>)


Numeric == {"int64", "uint64", "Number"}

(* A mapped subject says what the principal's claims say.  No integer      *)
(* claim wraps or loses its sign on the way into an ABAC condition: a rule *)
(* that compares it matches only if the claim itself compares so.  The     *)
(* groups are all of the claim's, since a list with an empty name or over  *)
(* the limit is refused and never cut, and no more than an ACL evaluator   *)
(* with the mapping's limit accepts (authn.go).                            *)
MappedSubjectsAreFaithful ==
    identity # NoIdentity /\ pc \in {"call", "loop", "done"} =>
        LET claims == identity.principal.claims
            config == identity.config IN
        /\ request.subject.groups =
              IF config.groupsClaim = 0 THEN <<>> ELSE claims[config.groupsClaim].elements
        /\ 0 \notin ToSet(request.subject.groups)
        /\ Len(request.subject.groups) <= MaxGroups(config)
        /\ operation = "AclEvaluate" /\ model.limits.maxGroups >= MaxGroups(config) =>
              decision.err # "ErrGroupLimitExceeded"
        /\ operation = "AbacEvaluate" =>
              \A rule \in ToSet(model.rules) : rule.id \in ToSet(decision.matched) =>
                  LET c == rule.condition
                      claim == claims[config.attributeClaims[c.ref]] IN
                  claim.type \in Numeric /\ c.op \in {"GreaterThan", "LessThan"} =>
                      /\ c.op = "GreaterThan" => claim.value > c.want[1].scalar
                      /\ c.op = "LessThan" => claim.value < c.want[1].scalar

=============================================================================
