------------------------------ MODULE RbacManager ------------------------------
(***************************************************************************)
(* In-memory assignment administration: rbac/manager.go, over the RBAC     *)
(* evaluator of rbac/rbac.go.  A manager is the model it holds and its     *)
(* revision, 0 before NewManager succeeded.  A reader caches an evaluator  *)
(* under the revision it read in an earlier call.  Every operation holds   *)
(* the manager's lock from its first read to its last write, so each is    *)
(* one step.                                                               *)
(***************************************************************************)
EXTENDS Integers, FiniteSets, Rbac

CONSTANTS Models,              \* arguments NewManager is called with
          NewAssignments,      \* assignments Assign is called with
          Requests,            \* requests decided with the model
          MaxManagerRevision   \* bound on the revisions explored

(* What the code's types allow of a model, and the limits it is used with. *)
RoleRecord == [id: Nat, tenant: Nat, parents: Seq(Nat)]
PermissionRecord ==
    [id: Nat, role: Nat, tenant: Nat, action: Nat, type: Nat, resource: Nat,
     effect: {"NotApplicable", "Allow", "Deny"}, priority: Int]
AssignmentRecord ==
    [id: Nat, subject: [kind: STRING, id: Nat], role: Nat, tenant: Nat]
RbacModel ==
    [roles: Seq(RoleRecord), permissions: Seq(PermissionRecord),
     assignments: Seq(AssignmentRecord), limits: [DOMAIN DefaultLimits -> Nat],
     inheritGlobal: BOOLEAN]
RequestRecord ==
    [subject: [kind: STRING, id: Nat, groups: Seq(Nat)], action: Nat, type: Nat,
     resource: Nat, tenant: Nat, canceled: BOOLEAN]

ASSUME ManagerAssumption ==
    /\ Models \subseteq RbacModel
    /\ NewAssignments \subseteq AssignmentRecord
    /\ Requests \subseteq RequestRecord
    /\ MaxManagerRevision \in Nat \ {0}

VARIABLES model, revision, answer, reader

managerVars == <<model, revision, answer, reader>>

NoView == [pc |-> "idle", revision |-> 0, assignments |-> <<>>]

ManagerInit ==
    /\ model \in Models
    /\ revision = 0
    /\ answer = "none"
    /\ reader = NoView

(* NewManager keeps a copy of a model New accepts.                         *)
NewManager ==
    /\ revision = 0 /\ answer = "none"
    /\ answer' \in New(model)
    /\ revision' = IF answer' = "none" THEN 1 ELSE 0
    /\ UNCHANGED <<model, reader>>

(* Assign validates the candidate list as a whole.                         *)
Assign(assignment) ==
    LET candidate == [model EXCEPT !.assignments = Append(@, assignment)] IN
    /\ revision \in 1..(MaxManagerRevision - 1)
    /\ answer' \in New(candidate)
    /\ IF answer' = "none"
       THEN model' = candidate /\ revision' = revision + 1
       ELSE UNCHANGED <<model, revision>>
    /\ UNCHANGED reader

RemoveIndex(list, i) == SubSeq(list, 1, i - 1) \o SubSeq(list, i + 1, Len(list))

(* Variant with a mistake: a revocation keeps the revision.                *)
RevokeAssignmentQuietly(id) ==
    LET found == {i \in DOMAIN model.assignments : model.assignments[i].id = id}
        index == IF found = {} THEN 0 ELSE Min(found) IN
    /\ revision \in 1..(MaxManagerRevision - 1)
    /\ answer' = IF index = 0 THEN "false" ELSE "true"
    /\ model' = IF index = 0 THEN model
                ELSE [model EXCEPT !.assignments = RemoveIndex(@, index)]
    /\ UNCHANGED <<reader, revision>>

RevokeAssignment(id) ==
    LET found == {i \in DOMAIN model.assignments : model.assignments[i].id = id}
        index == IF found = {} THEN 0 ELSE Min(found) IN
    /\ revision \in 1..(MaxManagerRevision - 1)
    /\ answer' = IF index = 0 THEN "false" ELSE "true"
    /\ model' = IF index = 0 THEN model
                ELSE [model EXCEPT !.assignments = RemoveIndex(@, index)]
    /\ revision' = IF index = 0 THEN revision ELSE revision + 1
    /\ UNCHANGED reader

(* A reader calls Revision(), then Evaluator().                            *)
Revision ==
    /\ revision # 0 /\ reader.pc = "idle"
    /\ reader' = [NoView EXCEPT !.pc = "tagged", !.revision = revision]
    /\ UNCHANGED <<model, revision, answer>>

Evaluator ==
    /\ reader.pc = "tagged"
    /\ answer' \in New(model)
    /\ reader' = IF answer' = "none"
                 THEN [reader EXCEPT !.pc = "cached", !.assignments = model.assignments]
                 ELSE NoView
    /\ UNCHANGED <<model, revision>>

(* The cached evaluator is dropped once Revision() has moved on.           *)
Refresh ==
    /\ reader.pc = "cached" /\ reader.revision # revision
    /\ reader' = NoView
    /\ UNCHANGED <<model, revision, answer>>

ManagerNext ==
    \/ NewManager
    \/ \E assignment \in NewAssignments : Assign(assignment)
    \/ \E id \in {assignment.id : assignment \in NewAssignments} : RevokeAssignment(id)
    \/ Revision
    \/ Evaluator
    \/ Refresh

ManagerSpec == ManagerInit /\ [][ManagerNext]_managerVars

-----------------------------------------------------------------------------

(* Types: the manager holds a model of the kind New takes, the reader at   *)
(* most a revision that was reached.                                       *)
ManagerTypeOK ==
    /\ model \in RbacModel
    /\ revision \in 0..MaxManagerRevision
    /\ reader \in [pc: {"idle", "tagged", "cached"}, revision: 0..revision,
                   assignments: Seq(AssignmentRecord)]

(* What a sound model is, stated without the code's searches: roles have   *)
(* ranks that fall strictly from a role to its parents and stay within the *)
(* depth limit, and everything a role is bound to is of its own tenant.    *)
SoundInheritance(limit) ==
    \E rank \in [RoleIDs(model.roles) -> 0..limit] :
        \A role \in Range(model.roles) : \A p \in Range(role.parents) : rank[p] < rank[role.id]

SoundBindings ==
    /\ \A role \in Range(model.roles) : \A p \in Range(role.parents) :
           RoleIn(model.roles, p, role.tenant)
    /\ \A b \in Range(model.permissions) \cup Range(model.assignments) :
           RoleIn(model.roles, b.role, b.tenant)

(* NewManager, Assign and RevokeAssignment leave the manager with a model  *)
(* bound within tenants, whose assignments have distinct IDs and which     *)
(* Evaluator() can always rebuild.                                         *)
EvaluatorRebuilds ==
    revision # 0 =>
        /\ SoundBindings
        /\ \A i, j \in DOMAIN model.assignments :
               model.assignments[i].id = model.assignments[j].id => i = j
        /\ New(model) = {"none"}

(* And one whose inheritance is sound; a model refused for a cycle or for  *)
(* its depth has one: no ranks exist for it (validateInheritance of        *)
(* rbac.go).                                                               *)
ManagedModelsAreSound ==
    /\ EvaluatorRebuilds
    /\ revision # 0 => SoundInheritance(model.limits.maxInheritanceDepth)
    /\ revision = 0 =>
        /\ answer = "ErrRoleCycle" => ~SoundInheritance(Len(model.roles))
        /\ answer = "ErrInheritanceDepthExceeded" =>
               /\ SoundInheritance(Len(model.roles))
               /\ ~SoundInheritance(model.limits.maxInheritanceDepth)

(* A reader that takes the revision first and the evaluator second may     *)
(* cache a view newer than its tag, never an older one: while Revision()   *)
(* answers its tag, the cached assignments are the manager's.              *)
TaggedViewIsCurrent ==
    reader.pc = "cached" /\ reader.revision = revision => reader.assignments = model.assignments

(* The roles a subject has by definition: the least set that holds what it *)
(* is assigned in the tenant and is closed under parents.                  *)
Assigned(subject, tenant) ==
    {a.role : a \in {b \in Range(model.assignments) :
                        /\ <<b.subject.kind, b.subject.id>> \in Principals(subject)
                        /\ b.tenant \in {tenant} \cup (IF model.inheritGlobal THEN {0} ELSE {})}}

Inherited(roles) ==
    {r \in RoleIDs(model.roles) : \A closed \in SUBSET RoleIDs(model.roles) :
        /\ roles \subseteq closed
        /\ \A c \in closed : Range(Role(model.roles, c).parents) \subseteq closed
        => r \in closed}

(* Permissions of those roles that name the request.                       *)
Applicable(request) ==
    {p \in Range(model.permissions) :
        p.role \in Inherited(Assigned(request.subject, request.tenant))
        /\ PermissionMatchesRequest(p, request)}

(* A request is allowed only if some permission of a role the subject has, *)
(* directly, through a group or by inheritance, allows it, none denies it  *)
(* and all of them fit the match limit; every permission that matched is   *)
(* of the request's tenant or, with global inheritance, global (Evaluate   *)
(* and EffectivePermissions of rbac.go).                                   *)
DecisionsAreJustified ==
    revision # 0 => \A request \in Requests :
        LET decision == Evaluate(model, request)
            applicable == Applicable(request) IN
        /\ decision.outcome = "Allow" <=>
              /\ ~request.canceled
              /\ Len(request.subject.groups) <= model.limits.maxGroups
              /\ Cardinality(applicable) \in 1..model.limits.maxMatches
              /\ \A p \in applicable : p.effect = "Allow"
        /\ decision.err = "none" => Range(decision.matched) = {p.id : p \in applicable}
        /\ \A p \in applicable :
              p.tenant = request.tenant \/ (model.inheritGlobal /\ p.tenant = 0)

(* Assigning a role never turns a denied request into an allowed one: the  *)
(* deny that matched, or the limit that was exceeded, is still there.      *)
AssigningNeverLiftsADenial ==
    [][(revision # 0 /\ Len(model'.assignments) > Len(model.assignments)) =>
          \A request \in Requests :
              Evaluate(model, request).outcome = "Deny" =>
                  Evaluate(model', request).outcome = "Deny"]_managerVars

=============================================================================
