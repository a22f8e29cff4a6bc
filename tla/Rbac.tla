-------------------------------- MODULE Rbac ---------------------------------
(***************************************************************************)
(* Role-based access control: rbac/rbac.go.  A model is the record of      *)
(* New's arguments: sequences of roles, permissions and assignments, and   *)
(* the limits and inheritGlobal its options set.                           *)
(***************************************************************************)
EXTENDS ModelDecision, EarlyReturn, Ordering

DefaultLimits ==
    [maxInheritanceDepth |-> 32, maxRoles |-> 1000, maxPermissions |-> 10000,
     maxAssignments |-> 10000, maxGroups |-> 100, maxMatches |-> 100, maxBatchSize |-> 1000]

RbacLimits(limits) == WithLimits(DefaultLimits, limits)

(* The roles map, once identities are known to be unique.                  *)
RoleIDs(roles) == {role.id : role \in Range(roles)}
Role(roles, id) == CHOOSE role \in Range(roles) : role.id = id
RoleIn(roles, id, tenant) == \E role \in Range(roles) : role.id = id /\ role.tenant = tenant

-----------------------------------------------------------------------------
(* validateInheritance                                                     *)

(* Variant with a mistake: a parent may be of another tenant.              *)
ParentErrorAnyTenant(roles, role) ==
    FirstFailure(Len(role.parents), LAMBDA i :
        FirstError(<< <<role.parents[i] \notin RoleIDs(roles), "ErrUnknownParentRole">> >>))

ParentError(roles, role) ==
    FirstFailure(Len(role.parents), LAMBDA i :
        FirstError(<<
            <<role.parents[i] \notin RoleIDs(roles), "ErrUnknownParentRole">>,
            <<~RoleIn(roles, role.parents[i], role.tenant), "ErrCrossTenantInheritance">> >>))

(* visit: state 0 new, 1 open, 2 done.                                     *)
Searches(roles) == [state: [RoleIDs(roles) -> 0..2], cycle: BOOLEAN]

VisitRole(roles, visit, search, id) ==
    IF search.cycle \/ search.state[id] = 2 THEN search
    ELSE IF search.state[id] = 1 THEN [search EXCEPT !.cycle = TRUE]
    ELSE LET below == Loop(visit, [search EXCEPT !.state[id] = 1], Role(roles, id).parents)
         IN  [below EXCEPT !.state[id] = IF below.cycle THEN 1 ELSE 2]

Visit(roles) ==
    LET visit[v \in Searches(roles) \X RoleIDs(roles)] == VisitRole(roles, visit, v[1], v[2])
    IN  visit

(* From every role, in some order: that of the map changes no verdict.     *)
HasCycle(roles) ==
    Loop(Visit(roles), [state |-> [id \in RoleIDs(roles) |-> 0], cycle |-> FALSE],
         [i \in DOMAIN roles |-> roles[i].id]).cycle

Depths(roles) ==
    LET depth[id \in RoleIDs(roles)] ==
            Max({0} \cup {1 + depth[p] : p \in Range(Role(roles, id).parents)})
    IN  depth

(* Which of several errors comes first depends on the order of the map.    *)
InheritanceErrors(roles, maxInheritanceDepth) ==
    LET parentErrors == {ParentError(roles, role) : role \in Range(roles)} \ {"none"} IN
    IF parentErrors # {} THEN parentErrors
    ELSE IF HasCycle(roles) THEN {"ErrRoleCycle"}
    ELSE IF \E id \in RoleIDs(roles) : Depths(roles)[id] > maxInheritanceDepth
    THEN {"ErrInheritanceDepthExceeded"}
    ELSE {"none"}

-----------------------------------------------------------------------------
(* New                                                                     *)

RoleError(roles, i) ==
    FirstError(<< <<roles[i].id = 0, "ErrInvalidRole">>,
                  <<\E j \in 1..(i-1) : roles[j].id = roles[i].id, "ErrDuplicateRole">> >>)

ValidPermission(p) ==
    /\ 0 \notin {p.id, p.role, p.action, p.type}
    /\ p.effect \in {"Allow", "Deny"}

ValidAssignment(a) == 0 \notin {a.id, a.subject.id, a.role} /\ a.subject.kind # ""

(* The checks on permission i.                                             *)
PermissionError(model, i) ==
    LET p == model.permissions[i] IN
    FirstError(<< <<~ValidPermission(p), "ErrInvalidPermission">>,
                  <<\E j \in 1..(i-1) : model.permissions[j].id = p.id, "ErrDuplicatePermission">>,
                  <<p.role \notin RoleIDs(model.roles), "ErrUnknownRole">>,
                  <<~RoleIn(model.roles, p.role, p.tenant), "ErrRoleTenantMismatch">> >>)

(* The checks on assignment i.                                             *)
AssignmentError(model, i) ==
    LET a == model.assignments[i] IN
    FirstError(<< <<~ValidAssignment(a), "ErrInvalidAssignment">>,
                  <<\E j \in 1..(i-1) : model.assignments[j].id = a.id, "ErrDuplicateAssignment">>,
                  <<a.role \notin RoleIDs(model.roles), "ErrUnknownRole">>,
                  <<~RoleIn(model.roles, a.role, a.tenant), "ErrRoleTenantMismatch">> >>)

(* The errors New may return, {"none"} when it returns an evaluator.       *)
New(model) ==
    LET early == FirstError(<<
            <<Len(model.roles) > model.limits.maxRoles, "ErrRoleLimitExceeded">>,
            <<Len(model.permissions) > model.limits.maxPermissions, "ErrPermissionLimitExceeded">>,
            <<Len(model.assignments) > model.limits.maxAssignments,
              "ErrAssignmentLimitExceeded">> >>)
        inheritance == InheritanceErrors(model.roles, model.limits.maxInheritanceDepth)
        role == FirstFailure(Len(model.roles), LAMBDA i : RoleError(model.roles, i))
        permission == FirstFailure(Len(model.permissions), LAMBDA i : PermissionError(model, i))
        assignment == FirstFailure(Len(model.assignments), LAMBDA i : AssignmentError(model, i)) IN
    IF early # "none" THEN {early}
    ELSE IF role # "none" THEN {role}
    ELSE IF inheritance # {"none"} THEN inheritance
    ELSE IF permission # "none" THEN {permission}
    ELSE {assignment}

-----------------------------------------------------------------------------
(* Evaluate                                                                *)

(* Variant with a mistake: only direct parents are inherited.              *)
AddRoleClosureShallow(roles, closure, seen, id) == seen \cup {id} \cup Range(Role(roles, id).parents)

AddRoleClosure(roles, closure, seen, id) ==
    IF id \in seen THEN seen ELSE Loop(closure, seen \cup {id}, Role(roles, id).parents)

Closure(roles) ==
    LET closure[v \in (SUBSET RoleIDs(roles)) \X RoleIDs(roles)] ==
            AddRoleClosure(roles, closure, v[1], v[2])
    IN  closure

(* Roles of the subject and its groups in the tenant, inherited ones too.  *)
EffectiveRoles(model, subject, tenant) ==
    LET matching == {a \in Range(model.assignments) :
                        /\ <<a.subject.kind, a.subject.id>> \in Principals(subject)
                        /\ MatchesTenant(model.inheritGlobal, a.tenant, tenant)}
        assigned == Filtered(model.assignments, matching)
    IN  Loop(Closure(model.roles), {}, [i \in DOMAIN assigned |-> assigned[i].role])

EffectivePermissions(model, subject, tenant) ==
    LET roles == EffectiveRoles(model, subject, tenant)
    IN  SortFunc(Filtered(model.permissions, {p \in Range(model.permissions) : p.role \in roles}))

PermissionMatchesRequest(p, request) ==
    /\ p.action = request.action
    /\ p.type = request.type
    /\ p.resource = 0 \/ p.resource = request.resource

Evaluate(model, request) ==
    IF request.canceled THEN Refused("ContextError")
    ELSE IF Len(request.subject.groups) > model.limits.maxGroups THEN Refused("ErrGroupLimitExceeded")
    ELSE LET permissions == EffectivePermissions(model, request.subject, request.tenant)
             matching == {p \in Range(permissions) : PermissionMatchesRequest(p, request)}
         IN  MatchAll(Filtered(permissions, matching), model.limits.maxMatches)

=============================================================================
