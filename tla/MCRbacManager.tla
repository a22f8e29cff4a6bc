----------------------------- MODULE MCRbacManager -----------------------------
(***************************************************************************)
(* Instance of RbacManager: every parent relation on three roles and on    *)
(* two roles with an unknown third, in every placing of the roles in two   *)
(* tenants, global (0) and 1, under two depth limits.                      *)
(***************************************************************************)
EXTENDS RbacManager, SequencesExt

Limits(depth) ==
    RbacLimits([maxInheritanceDepth |-> depth, maxRoles |-> 3, maxPermissions |-> 3,
                maxAssignments |-> 2, maxGroups |-> 1, maxMatches |-> depth + 1, maxBatchSize |-> 0])

Perm(id, role, tenant, resource, effect, priority) ==
    [id |-> id, role |-> role, tenant |-> tenant, action |-> 1, type |-> 1,
     resource |-> resource, effect |-> effect, priority |-> priority]

Assignment(id, kind, who, role, tenant) ==
    [id |-> id, subject |-> [kind |-> kind, id |-> who], role |-> role, tenant |-> tenant]

(* Role 3 denies resource 1 and allows the rest, the others allow all.     *)
Model(n, parents, tenant, depth, inheritGlobal) ==
    [roles |-> [i \in 1..n |-> [id |-> i, tenant |-> tenant[i], parents |-> SetToSeq(parents[i])]],
     permissions |-> [i \in 1..n |->
         Perm(i, i, tenant[i], IF i = 3 THEN 1 ELSE 0, IF i = 3 THEN "Deny" ELSE "Allow", i % 2)],
     assignments |-> <<Assignment(1, "user", 1, 1, tenant[1])>>,
     limits |-> Limits(depth), inheritGlobal |-> inheritGlobal]

Graphs(n) ==
    {Model(n, parents, tenant, depth, inheritGlobal) :
        parents \in [1..n -> SUBSET (1..3)], tenant \in [1..n -> {0, 1}],
        depth \in {1, 2}, inheritGlobal \in BOOLEAN}

Chain == Model(3, <<{2}, {3}, {}>>, <<1, 1, 1>>, 2, FALSE)

(* Models the checks before and after validateInheritance refuse.          *)
Malformed ==
    {[Chain EXCEPT !.limits.maxRoles = 2], [Chain EXCEPT !.limits.maxPermissions = 2],
     [Chain EXCEPT !.assignments = @ \o @ \o @],
     [Chain EXCEPT !.roles[2].id = 0], [Chain EXCEPT !.roles[2].id = 1],
     [Chain EXCEPT !.permissions[2].effect = "NotApplicable"], [Chain EXCEPT !.permissions[2].id = 1],
     [Chain EXCEPT !.permissions[2].role = 4], [Chain EXCEPT !.permissions[2].tenant = 0],
     [Chain EXCEPT !.assignments[1].subject.kind = ""], [Chain EXCEPT !.assignments[1].role = 4],
     [Chain EXCEPT !.assignments = @ \o @], [Chain EXCEPT !.assignments[1].tenant = 0]}

MCModels == Graphs(3) \cup Graphs(2) \cup Malformed

(* Role 2 for a group, role 3 for the user, an unknown role, a known ID.   *)
MCNewAssignments ==
    {Assignment(2, "group", 1, 2, t) : t \in {0, 1}} \cup
    {Assignment(3, "user", 1, 3, 1), Assignment(4, "user", 1, 4, 1), Assignment(1, "user", 1, 1, 1)}

MCRequests ==
    [subject: [kind: {"user"}, id: {1}, groups: {<<>>, <<1>>, <<1, 1>>}],
     action: {1}, type: {1}, resource: {1, 2}, tenant: {0, 1}, canceled: BOOLEAN]

=============================================================================
