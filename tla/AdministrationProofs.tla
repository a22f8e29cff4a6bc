------------------------ MODULE AdministrationProofs ------------------------
(***************************************************************************)
(* The RBAC manager, for any models, assignments, limits and requests:     *)
(* what New accepts, that assignments come and go without harm to it, and  *)
(* that what the manager's evaluators decide is justified.                 *)
(***************************************************************************)
EXTENDS RbacProofs, SequenceTheorems

-----------------------------------------------------------------------------
(* Ladders of checks                                                       *)

(* Four checks return the error of the first that fails.                   *)
LEMMA FourChecks ==
    ASSUME NEW a \in BOOLEAN, NEW b \in BOOLEAN, NEW c \in BOOLEAN, NEW d \in BOOLEAN,
           NEW x, NEW y, NEW z, NEW w
    PROVE  FirstError(<< <<a, x>>, <<b, y>>, <<c, z>>, <<d, w>> >>) =
             IF a THEN x ELSE IF b THEN y ELSE IF c THEN z ELSE IF d THEN w ELSE "none"
<1> DEFINE checks == << <<a, x>>, <<b, y>>, <<c, z>>, <<d, w>> >>
           I == {i \in 1..Len(checks) : checks[i][1]}
<1>1. /\ Len(checks) = 4
      /\ checks[1][1] = a /\ checks[2][1] = b /\ checks[3][1] = c /\ checks[4][1] = d
      /\ checks[1][2] = x /\ checks[2][2] = y /\ checks[3][2] = z /\ checks[4][2] = w
  BY Zenon
<1>2. FirstError(checks) =
        IF I = {} THEN "none" ELSE checks[Min(I)][2]
  BY Zenon DEF FirstError
<1>3. \A i : i \in I <=> i \in 1..4 /\ checks[i][1]
  BY Zenon, <1>1
<1> HIDE DEF checks, I
<1>4. /\ \A i \in I : i = 1 \/ i = 2 \/ i = 3 \/ i = 4
      /\ 1 \in I <=> a
      /\ 2 \in I <=> b
      /\ 3 \in I <=> c
      /\ 4 \in I <=> d
  BY <1>1, <1>3
<1>5. I # {} => Min(I) \in I /\ \A i \in I : Min(I) <= i
  BY <1>4, LeastNat DEF Min
<1> QED
  BY <1>1, <1>2, <1>4, <1>5 DEF checks

(* The errors that validateInheritance alone returns.                      *)
InheritanceFaults == {"ErrRoleCycle", "ErrInheritanceDepthExceeded"}

LEMMA RoleChecks ==
    ASSUME NEW roles, NEW i
    PROVE  /\ RoleError(roles, i) \notin InheritanceFaults
           /\ RoleError(roles, i) = "none" <=>
                roles[i].id # 0 /\ \A j \in 1..(i-1) : roles[j].id # roles[i].id
<1> DEFINE a == roles[i].id = 0
           b == \E j \in 1..(i-1) : roles[j].id = roles[i].id
<1>1. RoleError(roles, i) = FirstError(<< <<a, "ErrInvalidRole">>, <<b, "ErrDuplicateRole">> >>)
  BY Zenon DEF RoleError
<1>2. a \in BOOLEAN /\ b \in BOOLEAN
  BY Zenon
<1> HIDE DEF a, b
<1>3. RoleError(roles, i) = IF a THEN "ErrInvalidRole" ELSE IF b THEN "ErrDuplicateRole" ELSE "none"
  BY <1>1, <1>2, TwoChecks
<1>4. /\ RoleError(roles, i) \notin InheritanceFaults
      /\ RoleError(roles, i) = "none" <=> ~a /\ ~b
  BY Zenon, <1>2, <1>3 DEF InheritanceFaults
<1> QED
  BY Zenon, <1>4 DEF a, b

LEMMA AssignmentChecks ==
    ASSUME NEW m, NEW i
    PROVE  /\ AssignmentError(m, i) \notin InheritanceFaults
           /\ AssignmentError(m, i) = "none" <=>
                /\ ValidAssignment(m.assignments[i])
                /\ \A j \in 1..(i-1) : m.assignments[j].id # m.assignments[i].id
                /\ m.assignments[i].role \in RoleIDs(m.roles)
                /\ RoleIn(m.roles, m.assignments[i].role, m.assignments[i].tenant)
<1> DEFINE r == m.assignments[i]
           a == ~ValidAssignment(r)
           b == \E j \in 1..(i-1) : m.assignments[j].id = r.id
           c == r.role \notin RoleIDs(m.roles)
           d == ~RoleIn(m.roles, r.role, r.tenant)
<1>1. a \in BOOLEAN /\ b \in BOOLEAN /\ c \in BOOLEAN /\ d \in BOOLEAN
  BY Zenon DEF ValidAssignment, RoleIn
<1>2. AssignmentError(m, i) =
        FirstError(<< <<a, "ErrInvalidAssignment">>, <<b, "ErrDuplicateAssignment">>,
                      <<c, "ErrUnknownRole">>, <<d, "ErrRoleTenantMismatch">> >>)
  BY Zenon DEF AssignmentError
<1> HIDE DEF a, b, c, d
<1>3. AssignmentError(m, i) =
        IF a THEN "ErrInvalidAssignment" ELSE IF b THEN "ErrDuplicateAssignment"
        ELSE IF c THEN "ErrUnknownRole" ELSE IF d THEN "ErrRoleTenantMismatch" ELSE "none"
  BY <1>1, <1>2, FourChecks
<1>4. /\ AssignmentError(m, i) \notin InheritanceFaults
      /\ AssignmentError(m, i) = "none" <=> ~a /\ ~b /\ ~c /\ ~d
  BY Zenon, <1>1, <1>3 DEF InheritanceFaults
<1> QED
  BY Zenon, <1>4 DEF a, b, c, d

LEMMA PermissionChecks ==
    ASSUME NEW m, NEW i
    PROVE  /\ PermissionError(m, i) \notin InheritanceFaults
           /\ PermissionError(m, i) = "none" <=>
                /\ ValidPermission(m.permissions[i])
                /\ \A j \in 1..(i-1) : m.permissions[j].id # m.permissions[i].id
                /\ m.permissions[i].role \in RoleIDs(m.roles)
                /\ RoleIn(m.roles, m.permissions[i].role, m.permissions[i].tenant)
<1> DEFINE r == m.permissions[i]
           a == ~ValidPermission(r)
           b == \E j \in 1..(i-1) : m.permissions[j].id = r.id
           c == r.role \notin RoleIDs(m.roles)
           d == ~RoleIn(m.roles, r.role, r.tenant)
<1>1. a \in BOOLEAN /\ b \in BOOLEAN /\ c \in BOOLEAN /\ d \in BOOLEAN
  BY Zenon DEF ValidPermission, RoleIn
<1>2. PermissionError(m, i) =
        FirstError(<< <<a, "ErrInvalidPermission">>, <<b, "ErrDuplicatePermission">>,
                      <<c, "ErrUnknownRole">>, <<d, "ErrRoleTenantMismatch">> >>)
  BY Zenon DEF PermissionError
<1> HIDE DEF a, b, c, d
<1>3. PermissionError(m, i) =
        IF a THEN "ErrInvalidPermission" ELSE IF b THEN "ErrDuplicatePermission"
        ELSE IF c THEN "ErrUnknownRole" ELSE IF d THEN "ErrRoleTenantMismatch" ELSE "none"
  BY <1>1, <1>2, FourChecks
<1>4. /\ PermissionError(m, i) \notin InheritanceFaults
      /\ PermissionError(m, i) = "none" <=> ~a /\ ~b /\ ~c /\ ~d
  BY Zenon, <1>1, <1>3 DEF InheritanceFaults
<1> QED
  BY Zenon, <1>4 DEF a, b, c, d

LEMMA ParentChecks ==
    ASSUME NEW roles, NEW role, role.parents \in Seq(Nat)
    PROVE  /\ ParentError(roles, role) \notin InheritanceFaults
           /\ ParentError(roles, role) = "none" =>
                \A p \in Range(role.parents) : RoleIn(roles, p, role.tenant)
<1> DEFINE unknown(i) == role.parents[i] \notin RoleIDs(roles)
           foreign(i) == ~RoleIn(roles, role.parents[i], role.tenant)
           err(i) == FirstError(<< <<unknown(i), "ErrUnknownParentRole">>,
                                   <<foreign(i), "ErrCrossTenantInheritance">> >>)
           n == Len(role.parents)
           failing == {i \in 1..n : err(i) # "none"}
<1>1. ParentError(roles, role) = IF failing = {} THEN "none" ELSE err(Min(failing))
  BY Zenon DEF ParentError, FirstFailure
<1>2. ASSUME NEW i \in 1..n
      PROVE  err(i) \notin InheritanceFaults /\ (err(i) = "none" <=> ~unknown(i) /\ ~foreign(i))
  <2> DEFINE a == unknown(i)
             b == foreign(i)
  <2>1. a \in BOOLEAN /\ b \in BOOLEAN
    BY Zenon DEF RoleIn
  <2>2. err(i) = FirstError(<< <<a, "ErrUnknownParentRole">>, <<b, "ErrCrossTenantInheritance">> >>)
    BY Zenon
  <2> HIDE DEF a, b, unknown, foreign, err
  <2>3. err(i) = IF a THEN "ErrUnknownParentRole" ELSE IF b THEN "ErrCrossTenantInheritance" ELSE "none"
    BY <2>1, <2>2, TwoChecks
  <2> QED
    BY Zenon, <2>1, <2>3 DEF a, b, InheritanceFaults
<1> HIDE DEF err, unknown
<1>3. failing # {} => Min(failing) \in 1..n /\ err(Min(failing)) # "none"
  <2>1. failing \subseteq Nat
    OBVIOUS
  <2>2. failing # {} => Min(failing) \in failing
    <3> HIDE DEF failing
    <3> QED BY Zenon, <2>1, MinOfNats
  <2> QED
    BY Zenon, <2>2
<1>4. ParentError(roles, role) = "none" => \A i \in 1..n : ~foreign(i)
  BY Zenon, <1>1, <1>2, <1>3
<1>5. ParentError(roles, role) \notin InheritanceFaults
  BY Zenon, <1>1, <1>2, <1>3 DEF InheritanceFaults
<1> QED
  BY <1>4, <1>5 DEF Range

-----------------------------------------------------------------------------
(* What New accepts                                                        *)

LEMMA InheritanceExact ==
    ASSUME NEW roles \in Seq(RoleRecord), NEW depth,
           NEW e \in InheritanceErrors(roles, depth) \cap (InheritanceFaults \cup {"none"})
    PROVE  /\ InheritanceErrors(roles, depth) = {e}
           /\ \A role \in Range(roles) : ParentError(roles, role) = "none"
           /\ e = "ErrRoleCycle" <=> HasCycle(roles)
           /\ e # "ErrRoleCycle" =>
                (e = "none" <=> \A id \in RoleIDs(roles) : ~(Depths(roles)[id] > depth))
<1> DEFINE errors == {ParentError(roles, role) : role \in Range(roles)} \ {"none"}
           deep == \E id \in RoleIDs(roles) : Depths(roles)[id] > depth
           cycle == HasCycle(roles)
<1>1. InheritanceErrors(roles, depth) =
        IF errors # {} THEN errors ELSE IF cycle THEN {"ErrRoleCycle"}
        ELSE IF deep THEN {"ErrInheritanceDepthExceeded"} ELSE {"none"}
  BY Zenon DEF InheritanceErrors
<1>2. e \notin errors
  <2>1. ASSUME NEW role \in Range(roles) PROVE ParentError(roles, role) \notin InheritanceFaults
    <3>1. role \in RoleRecord
      BY DEF Range
    <3>2. role.parents \in Seq(Nat)
      BY Zenon, <3>1 DEF RoleRecord
    <3> QED BY Zenon, <3>2, ParentChecks
  <2> QED BY Zenon, <2>1
<1>3. errors = {} => \A role \in Range(roles) : ParentError(roles, role) = "none"
  BY Zenon
<1>4. deep <=> ~(\A id \in RoleIDs(roles) : ~(Depths(roles)[id] > depth))
  BY Zenon
<1> HIDE DEF deep, errors, cycle
<1>5. /\ errors = {} /\ InheritanceErrors(roles, depth) = {e}
      /\ e = IF cycle THEN "ErrRoleCycle" ELSE IF deep THEN "ErrInheritanceDepthExceeded" ELSE "none"
  BY Zenon, <1>1, <1>2
<1> QED
  BY Zenon, <1>3, <1>4, <1>5 DEF cycle, InheritanceFaults

(* New returns an evaluator exactly when every check passes, and no error  *)
(* besides.                                                                *)
Accepts(m) ==
    /\ ~(Len(m.roles) > m.limits.maxRoles) /\ ~(Len(m.permissions) > m.limits.maxPermissions)
    /\ ~(Len(m.assignments) > m.limits.maxAssignments)
    /\ \A i \in DOMAIN m.roles : RoleError(m.roles, i) = "none"
    /\ InheritanceErrors(m.roles, m.limits.maxInheritanceDepth) = {"none"}
    /\ \A i \in DOMAIN m.permissions : PermissionError(m, i) = "none"
    /\ \A i \in DOMAIN m.assignments : AssignmentError(m, i) = "none"

LEMMA NewChecks ==
    ASSUME NEW m \in RbacModel
    PROVE  /\ "none" \in New(m) <=> Accepts(m)
           /\ New(m) = {"none"} <=> Accepts(m)
           /\ \A e \in New(m) \cap InheritanceFaults :
                /\ \A i \in DOMAIN m.roles : RoleError(m.roles, i) = "none"
                /\ e \in InheritanceErrors(m.roles, m.limits.maxInheritanceDepth)
<1> DEFINE a == Len(m.roles) > m.limits.maxRoles
           b == Len(m.permissions) > m.limits.maxPermissions
           c == Len(m.assignments) > m.limits.maxAssignments
           early == FirstError(<< <<a, "ErrRoleLimitExceeded">>, <<b, "ErrPermissionLimitExceeded">>,
                                  <<c, "ErrAssignmentLimitExceeded">> >>)
           inheritance == InheritanceErrors(m.roles, m.limits.maxInheritanceDepth)
           roleError(i) == RoleError(m.roles, i)
           permissionError(i) == PermissionError(m, i)
           assignmentError(i) == AssignmentError(m, i)
           role == FirstFailure(Len(m.roles), roleError)
           permission == FirstFailure(Len(m.permissions), permissionError)
           assignment == FirstFailure(Len(m.assignments), assignmentError)
<1>1. New(m) =
        IF early # "none" THEN {early}
        ELSE IF role # "none" THEN {role}
        ELSE IF inheritance # {"none"} THEN inheritance
        ELSE IF permission # "none" THEN {permission} ELSE {assignment}
  BY Zenon DEF New
<1>2. early \notin InheritanceFaults /\ (early = "none" <=> ~a /\ ~b /\ ~c)
  <2>1. a \in BOOLEAN /\ b \in BOOLEAN /\ c \in BOOLEAN
    OBVIOUS
  <2> HIDE DEF a, b, c
  <2>2. early = IF a THEN "ErrRoleLimitExceeded" ELSE IF b THEN "ErrPermissionLimitExceeded"
                ELSE IF c THEN "ErrAssignmentLimitExceeded" ELSE "none"
    BY <2>1, ThreeChecks
  <2> HIDE DEF early
  <2> QED
    BY Zenon, <2>1, <2>2 DEF InheritanceFaults
<1>3. /\ role \notin InheritanceFaults
      /\ role = "none" <=> \A i \in DOMAIN m.roles : roleError(i) = "none"
  <2> DEFINE failing == {i \in 1..Len(m.roles) : roleError(i) # "none"}
  <2>1. role = IF failing = {} THEN "none" ELSE roleError(Min(failing))
    BY Zenon DEF FirstFailure
  <2>2. failing \subseteq Nat /\ DOMAIN m.roles = 1..Len(m.roles)
    BY ModelFields
  <2>3. failing # {} => Min(failing) \in failing
    <3> HIDE DEF failing
    <3> QED BY Zenon, <2>2, MinOfNats
  <2>4. \A i : roleError(i) \notin InheritanceFaults
    BY Zenon, RoleChecks
  <2> HIDE DEF role, roleError
  <2> QED
    BY Zenon, <2>1, <2>2, <2>3, <2>4 DEF InheritanceFaults
<1>4. /\ permission \notin InheritanceFaults
      /\ permission = "none" <=> \A i \in DOMAIN m.permissions : permissionError(i) = "none"
  <2> DEFINE failing == {i \in 1..Len(m.permissions) : permissionError(i) # "none"}
  <2>1. permission = IF failing = {} THEN "none" ELSE permissionError(Min(failing))
    BY Zenon DEF FirstFailure
  <2>2. failing \subseteq Nat /\ DOMAIN m.permissions = 1..Len(m.permissions)
    BY ModelFields
  <2>3. failing # {} => Min(failing) \in failing
    <3> HIDE DEF failing
    <3> QED BY Zenon, <2>2, MinOfNats
  <2>4. \A i : permissionError(i) \notin InheritanceFaults
    BY Zenon, PermissionChecks
  <2> HIDE DEF permission, permissionError
  <2> QED
    BY Zenon, <2>1, <2>2, <2>3, <2>4 DEF InheritanceFaults
<1>5. /\ assignment \notin InheritanceFaults
      /\ assignment = "none" <=> \A i \in DOMAIN m.assignments : assignmentError(i) = "none"
  <2> DEFINE failing == {i \in 1..Len(m.assignments) : assignmentError(i) # "none"}
  <2>1. assignment = IF failing = {} THEN "none" ELSE assignmentError(Min(failing))
    BY Zenon DEF FirstFailure
  <2>2. failing \subseteq Nat /\ DOMAIN m.assignments = 1..Len(m.assignments)
    BY ModelFields
  <2>3. failing # {} => Min(failing) \in failing
    <3> HIDE DEF failing
    <3> QED BY Zenon, <2>2, MinOfNats
  <2>4. \A i : assignmentError(i) \notin InheritanceFaults
    BY Zenon, AssignmentChecks
  <2> HIDE DEF assignment, assignmentError
  <2> QED
    BY Zenon, <2>1, <2>2, <2>3, <2>4 DEF InheritanceFaults
<1>6. "none" \in inheritance => inheritance = {"none"}
  BY Zenon, ModelFields, InheritanceExact
<1>7. Accepts(m) <=> /\ early = "none" /\ role = "none" /\ inheritance = {"none"}
                     /\ permission = "none" /\ assignment = "none"
  <2> HIDE DEF early, role, permission, assignment
  <2> QED BY Zenon, <1>2, <1>3, <1>4, <1>5 DEF Accepts
<1>8. \A e \in New(m) \cap InheritanceFaults : e \in inheritance /\ role = "none"
  <2> HIDE DEF early, role, inheritance, permission, assignment
  <2> QED BY Zenon, <1>1, <1>2, <1>3, <1>4, <1>5
<1>9. New(m) = {"none"} <=> Accepts(m)
  <2> HIDE DEF early, role, inheritance, permission, assignment
  <2> QED BY Zenon, <1>1, <1>6, <1>7
<1>10. "none" \in New(m) => Accepts(m)
  <2> HIDE DEF early, role, inheritance, permission, assignment
  <2> QED BY Zenon, <1>1, <1>6, <1>7
<1> QED
  BY Zenon, <1>3, <1>8, <1>9, <1>10

(* Roles that pass their checks have distinct IDs, and parents among them  *)
(* and of their own tenant.                                                *)
LEMMA KnownRoles ==
    ASSUME NEW roles \in Seq(RoleRecord), \A i \in DOMAIN roles : RoleError(roles, i) = "none",
           \A role \in Range(roles) : ParentError(roles, role) = "none"
    PROVE  /\ Known(roles)
           /\ \A i, j \in DOMAIN roles : roles[i].id = roles[j].id => i = j
           /\ \A role \in Range(roles) : \A p \in Range(role.parents) : RoleIn(roles, p, role.tenant)
<1>1. \A role \in Range(roles) : role.parents \in Seq(Nat)
  <2>1. \A role \in Range(roles) : role \in RoleRecord
    BY DEF Range
  <2> QED BY Zenon, <2>1 DEF RoleRecord
<1>2. \A role \in Range(roles) : \A p \in Range(role.parents) : RoleIn(roles, p, role.tenant)
  BY Zenon, <1>1, ParentChecks
<1>3. \A i, j \in DOMAIN roles : roles[i].id = roles[j].id => i = j
  <2> SUFFICES ASSUME NEW i \in DOMAIN roles, NEW j \in DOMAIN roles, i < j
               PROVE  roles[i].id # roles[j].id
    OBVIOUS
  <2>1. i \in 1..(j-1)
    OBVIOUS
  <2> QED BY Zenon, <2>1, RoleChecks
<1>4. IsFiniteSet(RoleIDs(roles))
  <2> DEFINE ids == [i \in DOMAIN roles |-> roles[i].id]
             S == 1..Len(roles)
  <2>1. RoleIDs(roles) = {ids[i] : i \in S}
    BY Zenon, RolesAreListed
  <2>2. IsFiniteSet(S)
    BY FS_Interval
  <2> HIDE DEF ids, S
  <2>3. IsFiniteSet({ids[i] : i \in S})
    BY Zenon, <2>2, FiniteImage
  <2> QED BY Zenon, <2>1, <2>3
<1>5. ASSUME NEW id \in RoleIDs(roles) PROVE Role(roles, id).parents \in Seq(RoleIDs(roles))
  <2>1. Role(roles, id) \in Range(roles)
    BY Zenon DEF Role, RoleIDs
  <2> DEFINE role == Role(roles, id)
  <2> HIDE DEF role
  <2>2. role \in Range(roles) /\ role.parents \in Seq(Nat)
    BY Zenon, <1>1, <2>1 DEF role
  <2>3. \A i \in DOMAIN role.parents : role.parents[i] \in RoleIDs(roles)
    BY Zenon, <1>2, <2>2 DEF Range, RoleIn, RoleIDs
  <2>4. role.parents \in Seq(RoleIDs(roles))
    BY <2>2, <2>3
  <2> QED BY Zenon, <2>4 DEF role
<1> QED
  BY Zenon, <1>2, <1>3, <1>4, <1>5 DEF Known

(* What New accepts is what the evaluator relies on.                       *)
LEMMA AcceptsIsSound ==
    ASSUME NEW m \in RbacModel, Accepts(m)
    PROVE  Sound(m)
<1>1. /\ m.roles \in Seq(RoleRecord) /\ m.permissions \in Seq(PermissionRecord)
      /\ m.assignments \in Seq(AssignmentRecord)
  BY Zenon, ModelFields
<1>2. \A role \in Range(m.roles) : ParentError(m.roles, role) = "none"
  BY Zenon, <1>1, InheritanceExact DEF Accepts
<1>3. /\ Known(m.roles)
      /\ \A i, j \in DOMAIN m.roles : m.roles[i].id = m.roles[j].id => i = j
      /\ \A role \in Range(m.roles) : \A p \in Range(role.parents) : RoleIn(m.roles, p, role.tenant)
  BY Zenon, <1>1, <1>2, KnownRoles DEF Accepts
<1>4. \A i, j \in DOMAIN m.permissions : m.permissions[i].id = m.permissions[j].id => i = j
  <2> SUFFICES ASSUME NEW i \in DOMAIN m.permissions, NEW j \in DOMAIN m.permissions, i < j
               PROVE  m.permissions[i].id # m.permissions[j].id
    BY <1>1
  <2>1. i \in 1..(j-1)
    BY <1>1
  <2>2. PermissionError(m, j) = "none"
    BY Zenon DEF Accepts
  <2> QED BY Zenon, <2>1, <2>2, PermissionChecks
<1>5. \A p \in Range(m.permissions) : p.effect \in {"Allow", "Deny"} /\ RoleIn(m.roles, p.role, p.tenant)
  <2> SUFFICES ASSUME NEW i \in DOMAIN m.permissions
               PROVE  /\ m.permissions[i].effect \in {"Allow", "Deny"}
                      /\ RoleIn(m.roles, m.permissions[i].role, m.permissions[i].tenant)
    BY Zenon DEF Range
  <2>1. PermissionError(m, i) = "none"
    BY Zenon DEF Accepts
  <2> QED BY Zenon, <2>1, PermissionChecks DEF ValidPermission
<1>6. \A a \in Range(m.assignments) : RoleIn(m.roles, a.role, a.tenant)
  <2> SUFFICES ASSUME NEW i \in DOMAIN m.assignments
               PROVE  RoleIn(m.roles, m.assignments[i].role, m.assignments[i].tenant)
    BY Zenon DEF Range
  <2>1. AssignmentError(m, i) = "none"
    BY Zenon DEF Accepts
  <2> QED BY Zenon, <2>1, AssignmentChecks
<1> QED
  BY Zenon, <1>3, <1>4, <1>5, <1>6 DEF Sound

(* SoundInheritance of the roles of any model.                             *)
SoundIn(roles, limit) ==
    \E rank \in [RoleIDs(roles) -> 0..limit] :
        \A role \in Range(roles) : \A p \in Range(role.parents) : rank[p] < rank[role.id]

(* The search and the depths of validateInheritance tell whether ranks     *)
(* exist, and how large they must be.                                      *)
LEMMA InheritanceIsSound ==
    ASSUME NEW roles \in Seq(RoleRecord), Known(roles), NEW limit \in Nat,
           \A i, j \in DOMAIN roles : roles[i].id = roles[j].id => i = j
    PROVE  /\ HasCycle(roles) => ~SoundIn(roles, limit)
           /\ ~HasCycle(roles) => SoundIn(roles, Len(roles))
           /\ ~HasCycle(roles) =>
                (SoundIn(roles, limit) <=> \A id \in RoleIDs(roles) : ~(Depths(roles)[id] > limit))
<1>1. /\ \A role \in Range(roles) : role.id \in RoleIDs(roles) /\ Role(roles, role.id) = role
      /\ \A id \in RoleIDs(roles) : Role(roles, id) \in Range(roles) /\ Role(roles, id).id = id
  <2>1. \A id \in RoleIDs(roles) : Role(roles, id) \in Range(roles) /\ Role(roles, id).id = id
    BY Zenon DEF Role, RoleIDs
  <2>2. \A role \in Range(roles) : role.id \in RoleIDs(roles)
    BY Zenon DEF RoleIDs
  <2>3. \A r, s \in Range(roles) : r.id = s.id => r = s
    BY Zenon DEF Range
  <2> QED BY Zenon, <2>1, <2>2, <2>3
<1>2. \A role \in Range(roles) : Range(role.parents) \subseteq RoleIDs(roles)
  <2> SUFFICES ASSUME NEW role \in Range(roles), NEW p \in Range(role.parents) PROVE p \in RoleIDs(roles)
    BY Zenon
  <2>1. role.parents \in Seq(RoleIDs(roles))
    BY Zenon, <1>1 DEF Known
  <2> QED BY <2>1 DEF Range
<1>3. ASSUME NEW n \in Nat, NEW rank, Ranks(roles, rank), \A id \in RoleIDs(roles) : rank[id] <= n
      PROVE  SoundIn(roles, n)
  <2>1. rank \in [RoleIDs(roles) -> 0..n]
    BY <1>3 DEF Ranks
  <2>2. \A role \in Range(roles) : \A p \in Range(role.parents) : rank[p] < rank[role.id]
    BY Zenon, <1>1, <1>3 DEF Ranks
  <2> QED BY Zenon, <2>1, <2>2 DEF SoundIn
<1>4. ASSUME SoundIn(roles, limit)
      PROVE  \E rank : Ranks(roles, rank) /\ \A id \in RoleIDs(roles) : rank[id] <= limit
  <2>1. PICK rank \in [RoleIDs(roles) -> 0..limit] :
           \A role \in Range(roles) : \A p \in Range(role.parents) : rank[p] < rank[role.id]
    BY Zenon, <1>4 DEF SoundIn
  <2>2. rank \in [RoleIDs(roles) -> Nat] /\ \A id \in RoleIDs(roles) : rank[id] <= limit
    OBVIOUS
  <2>3. Ranks(roles, rank)
    BY Zenon, <1>1, <2>1, <2>2 DEF Ranks
  <2> QED BY Zenon, <2>2, <2>3
<1>5. HasCycle(roles) => ~SoundIn(roles, limit)
  BY Zenon, <1>4, RanksExcludeCycles
<1>6. ASSUME ~HasCycle(roles)
      PROVE  /\ Ranks(roles, Depths(roles))
             /\ \A id \in RoleIDs(roles) : Depths(roles)[id] \in 0..Len(roles)
  <2>1. \E rank : Ranks(roles, rank)
    BY Zenon, <1>6, NoCycleRanks
  <2> QED BY Zenon, <2>1, DepthsAreLeast, DepthsAreBounded
<1>7. ~HasCycle(roles) => SoundIn(roles, Len(roles))
  <2> SUFFICES ASSUME ~HasCycle(roles) PROVE SoundIn(roles, Len(roles))
    BY Zenon
  <2>1. Len(roles) \in Nat /\ \A id \in RoleIDs(roles) : Depths(roles)[id] <= Len(roles)
    BY <1>6
  <2> QED BY Zenon, <1>3, <1>6, <2>1
<1>8. ASSUME ~HasCycle(roles), \A id \in RoleIDs(roles) : ~(Depths(roles)[id] > limit)
      PROVE  SoundIn(roles, limit)
  <2>1. \A id \in RoleIDs(roles) : Depths(roles)[id] <= limit
    BY <1>6, <1>8 DEF Ranks
  <2> QED BY Zenon, <1>3, <1>6, <1>8, <2>1
<1>9. ASSUME ~HasCycle(roles), SoundIn(roles, limit), NEW id \in RoleIDs(roles)
      PROVE  ~(Depths(roles)[id] > limit)
  <2>1. PICK rank : Ranks(roles, rank) /\ \A x \in RoleIDs(roles) : rank[x] <= limit
    BY Zenon, <1>4, <1>9
  <2>2. Depths(roles)[id] <= rank[id]
    BY Zenon, <2>1, DepthsAreLeast
  <2>3. Depths(roles)[id] \in Nat /\ rank[id] \in Nat
    BY Zenon, <1>6, <1>9, <2>1 DEF Ranks
  <2> QED BY <2>1, <2>2, <2>3
<1> QED
  BY Zenon, <1>5, <1>7, <1>8, <1>9

-----------------------------------------------------------------------------
(* Assignments come and go                                                 *)

(* Where the elements of RemoveIndex(s, k) come from, n being Len(s).      *)
From(n, k) == [i \in 1..(n - 1) |-> IF i < k THEN i ELSE i + 1]

LEMMA Removed ==
    ASSUME NEW T, NEW s \in Seq(T), NEW k \in DOMAIN s
    PROVE  /\ RemoveIndex(s, k) \in Seq(T) /\ Len(RemoveIndex(s, k)) = Len(s) - 1
           /\ DOMAIN RemoveIndex(s, k) = 1..(Len(s) - 1)
           /\ \A i \in 1..(Len(s) - 1) :
                /\ From(Len(s), k)[i] \in DOMAIN s
                /\ RemoveIndex(s, k)[i] = s[From(Len(s), k)[i]]
           /\ \A i, j \in 1..(Len(s) - 1) : i < j => From(Len(s), k)[i] < From(Len(s), k)[j]
<1> DEFINE n == Len(s)
           u == SubSeq(s, 1, k-1)
           v == SubSeq(s, k+1, n)
           t == RemoveIndex(s, k)
<1>1. n \in Nat /\ k \in 1..n
  OBVIOUS
<1>2. /\ u \in Seq(T) /\ Len(u) = k - 1 /\ v \in Seq(T) /\ Len(v) = n - k
      /\ \A i \in 1..(k-1) : u[i] = s[i]
      /\ \A i \in 1..(n-k) : v[i] = s[i + k]
  BY <1>1
<1>3. t = u \o v
  BY Zenon DEF RemoveIndex
<1> HIDE DEF u, v, t
<1>4. /\ t \in Seq(T) /\ Len(t) = n - 1 /\ DOMAIN t = 1..(n - 1)
      /\ \A i \in 1..(n-1) : t[i] = IF i < k THEN u[i] ELSE v[i - (k - 1)]
  <2>1. /\ t \in Seq(T) /\ Len(t) = Len(u) + Len(v)
        /\ \A i \in 1..(Len(u) + Len(v)) : t[i] = IF i <= Len(u) THEN u[i] ELSE v[i - Len(u)]
    BY Zenon, <1>2, <1>3, ConcatProperties
  <2>2. Len(u) + Len(v) = n - 1
    BY <1>1, <1>2
  <2>3. ASSUME NEW i \in 1..(n-1) PROVE t[i] = IF i < k THEN u[i] ELSE v[i - (k - 1)]
    <3>1. i \in 1..(Len(u) + Len(v))
      BY Zenon, <2>2
    <3>2. Len(u) = k - 1
      BY Zenon, <1>2
    <3>3. i <= Len(u) <=> i < k
      BY <1>1, <3>2
    <3> QED
      BY Zenon, <2>1, <3>1, <3>2, <3>3
  <2>4. DOMAIN t = 1..(n - 1)
    BY <2>1, <2>2
  <2> QED
    BY Zenon, <2>1, <2>2, <2>3, <2>4
<1>5. \A i \in 1..(n-1) : From(n, k)[i] = IF i < k THEN i ELSE i + 1
  BY Zenon DEF From
<1>6. ASSUME NEW i \in 1..(n-1) PROVE From(n, k)[i] \in DOMAIN s /\ t[i] = s[From(n, k)[i]]
  <2>1. CASE i < k
    <3>1. i \in 1..(k-1) /\ i \in 1..n
      BY <1>1, <2>1
    <3> QED BY <1>2, <1>4, <1>5, <2>1, <3>1
  <2>2. CASE ~(i < k)
    <3>1. i - (k - 1) \in 1..(n-k) /\ i + 1 \in 1..n /\ i - (k - 1) + k = i + 1
      BY <1>1, <2>2
    <3>2. v[i - (k - 1)] = s[i + 1]
      BY Zenon, <1>2, <3>1
    <3> QED BY <1>4, <1>5, <2>2, <3>1, <3>2
  <2> QED BY Zenon, <2>1, <2>2
<1>7. \A i, j \in 1..(n-1) : i < j => From(n, k)[i] < From(n, k)[j]
  BY <1>1, <1>5
<1> QED
  BY Zenon, <1>4, <1>6, <1>7 DEF t

(* A model that New accepts is accepted with an assignment less.           *)
LEMMA RevokeKeeps ==
    ASSUME NEW m \in RbacModel, Accepts(m), NEW k \in DOMAIN m.assignments
    PROVE  LET n == [m EXCEPT !.assignments = RemoveIndex(@, k)] IN n \in RbacModel /\ Accepts(n)
<1> DEFINE s == m.assignments
           t == RemoveIndex(s, k)
           at == From(Len(s), k)
           n == [m EXCEPT !.assignments = t]
<1>1. s \in Seq(AssignmentRecord)
  BY Zenon, ModelFields
<1>0. /\ t \in Seq(AssignmentRecord) /\ Len(t) = Len(s) - 1 /\ DOMAIN t = 1..(Len(s) - 1)
      /\ \A i \in 1..(Len(s) - 1) : at[i] \in DOMAIN s /\ t[i] = s[at[i]]
      /\ \A i, j \in 1..(Len(s) - 1) : i < j => at[i] < at[j]
  <2> HIDE DEF s
  <2>1. k \in DOMAIN s
    BY Zenon DEF s
  <2> QED BY Zenon, <1>1, <2>1, Removed
<1> HIDE DEF at, t
<1>2. /\ t \in Seq(AssignmentRecord) /\ Len(t) = Len(s) - 1 /\ DOMAIN t = 1..(Len(s) - 1)
      /\ \A i \in DOMAIN t : at[i] \in DOMAIN s /\ t[i] = s[at[i]]
      /\ \A i, j \in DOMAIN t : i < j => at[i] < at[j]
  BY Zenon, <1>0
<1>3. /\ n \in RbacModel /\ n.assignments = t
      /\ n.roles = m.roles /\ n.permissions = m.permissions /\ n.limits = m.limits
  BY Zenon, <1>2 DEF RbacModel
<1> HIDE DEF n, s
<1>4. ~(Len(n.assignments) > n.limits.maxAssignments)
  <2>1. ~(Len(s) > m.limits.maxAssignments) /\ Len(s) \in Nat /\ m.limits.maxAssignments \in Nat
    BY <1>1, ModelFields DEF Accepts, s
  <2> QED
    BY <1>2, <1>3, <2>1
<1>5. \A i \in DOMAIN n.permissions : PermissionError(n, i) = "none"
  <2>1. \A i \in DOMAIN m.permissions : PermissionError(m, i) = "none"
    BY Zenon DEF Accepts
  <2> QED
    BY Zenon, <1>3, <2>1, PermissionChecks
<1>6. ASSUME NEW i \in DOMAIN t PROVE AssignmentError(n, i) = "none"
  <2>1. at[i] \in DOMAIN s /\ t[i] = s[at[i]]
    BY Zenon, <1>2
  <2>2. AssignmentError(m, at[i]) = "none"
    BY Zenon, <2>1 DEF Accepts, s
  <2>3. /\ ValidAssignment(s[at[i]])
        /\ \A j \in 1..(at[i]-1) : s[j].id # s[at[i]].id
        /\ s[at[i]].role \in RoleIDs(m.roles)
        /\ RoleIn(m.roles, s[at[i]].role, s[at[i]].tenant)
    BY Zenon, <2>2, AssignmentChecks DEF s
  <2>4. \A j \in 1..(i-1) : t[j].id # t[i].id
    <3> SUFFICES ASSUME NEW j \in 1..(i-1) PROVE t[j].id # t[i].id
      BY Zenon
    <3>1. j \in DOMAIN t /\ j < i
      BY <1>1, <1>2
    <3>2. at[j] < at[i] /\ at[j] \in DOMAIN s /\ t[j] = s[at[j]]
      BY Zenon, <1>2, <3>1
    <3>3. at[j] \in 1..(at[i]-1)
      BY <1>1, <2>1, <3>2
    <3> QED
      BY Zenon, <2>1, <2>3, <3>2, <3>3
  <2> QED
    BY Zenon, <1>3, <2>1, <2>3, <2>4, AssignmentChecks
<1>7. Accepts(n)
  BY Zenon, <1>3, <1>4, <1>5, <1>6 DEF Accepts
<1> QED
  BY Zenon, <1>3, <1>7 DEF n, t, s

LEMMA AssignTypes ==
    ASSUME NEW m \in RbacModel, NEW a \in AssignmentRecord
    PROVE  [m EXCEPT !.assignments = Append(@, a)] \in RbacModel
<1>1. Append(m.assignments, a) \in Seq(AssignmentRecord)
  BY ModelFields
<1> DEFINE s == Append(m.assignments, a)
<1> HIDE DEF s
<1>2. [m EXCEPT !.assignments = s] \in RbacModel
  BY Zenon, <1>1 DEF RbacModel, s
<1> QED
  BY Zenon, <1>2 DEF s

-----------------------------------------------------------------------------
(* The manager and its reader                                              *)

(* A manager that was not built has the answer of New; a reader waits for  *)
(* a manager, and while it holds its tag, nothing changed.                 *)
ManagerInv ==
    /\ ManagerTypeOK
    /\ revision # 0 => Accepts(model)
    /\ revision = 0 => answer = "none" \/ answer \in New(model)
    /\ revision = 0 => reader.pc = "idle"
    /\ TaggedViewIsCurrent

LEMMA ManagerInitial == ManagerInit => ManagerInv
<1> SUFFICES ASSUME ManagerInit PROVE ManagerInv
  BY Zenon
<1>1. model \in RbacModel /\ revision = 0 /\ reader = NoView /\ answer = "none"
  BY Zenon, ManagerAssumption DEF ManagerInit
<1>2. reader.pc = "idle" /\ ManagerTypeOK
  BY <1>1, ManagerAssumption DEF ManagerTypeOK, NoView
<1> QED
  BY Zenon, <1>1, <1>2 DEF ManagerInv, TaggedViewIsCurrent

(* A change of the model moves the revision past every reader's tag.       *)
LEMMA ChangeKeeps ==
    ASSUME ManagerInv, model' \in RbacModel, Accepts(model'), revision \in 1..(MaxManagerRevision - 1),
           revision' = revision + 1, reader' = reader
    PROVE  ManagerInv'
<1>1. /\ revision' \in 0..MaxManagerRevision /\ revision' # 0
      /\ reader \in [pc: {"idle", "tagged", "cached"}, revision: 0..revision,
                     assignments: Seq(AssignmentRecord)]
  BY ManagerAssumption DEF ManagerInv, ManagerTypeOK
<1>2. reader.revision \in 0..revision /\ reader.revision # revision'
  BY <1>1
<1>3. ManagerTypeOK'
  BY <1>1 DEF ManagerTypeOK
<1> QED
  BY Zenon, <1>1, <1>2, <1>3 DEF ManagerInv, TaggedViewIsCurrent

LEMMA ManagerStep ==
    ASSUME ManagerInv, [ManagerNext]_managerVars
    PROVE  ManagerInv'
<1>1. CASE NewManager
  <2>1. /\ revision = 0 /\ answer' \in New(model) /\ model' = model /\ reader' = reader
        /\ revision' = IF answer' = "none" THEN 1 ELSE 0
    BY Zenon, <1>1 DEF NewManager
  <2>2. model \in RbacModel /\ reader.pc = "idle"
    BY Zenon, <2>1 DEF ManagerInv, ManagerTypeOK
  <2>3. revision' # 0 => Accepts(model')
    BY Zenon, <2>1, <2>2, NewChecks
  <2>4. ManagerTypeOK'
    BY <2>1, ManagerAssumption DEF ManagerInv, ManagerTypeOK
  <2> QED
    BY Zenon, <2>1, <2>2, <2>3, <2>4 DEF ManagerInv, TaggedViewIsCurrent
<1>2. ASSUME NEW a \in NewAssignments, Assign(a) PROVE ManagerInv'
  <2> DEFINE candidate == [model EXCEPT !.assignments = Append(@, a)]
  <2>1. candidate \in RbacModel
    BY Zenon, ManagerAssumption, AssignTypes DEF ManagerInv, ManagerTypeOK
  <2>2. /\ revision \in 1..(MaxManagerRevision - 1) /\ answer' \in New(candidate) /\ reader' = reader
        /\ \/ answer' = "none" /\ model' = candidate /\ revision' = revision + 1
           \/ model' = model /\ revision' = revision
    BY Zenon, <1>2 DEF Assign
  <2> HIDE DEF candidate
  <2>3. CASE answer' = "none" /\ model' = candidate /\ revision' = revision + 1
    BY Zenon, <2>1, <2>2, <2>3, NewChecks, ChangeKeeps
  <2>4. CASE model' = model /\ revision' = revision
    BY <2>2, <2>4 DEF ManagerInv, ManagerTypeOK, TaggedViewIsCurrent
  <2> QED
    BY Zenon, <2>2, <2>3, <2>4
<1>3. ASSUME NEW id, RevokeAssignment(id) PROVE ManagerInv'
  <2> DEFINE found == {i \in DOMAIN model.assignments : model.assignments[i].id = id}
             index == IF found = {} THEN 0 ELSE Min(found)
  <2>1. /\ revision \in 1..(MaxManagerRevision - 1) /\ reader' = reader
        /\ \/ index = 0 /\ model' = model /\ revision' = revision
           \/ /\ index # 0 /\ revision' = revision + 1
              /\ model' = [model EXCEPT !.assignments = RemoveIndex(@, index)]
    BY Zenon, <1>3 DEF RevokeAssignment
  <2>2. index = 0 \/ index \in DOMAIN model.assignments
    <3>1. found \subseteq Nat /\ found \subseteq DOMAIN model.assignments
      BY ModelFields DEF ManagerInv, ManagerTypeOK
    <3> HIDE DEF found
    <3> QED BY Zenon, <3>1, MinOfNats
  <2> HIDE DEF index
  <2>3. CASE index = 0 /\ model' = model /\ revision' = revision
    BY <2>1, <2>3 DEF ManagerInv, ManagerTypeOK, TaggedViewIsCurrent
  <2>4. CASE /\ index # 0 /\ revision' = revision + 1
             /\ model' = [model EXCEPT !.assignments = RemoveIndex(@, index)]
    <3>1. model \in RbacModel /\ Accepts(model) /\ index \in DOMAIN model.assignments
      BY <2>1, <2>2, <2>4 DEF ManagerInv, ManagerTypeOK
    <3>2. model' \in RbacModel /\ Accepts(model')
      BY Zenon, <2>4, <3>1, RevokeKeeps
    <3> QED
      BY Zenon, <2>1, <2>4, <3>2, ChangeKeeps
  <2> QED
    BY Zenon, <2>1, <2>3, <2>4
<1>4. CASE Revision
  <2>1. /\ model' = model /\ revision' = revision /\ revision # 0
        /\ reader' = [NoView EXCEPT !.pc = "tagged", !.revision = revision]
    BY Zenon, <1>4 DEF Revision
  <2>2. revision \in Nat /\ model \in RbacModel /\ revision \in 0..MaxManagerRevision
    BY ManagerAssumption DEF ManagerInv, ManagerTypeOK
  <2>3. reader' = [pc |-> "tagged", revision |-> revision, assignments |-> <<>>]
    BY Zenon, <2>1 DEF NoView
  <2>4. reader' \in [pc: {"idle", "tagged", "cached"}, revision: 0..revision,
                     assignments: Seq(AssignmentRecord)]
    BY <2>2, <2>3
  <2>5. ManagerTypeOK' /\ reader'.pc = "tagged"
    BY Zenon, <2>1, <2>2, <2>3, <2>4 DEF ManagerTypeOK
  <2> QED
    BY Zenon, <2>1, <2>5 DEF ManagerInv, TaggedViewIsCurrent
<1>5. CASE Evaluator
  <2>1. /\ model' = model /\ revision' = revision
        /\ reader' = [reader EXCEPT !.pc = "cached", !.assignments = model.assignments]
           \/ reader' = NoView
        /\ revision # 0
    BY Zenon, <1>5 DEF Evaluator, ManagerInv
  <2>2. model.assignments \in Seq(AssignmentRecord)
    BY Zenon, ModelFields DEF ManagerInv, ManagerTypeOK
  <2>3. CASE reader' = [reader EXCEPT !.pc = "cached", !.assignments = model.assignments]
    <3>1. reader'.assignments = model.assignments /\ ManagerTypeOK'
      BY Zenon, <2>1, <2>2, <2>3 DEF ManagerInv, ManagerTypeOK
    <3> QED
      BY Zenon, <2>1, <3>1 DEF ManagerInv, TaggedViewIsCurrent
  <2>4. CASE reader' = NoView
    BY <2>1, <2>4 DEF NoView, ManagerInv, ManagerTypeOK, TaggedViewIsCurrent
  <2> QED
    BY Zenon, <2>1, <2>3, <2>4
<1>6. CASE Refresh
  BY <1>6 DEF Refresh, NoView, ManagerInv, ManagerTypeOK, TaggedViewIsCurrent
<1>7. CASE UNCHANGED managerVars
  BY Zenon, <1>7 DEF managerVars, ManagerInv, ManagerTypeOK, TaggedViewIsCurrent
<1> QED
  BY Zenon, <1>1, <1>2, <1>3, <1>4, <1>5, <1>6, <1>7 DEF ManagerNext

(* The manager's model is always one New accepts, and readers' views are   *)
(* no older than their tags (manager.go).                                  *)
THEOREM ManagerInvariant == ManagerSpec => []ManagerInv
BY ManagerInitial, ManagerStep, PTL DEF ManagerSpec

(* While Revision() answers the tag of a cached view, its assignments are  *)
(* the manager's (Revision and Evaluator of manager.go).                   *)
THEOREM TaggedCurrent == ManagerSpec => []TaggedViewIsCurrent
<1>1. ManagerInv => TaggedViewIsCurrent
  BY Zenon DEF ManagerInv
<1> QED
  BY <1>1, ManagerInvariant, PTL

(* What the manager holds is bound within tenants, has distinct assignment *)
(* IDs, and is never refused by Evaluator() (Assign and RevokeAssignment   *)
(* of manager.go over New of rbac.go).                                     *)
THEOREM Rebuilds == ManagerSpec => []EvaluatorRebuilds
<1>1. ASSUME ManagerInv PROVE EvaluatorRebuilds
  <2> SUFFICES ASSUME revision # 0
               PROVE  /\ SoundBindings
                      /\ \A i, j \in DOMAIN model.assignments :
                            model.assignments[i].id = model.assignments[j].id => i = j
                      /\ New(model) = {"none"}
    BY Zenon DEF EvaluatorRebuilds
  <2>1. model \in RbacModel /\ Accepts(model)
    BY Zenon, <1>1 DEF ManagerInv, ManagerTypeOK
  <2>2. New(model) = {"none"} /\ Sound(model) /\ model.assignments \in Seq(AssignmentRecord)
    BY Zenon, <2>1, NewChecks, AcceptsIsSound, ModelFields
  <2>3. \A i, j \in DOMAIN model.assignments :
           model.assignments[i].id = model.assignments[j].id => i = j
    <3> SUFFICES ASSUME NEW i \in DOMAIN model.assignments, NEW j \in DOMAIN model.assignments, i < j
                 PROVE  model.assignments[i].id # model.assignments[j].id
      BY <2>2
    <3>1. AssignmentError(model, j) = "none"
      BY Zenon, <2>1 DEF Accepts
    <3>2. i \in 1..(j-1)
      BY <2>2
    <3> QED
      BY Zenon, <3>1, <3>2, AssignmentChecks
  <2> QED
    BY Zenon, <2>2, <2>3 DEF SoundBindings, Sound
<1> QED
  BY <1>1, ManagerInvariant, PTL

(* What the manager holds has ranks within the depth limit; a model it was *)
(* refused with for a cycle has none, one refused for its depth has none   *)
(* that small (validateInheritance of rbac.go).                            *)
THEOREM ManagedSound == ManagerSpec => []ManagedModelsAreSound
<1>1. ASSUME ManagerInv, EvaluatorRebuilds PROVE ManagedModelsAreSound
  <2> DEFINE roles == model.roles
             limit == model.limits.maxInheritanceDepth
  <2>1. model \in RbacModel /\ roles \in Seq(RoleRecord) /\ limit \in Nat /\ Len(roles) \in Nat
    BY <1>1, ModelFields DEF ManagerInv, ManagerTypeOK
  <2>2. \A n : SoundInheritance(n) <=> SoundIn(roles, n)
    BY Zenon DEF SoundInheritance, SoundIn
  <2>3. ASSUME NEW e \in InheritanceErrors(roles, limit) \cap (InheritanceFaults \cup {"none"}),
               \A i \in DOMAIN roles : RoleError(roles, i) = "none"
        PROVE  /\ e = "none" => SoundInheritance(limit)
               /\ e = "ErrRoleCycle" => ~SoundInheritance(Len(roles))
               /\ e = "ErrInheritanceDepthExceeded" =>
                    SoundInheritance(Len(roles)) /\ ~SoundInheritance(limit)
    <3> HIDE DEF roles, limit
    <3>1. /\ \A role \in Range(roles) : ParentError(roles, role) = "none"
          /\ e = "ErrRoleCycle" <=> HasCycle(roles)
          /\ e # "ErrRoleCycle" =>
               (e = "none" <=> \A id \in RoleIDs(roles) : ~(Depths(roles)[id] > limit))
      BY Zenon, <2>1, <2>3, InheritanceExact
    <3>2. /\ Known(roles)
          /\ \A i, j \in DOMAIN roles : roles[i].id = roles[j].id => i = j
      BY Zenon, <2>1, <2>3, <3>1, KnownRoles
    <3>3. HasCycle(roles) => ~SoundIn(roles, Len(roles))
      BY Zenon, <2>1, <3>2, InheritanceIsSound
    <3>4. /\ ~HasCycle(roles) => SoundIn(roles, Len(roles))
          /\ ~HasCycle(roles) =>
               (SoundIn(roles, limit) <=> \A id \in RoleIDs(roles) : ~(Depths(roles)[id] > limit))
      BY Zenon, <2>1, <3>2, InheritanceIsSound
    <3> QED BY Zenon, <2>2, <3>1, <3>3, <3>4
  <2>4. revision # 0 => SoundInheritance(limit)
    BY Zenon, <1>1, <2>3 DEF ManagerInv, Accepts
  <2>5. ASSUME revision = 0, answer \in InheritanceFaults
        PROVE  /\ answer = "ErrRoleCycle" => ~SoundInheritance(Len(roles))
               /\ answer = "ErrInheritanceDepthExceeded" =>
                    SoundInheritance(Len(roles)) /\ ~SoundInheritance(limit)
    <3>1. answer \in New(model)
      BY Zenon, <1>1, <2>5 DEF ManagerInv, InheritanceFaults
    <3>2. /\ \A i \in DOMAIN roles : RoleError(roles, i) = "none"
          /\ answer \in InheritanceErrors(roles, limit)
      BY Zenon, <2>1, <2>5, <3>1, NewChecks
    <3> QED BY Zenon, <2>3, <2>5, <3>2
  <2> QED
    BY Zenon, <1>1, <2>4, <2>5 DEF ManagedModelsAreSound, InheritanceFaults
<1> QED
  BY <1>1, ManagerInvariant, Rebuilds, PTL

(* What the manager's evaluator decides is what the definition of a        *)
(* subject's roles justifies: Allow exactly when applicable permissions    *)
(* all allow and fit the limit, the applicable ones are reported, and all  *)
(* are of a tenant in reach (Evaluate and EffectivePermissions of          *)
(* rbac.go).                                                               *)
THEOREM DecisionsJustified == ManagerSpec => []DecisionsAreJustified
<1>1. ASSUME ManagerInv, revision # 0, NEW request \in Requests
      PROVE  LET decision == Evaluate(model, request)
                 applicable == Applicable(request) IN
             /\ decision.outcome = "Allow" <=>
                   /\ ~request.canceled
                   /\ Len(request.subject.groups) <= model.limits.maxGroups
                   /\ Cardinality(applicable) \in 1..model.limits.maxMatches
                   /\ \A p \in applicable : p.effect = "Allow"
             /\ decision.err = "none" => Range(decision.matched) = {p.id : p \in applicable}
             /\ \A p \in applicable :
                   p.tenant = request.tenant \/ (model.inheritGlobal /\ p.tenant = 0)
  <2> DEFINE decision == Evaluate(model, request)
             applicable == Applicable(request)
  <2>1. /\ model \in RbacModel /\ Sound(model) /\ request \in RequestRecord
        /\ model.limits.maxGroups \in Nat /\ model.limits.maxMatches \in Nat
        /\ Len(request.subject.groups) \in Nat
    <3>1. model \in RbacModel /\ request \in RequestRecord /\ Accepts(model)
      BY Zenon, <1>1, ManagerAssumption DEF ManagerInv, ManagerTypeOK
    <3>2. request.subject.groups \in Seq(Nat)
      BY Zenon, <3>1 DEF RequestRecord
    <3> QED BY <3>1, <3>2, AcceptsIsSound, ModelFields
  <2>2. applicable = ApplicableIn(model, request)
    BY Zenon DEF Applicable, ApplicableIn, Inherited, InheritedIn, Assigned, AssignedIn
  <2>3. IsFiniteSet(applicable) /\ Cardinality(applicable) \in Nat
    BY Zenon, <2>1, <2>2, EntriesAreApplicable, FS_CardinalityType
  <2>4. Cardinality(applicable) = 0 <=> applicable = {}
    BY Zenon, <2>3, FS_EmptySet
  <2>5. \A p \in applicable : p.effect \in {"Allow", "Deny"} /\ RoleIn(model.roles, p.role, p.tenant)
    BY Zenon, <2>1 DEF Applicable, Sound
  <2>6. /\ decision.outcome \in {"NotApplicable", "Allow", "Deny"}
        /\ IF RefusedIn(model, request) THEN decision.outcome = "Deny" /\ decision.err # "none"
           ELSE /\ decision.err = "none"
                /\ Range(decision.matched) = {p.id : p \in applicable}
                /\ decision.outcome = "NotApplicable" <=> applicable = {}
                /\ decision.outcome = "Deny" <=> \E p \in applicable : p.effect = "Deny"
    BY Zenon, <2>1, <2>2, EvaluateDecides
  <2>7. RefusedIn(model, request) <=>
           \/ request.canceled
           \/ Len(request.subject.groups) > model.limits.maxGroups
           \/ Cardinality(applicable) > model.limits.maxMatches
    BY Zenon, <2>2 DEF RefusedIn
  <2>8. ASSUME NEW p \in applicable
        PROVE  p.tenant = request.tenant \/ (model.inheritGlobal /\ p.tenant = 0)
    <3>1. p.role \in InheritedIn(model, AssignedIn(model, request.subject, request.tenant))
      BY Zenon, <2>2, <2>8 DEF ApplicableIn
    <3>2. \/ Role(model.roles, p.role).tenant = request.tenant
          \/ model.inheritGlobal /\ Role(model.roles, p.role).tenant = 0
      BY Zenon, <2>1, <3>1, InheritedInTenant
    <3>3. PICK role \in Range(model.roles) : role.id = p.role /\ role.tenant = p.tenant
      BY Zenon, <2>5, <2>8 DEF RoleIn
    <3>4. Role(model.roles, p.role) = role
      BY Zenon, <2>1, <3>3, RoleOfID
    <3> QED BY Zenon, <3>2, <3>3, <3>4
  <2> HIDE DEF applicable, decision
  <2>9. decision.outcome = "Allow" <=>
           /\ ~request.canceled
           /\ Len(request.subject.groups) <= model.limits.maxGroups
           /\ Cardinality(applicable) \in 1..model.limits.maxMatches
           /\ \A p \in applicable : p.effect = "Allow"
    <3>1. Cardinality(applicable) \in 1..model.limits.maxMatches <=>
             applicable # {} /\ ~(Cardinality(applicable) > model.limits.maxMatches)
      BY <2>1, <2>3, <2>4
    <3>2. Len(request.subject.groups) <= model.limits.maxGroups <=>
             ~(Len(request.subject.groups) > model.limits.maxGroups)
      BY <2>1
    <3> QED BY Zenon, <2>5, <2>6, <2>7, <3>1, <3>2
  <2> QED BY Zenon, <2>6, <2>8, <2>9 DEF applicable, decision
<1>2. ManagerInv => DecisionsAreJustified
  BY Zenon, <1>1 DEF DecisionsAreJustified
<1> QED
  BY <1>2, ManagerInvariant, PTL

(* Assign never turns a denied request into an allowed one (Assign of      *)
(* manager.go over Evaluate of rbac.go).                                   *)
THEOREM AssigningNeverLifts == ManagerSpec => AssigningNeverLiftsADenial
<1>1. ASSUME ManagerInv, ManagerNext, revision # 0,
             Len(model'.assignments) > Len(model.assignments),
             NEW request \in Requests, Evaluate(model, request).outcome = "Deny"
      PROVE  Evaluate(model', request).outcome = "Deny"
  <2>1. model \in RbacModel /\ Accepts(model) /\ Sound(model) /\ request \in RequestRecord
    BY Zenon, <1>1, ManagerAssumption, AcceptsIsSound DEF ManagerInv, ManagerTypeOK
  <2>2. model.assignments \in Seq(AssignmentRecord) /\ Len(model.assignments) \in Nat
    BY <2>1, ModelFields
  <2>3. model' # model
    BY <1>1, <2>2
  <2>4. ~NewManager /\ ~Revision /\ ~Evaluator /\ ~Refresh
    BY Zenon, <2>3 DEF NewManager, Revision, Evaluator, Refresh
  <2>5. ASSUME NEW id, RevokeAssignment(id) PROVE FALSE
    <3> DEFINE found == {i \in DOMAIN model.assignments : model.assignments[i].id = id}
               index == IF found = {} THEN 0 ELSE Min(found)
    <3>1. index # 0 /\ model' = [model EXCEPT !.assignments = RemoveIndex(@, index)]
      BY Zenon, <2>3, <2>5 DEF RevokeAssignment
    <3>2. index \in DOMAIN model.assignments
      <4>1. found \subseteq Nat /\ found \subseteq DOMAIN model.assignments
        BY <2>2
      <4> HIDE DEF found
      <4> QED BY Zenon, <3>1, <4>1, MinOfNats
    <3> HIDE DEF index
    <3>3. model'.assignments = RemoveIndex(model.assignments, index)
      BY Zenon, <2>1, <3>1 DEF RbacModel
    <3>4. Len(model'.assignments) = Len(model.assignments) - 1
      BY Zenon, <2>2, <3>2, <3>3, Removed
    <3> QED BY <1>1, <2>2, <3>4
  <2>6. PICK a \in NewAssignments : Assign(a)
    BY Zenon, <1>1, <2>4, <2>5 DEF ManagerNext
  <2>7. /\ model' = [model EXCEPT !.assignments = Append(@, a)]
        /\ "none" \in New(model')
    BY Zenon, <2>3, <2>6 DEF Assign
  <2>8. model' \in RbacModel
    BY Zenon, <2>1, <2>7, ManagerAssumption, AssignTypes
  <2>9. Sound(model')
    BY Zenon, <2>7, <2>8, NewChecks, AcceptsIsSound
  <2>10. /\ model'.roles = model.roles /\ model'.permissions = model.permissions
         /\ model'.limits = model.limits /\ model'.inheritGlobal = model.inheritGlobal
         /\ model'.assignments = Append(model.assignments, a)
    BY Zenon, <2>1, <2>7 DEF RbacModel
  <2>11. Range(model.assignments) \subseteq Range(model'.assignments)
    BY <2>2, <2>10 DEF Range
  <2> QED BY Zenon, <1>1, <2>1, <2>8, <2>9, <2>10, <2>11, AssigningKeepsDenials
<1>2. ManagerInv /\ [ManagerNext]_managerVars =>
        [(revision # 0 /\ Len(model'.assignments) > Len(model.assignments)) =>
            \A request \in Requests :
                Evaluate(model, request).outcome = "Deny" =>
                    Evaluate(model', request).outcome = "Deny"]_managerVars
  BY Zenon, <1>1
<1> QED
  BY <1>2, ManagerInvariant, PTL DEF ManagerSpec, AssigningNeverLiftsADenial

=============================================================================
