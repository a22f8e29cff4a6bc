------------------------------ MODULE RbacProofs ------------------------------
(***************************************************************************)
(* What the loops and searches of rbac compute, for any roles, permissions *)
(* and assignments: the closure of roles under inheritance, the search for *)
(* cycles, the depths, and what Evaluate decides.                          *)
(***************************************************************************)
EXTENDS RbacManager, SnapshotProofs

-----------------------------------------------------------------------------
(* The closure of roles under inheritance                                  *)

(* Finitely many roles, whose parents are among them.                      *)
Known(roles) ==
    /\ IsFiniteSet(RoleIDs(roles))
    /\ \A id \in RoleIDs(roles) : Role(roles, id).parents \in Seq(RoleIDs(roles))

Missing(roles, seen) == Cardinality(RoleIDs(roles) \ seen)

Grows(roles, g) ==
    \A s \in SUBSET RoleIDs(roles) : \A r \in RoleIDs(roles) :
        g[<<s, r>>] \in SUBSET RoleIDs(roles) /\ s \subseteq g[<<s, r>>]

(* f and g agree where fewer than k roles are missing.                     *)
AgreeBelow(roles, f, g, k) ==
    \A s \in SUBSET RoleIDs(roles) : \A r \in RoleIDs(roles) :
        Missing(roles, s) < k => f[<<s, r>>] = g[<<s, r>>]

LEMMA FewerMissing ==
    ASSUME NEW roles, Known(roles), NEW s, NEW r \in RoleIDs(roles), r \notin s,
           NEW t, s \cup {r} \subseteq t
    PROVE  Missing(roles, t) < Missing(roles, s)
<1> DEFINE I == RoleIDs(roles)
<1>1. IsFiniteSet(I \ s)
  BY Zenon, FS_Difference DEF Known
<1>2. I \ t \subseteq I \ s /\ I \ t # I \ s
  BY Zenon
<1>3. Cardinality(I \ t) <= Cardinality(I \ s) /\ Cardinality(I \ t) # Cardinality(I \ s)
      /\ Cardinality(I \ t) \in Nat /\ Cardinality(I \ s) \in Nat
  <2> HIDE DEF I
  <2> QED BY Zenon, <1>1, <1>2, FS_Subset, FS_CardinalityType
<1> QED BY <1>3 DEF Missing

LEMMA MissingIsNat ==
    ASSUME NEW roles, Known(roles)
    PROVE  \A s : Missing(roles, s) \in Nat
BY Zenon, FS_Difference, FS_CardinalityType DEF Known, Missing

(* One call makes calls for more seen roles only.                          *)
LEMMA AddRoleAgrees ==
    ASSUME NEW roles, Known(roles), NEW f, Grows(roles, f), NEW g,
           NEW s \in SUBSET RoleIDs(roles), NEW r \in RoleIDs(roles),
           AgreeBelow(roles, f, g, Missing(roles, s))
    PROVE  /\ AddRoleClosure(roles, f, s, r) \in SUBSET RoleIDs(roles) /\ s \subseteq AddRoleClosure(roles, f, s, r)
           /\ AddRoleClosure(roles, f, s, r) = AddRoleClosure(roles, g, s, r)
<1> DEFINE I == RoleIDs(roles)
           P == {R \in SUBSET I : s \cup {r} \subseteq R}
           list == Role(roles, r).parents
<1>1. CASE r \in s
  BY Zenon, <1>1 DEF AddRoleClosure
<1>2. CASE r \notin s
  <2>1. list \in Seq(I) /\ s \cup {r} \in P
    BY Zenon DEF Known
  <2>2. ASSUME NEW v \in P, NEW e \in I PROVE f[<<v, e>>] \in P /\ f[<<v, e>>] = g[<<v, e>>]
    <3>1. v \subseteq f[<<v, e>>] /\ f[<<v, e>>] \in SUBSET I
      BY Zenon DEF Grows
    <3>2. Missing(roles, v) < Missing(roles, s)
      BY Zenon, <1>2, FewerMissing
    <3> QED BY Zenon, <3>1, <3>2 DEF AgreeBelow
  <2>3. /\ AddRoleClosure(roles, f, s, r) = Loop(f, s \cup {r}, list)
        /\ AddRoleClosure(roles, g, s, r) = Loop(g, s \cup {r}, list)
    BY Zenon, <1>2 DEF AddRoleClosure
  <2>4. Sends(f, P, I) /\ Alike(f, g, P, I)
    BY Zenon, <2>2 DEF Sends, Alike
  <2>5. Loop(f, s \cup {r}, list) \in P /\ Loop(f, s \cup {r}, list) = Loop(g, s \cup {r}, list)
    <3> HIDE DEF list, P, I
    <3> QED BY <2>1, <2>4, LoopsAgree
  <2> QED BY Zenon, <2>3, <2>5
<1> QED BY Zenon, <1>1, <1>2

LEMMA ClosureSolves ==
    ASSUME NEW roles, Known(roles)
    PROVE  /\ Grows(roles, Closure(roles))
           /\ \A s \in SUBSET RoleIDs(roles) : \A r \in RoleIDs(roles) :
                 Closure(roles)[<<s, r>>] = AddRoleClosure(roles, Closure(roles), s, r)
<1> DEFINE I == RoleIDs(roles)
           V == SUBSET I
           D == V \X I
           A == [d \in D |-> {R \in V : d[1] \subseteq R}]
           G == Within(D, V, A)
           m == [d \in D |-> Missing(roles, d[1])]
           g0 == [d \in D |-> d[1]]
           Body(g) == [d \in D |-> AddRoleClosure(roles, g, d[1], d[2])]
           F == [g \in G |-> Body(g)]
           c == CHOOSE g : g = Body(g)
<1>1. \A g : g \in G <=> g \in [D -> V] /\ Grows(roles, g)
  <2> SUFFICES ASSUME NEW g \in [D -> V]
               PROVE  (\A d \in D : g[d] \in A[d]) <=> Grows(roles, g)
    BY Zenon DEF Within
  <2>1. \A s \in V : \A r \in I : g[<<s, r>>] \in A[<<s, r>>] <=> g[<<s, r>>] \in V /\ s \subseteq g[<<s, r>>]
    BY Zenon
  <2> HIDE DEF A
  <2>2. (\A d \in D : g[d] \in A[d]) <=> \A s \in V : \A r \in I : g[<<s, r>>] \in A[<<s, r>>]
    OBVIOUS
  <2> QED BY Zenon, <2>1, <2>2 DEF Grows
<1>2. A \in [D -> SUBSET V]
  BY Zenon
<1>3. m \in [D -> Nat] /\ \A s \in V : \A r \in I : m[<<s, r>>] = Missing(roles, s)
  BY Zenon, MissingIsNat
<1>4. g0 \in G
  BY Zenon, <1>1 DEF Grows
<1>5. \A g : Body(g) = [d \in D |-> Body(g)[d]] /\ \A s \in V : \A r \in I :
          Body(g)[<<s, r>>] = AddRoleClosure(roles, g, s, r)
  BY Zenon
<1>6. Closure(roles) = c
  BY Zenon DEF Closure
<1> HIDE DEF A, G, Body
<1>7. \A g \in G : Body(g) \in G
  <2> SUFFICES ASSUME NEW g \in G PROVE Body(g) \in G
    BY Zenon
  <2>1. Grows(roles, g)
    BY Zenon, <1>1
  <2>2. ASSUME NEW s \in V, NEW r \in I
        PROVE  Body(g)[<<s, r>>] \in V /\ s \subseteq Body(g)[<<s, r>>]
    <3>1. AgreeBelow(roles, g, g, Missing(roles, s))
      BY Zenon DEF AgreeBelow
    <3> QED BY <1>5, <2>1, <3>1, AddRoleAgrees
  <2>3. \A d \in D : Body(g)[d] \in V
    BY <2>2
  <2>4. Body(g) \in [D -> V]
    BY Zenon, <1>5, <2>3
  <2> QED BY Zenon, <1>1, <2>2, <2>4 DEF Grows
<1>8. F \in [G -> G] /\ \A g \in G : F[g] = Body(g)
  BY Zenon, <1>7
<1>9. ASSUME NEW f \in G, NEW g, NEW n \in Nat, AgreeBelow(roles, f, g, n),
             NEW s \in V, NEW r \in I, Missing(roles, s) <= n
      PROVE  Body(f)[<<s, r>>] = Body(g)[<<s, r>>]
  <2>1. AgreeBelow(roles, f, g, Missing(roles, s))
    BY <1>9, MissingIsNat DEF AgreeBelow
  <2> QED BY <1>1, <1>5, <2>1, AddRoleAgrees
<1>10. ASSUME NEW f \in G, NEW g \in G, NEW n \in Nat, \A d \in D : m[d] < n => f[d] = g[d]
       PROVE  \A d \in D : m[d] <= n => F[f][d] = F[g][d]
  <2> HIDE DEF m
  <2>1. AgreeBelow(roles, f, g, n)
    BY Zenon, <1>3, <1>10 DEF AgreeBelow
  <2>2. \A s \in V : \A r \in I : Missing(roles, s) <= n => Body(f)[<<s, r>>] = Body(g)[<<s, r>>]
    BY Zenon, <1>9, <2>1
  <2>3. \A s \in V : \A r \in I : m[<<s, r>>] <= n => F[f][<<s, r>>] = F[g][<<s, r>>]
    BY Zenon, <1>3, <1>8, <2>2
  <2> HIDE DEF V, F
  <2> QED BY <2>3
<1>11. PICK f \in G : F[f] = f
  <2> HIDE DEF D, V, m, g0, F
  <2>1. Contracts(F, G, D, m)
    BY Zenon, <1>10 DEF Contracts
  <2> QED BY <1>2, <1>3, <1>4, <1>8, <2>1, FixedPoint DEF G
<1>12. f = Body(f)
  BY Zenon, <1>8, <1>11
<1>13. c = Body(c)
  BY Zenon, <1>12
<1> HIDE DEF c, F
(* Whatever solves the equation agrees with f.                             *)
<1> DEFINE S == {n \in Nat : AgreeBelow(roles, f, c, n)}
<1>14. 0 \in S
  BY MissingIsNat DEF AgreeBelow
<1>15. ASSUME NEW n \in Nat, n \in S PROVE n + 1 \in S
  <2>1. \A s \in V : \A r \in I : Missing(roles, s) <= n => f[<<s, r>>] = c[<<s, r>>]
    BY <1>9, <1>12, <1>13, <1>15
  <2>2. \A s : Missing(roles, s) < n + 1 => Missing(roles, s) <= n
    BY MissingIsNat
  <2> QED BY <2>1, <2>2 DEF AgreeBelow
<1>16. Nat \subseteq S
  <2> HIDE DEF S
  <2> QED BY Zenon, <1>14, <1>15, Induct
<1>17. \A s \in V : \A r \in I : c[<<s, r>>] = f[<<s, r>>]
  <2> SUFFICES ASSUME NEW s \in V, NEW r \in I PROVE c[<<s, r>>] = f[<<s, r>>]
    BY Zenon
  <2>1. Missing(roles, s) + 1 \in Nat /\ Missing(roles, s) < Missing(roles, s) + 1
    BY MissingIsNat
  <2>2. AgreeBelow(roles, f, c, Missing(roles, s) + 1)
    BY Zenon, <1>16, <2>1
  <2> QED BY Zenon, <2>1, <2>2 DEF AgreeBelow
<1>18. Grows(roles, c)
  BY Zenon, <1>1, <1>17 DEF Grows
<1> QED BY Zenon, <1>5, <1>6, <1>13, <1>18

(* A set of roles that holds the parents of its members.                   *)
Closed(roles, C) == \A r \in C \cap RoleIDs(roles) : Range(Role(roles, r).parents) \subseteq C

(* What the call for r adds to the roles seen: r, and with each role its   *)
(* parents, and nothing that a closed set with r leaves out.               *)
Reaches(roles, s, r, R) ==
    /\ r \in R
    /\ \A x \in R \ s : Range(Role(roles, x).parents) \subseteq R
    /\ \A C \in SUBSET RoleIDs(roles) : r \in C /\ Closed(roles, C) => R \subseteq s \cup C

ReachesBelow(roles, n) ==
    \A s \in SUBSET RoleIDs(roles) : \A r \in RoleIDs(roles) :
        Missing(roles, s) < n => Reaches(roles, s, r, Closure(roles)[<<s, r>>])

LEMMA ClosureStep ==
    ASSUME NEW roles, Known(roles), NEW n \in Nat, ReachesBelow(roles, n),
           NEW s \in SUBSET RoleIDs(roles), NEW r \in RoleIDs(roles), Missing(roles, s) <= n
    PROVE  Reaches(roles, s, r, Closure(roles)[<<s, r>>])
<1> DEFINE I == RoleIDs(roles)
           c == Closure(roles)
           P == {R \in SUBSET I : s \cup {r} \subseteq R}
           list == Role(roles, r).parents
           k == Len(list)
<1>1. /\ c[<<s, r>>] = AddRoleClosure(roles, c, s, r)
      /\ \A t \in SUBSET I : \A p \in I : c[<<t, p>>] \in SUBSET I /\ t \subseteq c[<<t, p>>]
  BY Zenon, ClosureSolves DEF Grows
<1>2. list \in Seq(I) /\ k \in Nat /\ (\A i \in 1..k : list[i] \in I) /\ s \cup {r} \in P
  BY DEF Known
<1>3. Range(list) = {list[i] : i \in 1..k}
  BY <1>2 DEF Range
<1>4. CASE r \in s
  <2>1. c[<<s, r>>] = s
    BY Zenon, <1>1, <1>4 DEF AddRoleClosure
  <2> QED BY Zenon, <1>4, <2>1 DEF Reaches
<1>5. CASE r \notin s
  <2>1. c[<<s, r>>] = Loop(c, s \cup {r}, list)
    BY Zenon, <1>1, <1>5 DEF AddRoleClosure
  <2>2. Sends(c, P, I)
    BY Zenon, <1>1 DEF Sends
  <2> HIDE DEF c, list, P, k
  <2>3. PICK after : Ran(after, P, c, s \cup {r}, list)
    BY Zenon, <1>2, <2>2, LoopRuns
  <2>4. /\ after \in [0..k -> P] /\ after[0] = s \cup {r} /\ c[<<s, r>>] = after[k]
        /\ \A i \in 1..k : after[i] = c[<<after[i-1], list[i]>>]
    BY Zenon, <2>1, <2>3 DEF Ran, k
  <2> DEFINE Upto(i) ==
               /\ \A j \in 1..i : list[j] \in after[i]
               /\ \A x \in after[i] \ (s \cup {r}) : Range(Role(roles, x).parents) \subseteq after[i]
               /\ \A C \in SUBSET I : r \in C /\ Closed(roles, C) => after[i] \subseteq s \cup C
             S == {i \in Nat : i \in 0..k => Upto(i)}
  <2>5. 0 \in S
    BY <2>4
  <2>6. ASSUME NEW i \in Nat, i \in S PROVE i + 1 \in S
    <3> SUFFICES ASSUME i + 1 \in 0..k PROVE Upto(i + 1)
      OBVIOUS
    <3>1. i \in 0..k /\ i + 1 \in 1..k /\ (i + 1) - 1 = i
      BY <1>2
    <3> DEFINE R == after[i]
               p == list[i+1]
               Q == after[i+1]
    <3>2. R \in SUBSET I /\ s \cup {r} \subseteq R /\ p \in I /\ Q = c[<<R, p>>] /\ R \subseteq Q
      <4>1. R \in P /\ p \in I /\ Q = c[<<R, p>>]
        BY Zenon, <1>2, <2>4, <3>1
      <4>2. R \in SUBSET I /\ s \cup {r} \subseteq R
        BY Zenon, <4>1 DEF P
      <4> HIDE DEF R, p, Q, I
      <4> QED BY Zenon, <1>1, <4>1, <4>2
    <3>3. Missing(roles, R) < n
      <4>1. Missing(roles, R) < Missing(roles, s)
        BY Zenon, <1>5, <3>2, FewerMissing
      <4> QED BY <4>1, MissingIsNat
    <3>4. Reaches(roles, R, p, Q)
      BY Zenon, <3>2, <3>3 DEF ReachesBelow, c
    <3>5. Upto(i)
      BY Zenon, <2>6, <3>1
    <3>6. \A j \in 1..(i + 1) : j \in 1..i \/ j = i + 1
      OBVIOUS
    <3>7. \A j \in 1..(i + 1) : list[j] \in Q
      BY Zenon, <3>2, <3>4, <3>5, <3>6 DEF Reaches
    <3>8. \A x \in Q \ (s \cup {r}) : Range(Role(roles, x).parents) \subseteq Q
      BY Zenon, <3>2, <3>4, <3>5 DEF Reaches
    <3>9. ASSUME NEW C \in SUBSET I, r \in C, Closed(roles, C) PROVE Q \subseteq s \cup C
      <4>1. p \in C
        <5>1. p \in Range(list)
          BY Zenon, <1>3, <3>1
        <5> QED BY Zenon, <3>9, <5>1 DEF Closed, list
      <4>2. Q \subseteq R \cup C
        BY Zenon, <3>4, <3>9, <4>1 DEF Reaches
      <4>3. R \subseteq s \cup C
        BY Zenon, <3>5, <3>9
      <4> QED BY Zenon, <4>2, <4>3
    <3> QED BY Zenon, <3>7, <3>8, <3>9
  <2>7. Nat \subseteq S
    <3> HIDE DEF S
    <3> QED BY Zenon, <2>5, <2>6, Induct
  <2>8. Upto(k) /\ s \cup {r} \subseteq after[k]
    BY <1>2, <2>4, <2>7 DEF P
  <2>9. Range(list) \subseteq after[k]
    BY Zenon, <1>3, <2>8
  <2>10. \A x \in after[k] \ s : Range(Role(roles, x).parents) \subseteq after[k]
    BY Zenon, <2>8, <2>9 DEF list
  <2> QED BY Zenon, <2>4, <2>8, <2>10 DEF Reaches, c
<1> QED BY Zenon, <1>4, <1>5

(* addRoleClosure adds the roles that r inherits from, and no others.      *)
LEMMA ClosureReaches ==
    ASSUME NEW roles, Known(roles)
    PROVE  \A s \in SUBSET RoleIDs(roles) : \A r \in RoleIDs(roles) :
               Reaches(roles, s, r, Closure(roles)[<<s, r>>])
<1> DEFINE S == {n \in Nat : ReachesBelow(roles, n)}
<1>1. 0 \in S
  BY MissingIsNat DEF ReachesBelow
<1>2. ASSUME NEW n \in Nat, n \in S PROVE n + 1 \in S
  <2>1. \A s : Missing(roles, s) < n + 1 => Missing(roles, s) <= n
    BY MissingIsNat
  <2> QED BY <1>2, <2>1, ClosureStep DEF ReachesBelow
<1>3. Nat \subseteq S
  <2> HIDE DEF S
  <2> QED BY Zenon, <1>1, <1>2, Induct
<1> SUFFICES ASSUME NEW s \in SUBSET RoleIDs(roles), NEW r \in RoleIDs(roles)
             PROVE  Reaches(roles, s, r, Closure(roles)[<<s, r>>])
  BY Zenon
<1>4. Missing(roles, s) + 1 \in Nat /\ Missing(roles, s) < Missing(roles, s) + 1
  BY MissingIsNat
<1>5. ReachesBelow(roles, Missing(roles, s) + 1)
  BY Zenon, <1>3, <1>4
<1> QED BY Zenon, <1>4, <1>5 DEF ReachesBelow

-----------------------------------------------------------------------------
(* The search for cycles                                                   *)

FreshRoles(roles, search) == {id \in RoleIDs(roles) : search.state[id] = 0}
OpenRoles(roles, search) == {id \in RoleIDs(roles) : search.state[id] = 1}
Done(roles, search) == {id \in RoleIDs(roles) : search.state[id] = 2}

Unvisited(roles, search) == Cardinality(FreshRoles(roles, search))

Advances(roles, g) ==
    \A s \in Searches(roles) : \A id \in RoleIDs(roles) :
        g[<<s, id>>] \in Searches(roles) /\ FreshRoles(roles, g[<<s, id>>]) \subseteq FreshRoles(roles, s)

(* f and g agree on searches with fewer than k roles to visit.             *)
SameBelow(roles, f, g, k) ==
    \A s \in Searches(roles) : \A id \in RoleIDs(roles) :
        Unvisited(roles, s) < k => f[<<s, id>>] = g[<<s, id>>]

LEMMA UnvisitedIsNat ==
    ASSUME NEW roles, Known(roles)
    PROVE  \A s : Unvisited(roles, s) \in Nat
<1> SUFFICES ASSUME NEW s PROVE Unvisited(roles, s) \in Nat
  BY Zenon
<1>1. FreshRoles(roles, s) \subseteq RoleIDs(roles)
  BY Zenon DEF FreshRoles
<1> QED BY Zenon, <1>1, FS_Subset, FS_CardinalityType DEF Known, Unvisited

LEMMA FewerUnvisited ==
    ASSUME NEW roles, Known(roles), NEW s, NEW t, NEW id \in FreshRoles(roles, s),
           FreshRoles(roles, t) \subseteq FreshRoles(roles, s) \ {id}
    PROVE  Unvisited(roles, t) < Unvisited(roles, s)
<1> DEFINE S == FreshRoles(roles, s)
           T == FreshRoles(roles, t)
<1>1. S \subseteq RoleIDs(roles)
  BY Zenon DEF FreshRoles
<1>2. IsFiniteSet(S) /\ T \subseteq S /\ T # S
  BY Zenon, <1>1, FS_Subset DEF Known
<1>3. Cardinality(T) <= Cardinality(S) /\ Cardinality(T) # Cardinality(S)
      /\ Cardinality(T) \in Nat /\ Cardinality(S) \in Nat
  <2> HIDE DEF S, T
  <2> QED BY Zenon, <1>2, FS_Subset, FS_CardinalityType
<1> QED BY <1>3 DEF Unvisited

(* Marking a role changes its own state only.                              *)
LEMMA Marking ==
    ASSUME NEW roles, NEW s \in Searches(roles), NEW id \in RoleIDs(roles), NEW mark \in 1..2,
           NEW t, t = [s EXCEPT !.state[id] = mark]
    PROVE  /\ t \in Searches(roles) /\ t.cycle = s.cycle
           /\ t.state[id] = mark
           /\ \A x \in RoleIDs(roles) : x # id => t.state[x] = s.state[x]
           /\ FreshRoles(roles, t) = FreshRoles(roles, s) \ {id}
<1>1. /\ t \in Searches(roles) /\ t.cycle = s.cycle
      /\ t.state[id] = mark
      /\ \A x \in RoleIDs(roles) : x # id => t.state[x] = s.state[x]
  BY DEF Searches
<1>2. mark # 0
  OBVIOUS
<1> QED BY Zenon, <1>1, <1>2 DEF FreshRoles

LEMMA VisitAgrees ==
    ASSUME NEW roles, Known(roles), NEW f, Advances(roles, f), NEW g,
           NEW s \in Searches(roles), NEW id \in RoleIDs(roles),
           SameBelow(roles, f, g, Unvisited(roles, s))
    PROVE  /\ VisitRole(roles, f, s, id) \in Searches(roles)
           /\ FreshRoles(roles, VisitRole(roles, f, s, id)) \subseteq FreshRoles(roles, s)
           /\ VisitRole(roles, f, s, id) = VisitRole(roles, g, s, id)
<1> DEFINE I == RoleIDs(roles)
           list == Role(roles, id).parents
           start == [s EXCEPT !.state[id] = 1]
           P == {t \in Searches(roles) : FreshRoles(roles, t) \subseteq FreshRoles(roles, s) \ {id}}
           below == Loop(f, start, list)
<1>0. s.state[id] \in 0..2
  BY Zenon DEF Searches
<1>1. CASE s.cycle \/ s.state[id] = 2
  BY Zenon, <1>1 DEF VisitRole
<1>2. CASE ~s.cycle /\ s.state[id] = 1
  <2>1. [s EXCEPT !.cycle = TRUE] \in Searches(roles)
        /\ FreshRoles(roles, [s EXCEPT !.cycle = TRUE]) = FreshRoles(roles, s)
    BY Zenon DEF Searches, FreshRoles
  <2> QED BY Zenon, <1>2, <2>1 DEF VisitRole
<1>3. CASE ~s.cycle /\ s.state[id] = 0
  <2>1. start \in P /\ id \in FreshRoles(roles, s)
    <3>1. start \in Searches(roles) /\ FreshRoles(roles, start) = FreshRoles(roles, s) \ {id}
      BY Marking
    <3> QED BY Zenon, <1>3, <3>1 DEF FreshRoles
  <2>2. ASSUME NEW v \in P, NEW e \in I PROVE f[<<v, e>>] \in P /\ f[<<v, e>>] = g[<<v, e>>]
    <3>1. /\ v \in Searches(roles) /\ FreshRoles(roles, v) \subseteq FreshRoles(roles, s) \ {id}
          /\ f[<<v, e>>] \in Searches(roles) /\ FreshRoles(roles, f[<<v, e>>]) \subseteq FreshRoles(roles, v)
      BY Zenon DEF Advances
    <3>2. Unvisited(roles, v) < Unvisited(roles, s)
      BY Zenon, <2>1, <3>1, FewerUnvisited
    <3> QED BY Zenon, <3>1, <3>2 DEF SameBelow
  <2>3. Sends(f, P, I) /\ Alike(f, g, P, I) /\ list \in Seq(I)
    BY Zenon, <2>2 DEF Sends, Alike, Known
  <2>4. below \in P /\ below = Loop(g, start, list)
    <3> HIDE DEF list, P, I, start
    <3> QED BY <2>1, <2>3, LoopsAgree
  <2>5. /\ VisitRole(roles, f, s, id) = [below EXCEPT !.state[id] = IF below.cycle THEN 1 ELSE 2]
        /\ VisitRole(roles, g, s, id) = [below EXCEPT !.state[id] = IF below.cycle THEN 1 ELSE 2]
    <3> HIDE DEF P
    <3> QED BY <1>3, <2>4 DEF VisitRole
  <2> HIDE DEF below
  <2>6. below \in Searches(roles) /\ FreshRoles(roles, below) \subseteq FreshRoles(roles, s)
        /\ (IF below.cycle THEN 1 ELSE 2) \in 1..2
    BY <2>4
  <2> HIDE DEF P
  <2> QED BY <2>5, <2>6, Marking
<1> QED BY <1>0, <1>1, <1>2, <1>3

LEMMA VisitSolves ==
    ASSUME NEW roles, Known(roles)
    PROVE  /\ Advances(roles, Visit(roles))
           /\ \A s \in Searches(roles) : \A r \in RoleIDs(roles) :
                 Visit(roles)[<<s, r>>] = VisitRole(roles, Visit(roles), s, r)
<1> DEFINE I == RoleIDs(roles)
           V == Searches(roles)
           D == V \X I
           A == [d \in D |-> {t \in V : FreshRoles(roles, t) \subseteq FreshRoles(roles, d[1])}]
           G == Within(D, V, A)
           m == [d \in D |-> Unvisited(roles, d[1])]
           g0 == [d \in D |-> d[1]]
           Body(g) == [d \in D |-> VisitRole(roles, g, d[1], d[2])]
           F == [g \in G |-> Body(g)]
           c == CHOOSE g : g = Body(g)
<1>1. \A g : g \in G <=> g \in [D -> V] /\ Advances(roles, g)
  <2> SUFFICES ASSUME NEW g \in [D -> V]
               PROVE  (\A d \in D : g[d] \in A[d]) <=> Advances(roles, g)
    BY Zenon DEF Within
  <2>1. \A s \in V : \A r \in I : g[<<s, r>>] \in A[<<s, r>>] <=> g[<<s, r>>] \in V /\ FreshRoles(roles, g[<<s, r>>]) \subseteq FreshRoles(roles, s)
    BY Zenon
  <2> HIDE DEF A
  <2>2. (\A d \in D : g[d] \in A[d]) <=> \A s \in V : \A r \in I : g[<<s, r>>] \in A[<<s, r>>]
    OBVIOUS
  <2> QED BY Zenon, <2>1, <2>2 DEF Advances
<1>2. A \in [D -> SUBSET V]
  BY Zenon
<1>3. m \in [D -> Nat] /\ \A s \in V : \A r \in I : m[<<s, r>>] = Unvisited(roles, s)
  BY Zenon, UnvisitedIsNat
<1>4. g0 \in G
  BY Zenon, <1>1 DEF Advances
<1>5. \A g : Body(g) = [d \in D |-> Body(g)[d]] /\ \A s \in V : \A r \in I :
          Body(g)[<<s, r>>] = VisitRole(roles, g, s, r)
  BY Zenon
<1>6. Visit(roles) = c
  BY Zenon DEF Visit
<1> HIDE DEF A, G, Body
<1>7. \A g \in G : Body(g) \in G
  <2> SUFFICES ASSUME NEW g \in G PROVE Body(g) \in G
    BY Zenon
  <2>1. Advances(roles, g)
    BY Zenon, <1>1
  <2>2. ASSUME NEW s \in V, NEW r \in I
        PROVE  Body(g)[<<s, r>>] \in V /\ FreshRoles(roles, Body(g)[<<s, r>>]) \subseteq FreshRoles(roles, s)
    <3>1. SameBelow(roles, g, g, Unvisited(roles, s))
      BY Zenon DEF SameBelow
    <3> QED BY <1>5, <2>1, <3>1, VisitAgrees
  <2>3. \A d \in D : Body(g)[d] \in V
    BY <2>2
  <2>4. Body(g) \in [D -> V]
    BY Zenon, <1>5, <2>3
  <2> QED BY Zenon, <1>1, <2>2, <2>4 DEF Advances
<1>8. F \in [G -> G] /\ \A g \in G : F[g] = Body(g)
  BY Zenon, <1>7
<1>9. ASSUME NEW f \in G, NEW g, NEW n \in Nat, SameBelow(roles, f, g, n),
             NEW s \in V, NEW r \in I, Unvisited(roles, s) <= n
      PROVE  Body(f)[<<s, r>>] = Body(g)[<<s, r>>]
  <2>1. SameBelow(roles, f, g, Unvisited(roles, s))
    BY <1>9, UnvisitedIsNat DEF SameBelow
  <2> QED BY <1>1, <1>5, <2>1, VisitAgrees
<1>10. ASSUME NEW f \in G, NEW g \in G, NEW n \in Nat, \A d \in D : m[d] < n => f[d] = g[d]
       PROVE  \A d \in D : m[d] <= n => F[f][d] = F[g][d]
  <2> HIDE DEF m
  <2>1. SameBelow(roles, f, g, n)
    BY Zenon, <1>3, <1>10 DEF SameBelow
  <2>2. \A s \in V : \A r \in I : Unvisited(roles, s) <= n => Body(f)[<<s, r>>] = Body(g)[<<s, r>>]
    BY Zenon, <1>9, <2>1
  <2>3. \A s \in V : \A r \in I : m[<<s, r>>] <= n => F[f][<<s, r>>] = F[g][<<s, r>>]
    BY Zenon, <1>3, <1>8, <2>2
  <2> HIDE DEF V, F
  <2> QED BY <2>3
<1>11. PICK f \in G : F[f] = f
  <2> HIDE DEF D, V, m, g0, F
  <2>1. Contracts(F, G, D, m)
    BY Zenon, <1>10 DEF Contracts
  <2> QED BY <1>2, <1>3, <1>4, <1>8, <2>1, FixedPoint DEF G
<1>12. f = Body(f)
  BY Zenon, <1>8, <1>11
<1>13. c = Body(c)
  BY Zenon, <1>12
<1> HIDE DEF c, F
(* Whatever solves the equation agrees with f.                             *)
<1> DEFINE S == {n \in Nat : SameBelow(roles, f, c, n)}
<1>14. 0 \in S
  BY UnvisitedIsNat DEF SameBelow
<1>15. ASSUME NEW n \in Nat, n \in S PROVE n + 1 \in S
  <2>1. \A s \in V : \A r \in I : Unvisited(roles, s) <= n => f[<<s, r>>] = c[<<s, r>>]
    BY <1>9, <1>12, <1>13, <1>15
  <2>2. \A s : Unvisited(roles, s) < n + 1 => Unvisited(roles, s) <= n
    BY UnvisitedIsNat
  <2> QED BY <2>1, <2>2 DEF SameBelow
<1>16. Nat \subseteq S
  <2> HIDE DEF S
  <2> QED BY Zenon, <1>14, <1>15, Induct
<1>17. \A s \in V : \A r \in I : c[<<s, r>>] = f[<<s, r>>]
  <2> SUFFICES ASSUME NEW s \in V, NEW r \in I PROVE c[<<s, r>>] = f[<<s, r>>]
    BY Zenon
  <2>1. Unvisited(roles, s) + 1 \in Nat /\ Unvisited(roles, s) < Unvisited(roles, s) + 1
    BY UnvisitedIsNat
  <2>2. SameBelow(roles, f, c, Unvisited(roles, s) + 1)
    BY Zenon, <1>16, <2>1
  <2> QED BY Zenon, <2>1, <2>2 DEF SameBelow
<1>18. Advances(roles, c)
  BY Zenon, <1>1, <1>17 DEF Advances
<1> QED BY Zenon, <1>5, <1>6, <1>13, <1>18


-----------------------------------------------------------------------------
(* Ranks                                                                   *)

Ranks(roles, rank) ==
    /\ rank \in [RoleIDs(roles) -> Nat]
    /\ \A id \in RoleIDs(roles) : \A p \in Range(Role(roles, id).parents) : rank[p] < rank[id]

(* With ranks, a search that opened only roles above id finds no cycle at  *)
(* id and closes what it opens.                                            *)
Above(roles, rank, s, id) == ~s.cycle /\ \A x \in OpenRoles(roles, s) : rank[id] < rank[x]

Returns(roles, s, t) == ~t.cycle /\ OpenRoles(roles, t) = OpenRoles(roles, s)

ReturnsBelow(roles, rank, n) ==
    \A s \in Searches(roles) : \A id \in RoleIDs(roles) :
        Unvisited(roles, s) < n /\ Above(roles, rank, s, id) => Returns(roles, s, Visit(roles)[<<s, id>>])

LEMMA ReturnsStep ==
    ASSUME NEW roles, Known(roles), NEW rank, Ranks(roles, rank),
           NEW n \in Nat, ReturnsBelow(roles, rank, n),
           NEW s \in Searches(roles), NEW id \in RoleIDs(roles),
           Unvisited(roles, s) <= n, Above(roles, rank, s, id)
    PROVE  Returns(roles, s, Visit(roles)[<<s, id>>])
<1> DEFINE I == RoleIDs(roles)
           v == Visit(roles)
           list == Role(roles, id).parents
           k == Len(list)
           start == [s EXCEPT !.state[id] = 1]
           P == {t \in Searches(roles) : FreshRoles(roles, t) \subseteq FreshRoles(roles, s) \ {id}}
           below == Loop(v, start, list)
<1>1. v[<<s, id>>] = VisitRole(roles, v, s, id) /\ Advances(roles, v)
  BY Zenon, VisitSolves
<1>2. ~s.cycle /\ s.state[id] \in 0..2 /\ s.state[id] # 1
  BY DEF Above, OpenRoles, Searches, Ranks
<1>3. list \in Seq(I) /\ k \in Nat /\ (\A i \in 1..k : list[i] \in I)
      /\ \A i \in 1..k : rank[list[i]] < rank[id]
  BY DEF Known, Ranks, Range
<1>4. CASE s.state[id] = 2
  BY Zenon, <1>1, <1>2, <1>4 DEF VisitRole, Returns
<1>5. CASE s.state[id] = 0
  <2>1. /\ start \in Searches(roles) /\ FreshRoles(roles, start) = FreshRoles(roles, s) \ {id}
        /\ ~start.cycle /\ start.state[id] = 1
        /\ \A x \in I : x # id => start.state[x] = s.state[x]
    BY <1>2, Marking
  <2>2. start \in P /\ id \in FreshRoles(roles, s)
    BY Zenon, <1>5, <2>1 DEF FreshRoles
  <2>3. OpenRoles(roles, start) = OpenRoles(roles, s) \cup {id}
    BY Zenon, <2>1 DEF OpenRoles
  <2>4. Sends(v, P, I)
    BY Zenon, <1>1 DEF Sends, Advances
  <2>5. v[<<s, id>>] = [below EXCEPT !.state[id] = IF below.cycle THEN 1 ELSE 2]
    BY <1>1, <1>2, <1>5 DEF VisitRole
  <2> HIDE DEF v, list, P, k, start, below
  <2>6. PICK after : Ran(after, P, v, start, list)
    BY Zenon, <1>3, <2>2, <2>4, LoopRuns
  <2>7. /\ after \in [0..k -> P] /\ after[0] = start /\ below = after[k]
        /\ \A i \in 1..k : after[i] = v[<<after[i-1], list[i]>>]
    BY Zenon, <2>6 DEF Ran, k, below
  <2> DEFINE Upto(i) == Returns(roles, start, after[i])
             S == {i \in Nat : i \in 0..k => Upto(i)}
  <2>8. 0 \in S
    BY Zenon, <2>1, <2>7 DEF Returns
  <2>9. ASSUME NEW i \in Nat, i \in S PROVE i + 1 \in S
    <3> SUFFICES ASSUME i + 1 \in 0..k PROVE Upto(i + 1)
      OBVIOUS
    <3>1. i \in 0..k /\ i + 1 \in 1..k /\ (i + 1) - 1 = i
      BY <1>3
    <3> DEFINE R == after[i]
               p == list[i+1]
               Q == after[i+1]
    <3>2. R \in P /\ p \in I /\ Q = v[<<R, p>>] /\ rank[p] < rank[id] /\ Returns(roles, start, R)
      BY Zenon, <1>3, <2>7, <2>9, <3>1
    <3> HIDE DEF R, p, Q
    <3>3. R \in Searches(roles) /\ Unvisited(roles, R) < n
      <4>1. R \in Searches(roles) /\ FreshRoles(roles, R) \subseteq FreshRoles(roles, s) \ {id}
        BY Zenon, <3>2 DEF P
      <4>2. Unvisited(roles, R) < Unvisited(roles, s)
        BY Zenon, <2>2, <4>1, FewerUnvisited
      <4> QED BY <4>1, <4>2, UnvisitedIsNat
    <3>4. Above(roles, rank, R, p)
      <4>1. ~R.cycle /\ OpenRoles(roles, R) = OpenRoles(roles, s) \cup {id}
        BY Zenon, <2>3, <3>2 DEF Returns
      <4>2. \A x \in OpenRoles(roles, s) : x \in I /\ rank[id] < rank[x]
        BY Zenon DEF Above, OpenRoles
      <4>3. \A x \in I : rank[x] \in Nat
        BY Zenon DEF Ranks
      <4> QED BY <3>2, <4>1, <4>2, <4>3 DEF Above
    <3>5. Returns(roles, R, Q)
      BY Zenon, <3>2, <3>3, <3>4 DEF ReturnsBelow, v
    <3> QED BY Zenon, <3>2, <3>5 DEF Returns, Q
  <2>10. Nat \subseteq S
    <3> HIDE DEF S
    <3> QED BY Zenon, <2>8, <2>9, Induct
  <2>11. ~below.cycle /\ OpenRoles(roles, below) = OpenRoles(roles, s) \cup {id} /\ below \in Searches(roles)
    <3>1. k \in Nat /\ k \in 0..k
      BY <1>3
    <3>2. Returns(roles, start, after[k]) /\ after[k] \in P
      BY Zenon, <2>7, <2>10, <3>1
    <3> HIDE DEF S
    <3> QED BY Zenon, <2>3, <2>7, <3>2 DEF Returns, P
  <2> DEFINE t == [below EXCEPT !.state[id] = 2]
  <2>12. /\ ~t.cycle /\ t.state[id] = 2
         /\ \A x \in I : x # id => t.state[x] = below.state[x]
    <3>1. 2 \in 1..2 /\ t = [below EXCEPT !.state[id] = 2]
      OBVIOUS
    <3> HIDE DEF S, t
    <3> QED BY <2>11, <3>1, Marking
  <2>13. v[<<s, id>>] = t
    BY Zenon, <2>5, <2>11
  <2>14. id \notin OpenRoles(roles, s)
    BY Zenon, <1>2 DEF OpenRoles
  <2> HIDE DEF t
  <2>15. OpenRoles(roles, t) = OpenRoles(roles, s)
    BY <2>11, <2>12, <2>14 DEF OpenRoles
  <2> QED BY Zenon, <2>12, <2>13, <2>15 DEF Returns, v
<1> QED BY <1>2, <1>4, <1>5

LEMMA VisitReturns ==
    ASSUME NEW roles, Known(roles), NEW rank, Ranks(roles, rank),
           NEW s \in Searches(roles), NEW id \in RoleIDs(roles), Above(roles, rank, s, id)
    PROVE  Returns(roles, s, Visit(roles)[<<s, id>>])
<1> DEFINE S == {n \in Nat : ReturnsBelow(roles, rank, n)}
<1>1. 0 \in S
  BY UnvisitedIsNat DEF ReturnsBelow
<1>2. ASSUME NEW n \in Nat, n \in S PROVE n + 1 \in S
  <2>1. \A t : Unvisited(roles, t) < n + 1 => Unvisited(roles, t) <= n
    BY UnvisitedIsNat
  <2> QED BY <1>2, <2>1, ReturnsStep DEF ReturnsBelow
<1>3. Nat \subseteq S
  <2> HIDE DEF S
  <2> QED BY Zenon, <1>1, <1>2, Induct
<1>4. Unvisited(roles, s) + 1 \in Nat /\ Unvisited(roles, s) < Unvisited(roles, s) + 1
  BY UnvisitedIsNat
<1>5. ReturnsBelow(roles, rank, Unvisited(roles, s) + 1)
  BY Zenon, <1>3, <1>4
<1> QED BY Zenon, <1>4, <1>5 DEF ReturnsBelow

(* What HasCycle starts with.                                              *)
NewSearch(roles) == [state |-> [id \in RoleIDs(roles) |-> 0], cycle |-> FALSE]

LEMMA NewSearchIsFresh ==
    ASSUME NEW roles
    PROVE  /\ NewSearch(roles) \in Searches(roles) /\ ~NewSearch(roles).cycle
           /\ OpenRoles(roles, NewSearch(roles)) = {} /\ Done(roles, NewSearch(roles)) = {}
<1> DEFINE s == NewSearch(roles)
<1>1. s \in Searches(roles) /\ ~s.cycle
  BY DEF NewSearch, Searches
<1>2. \A x \in RoleIDs(roles) : s.state[x] = 0
  BY Zenon DEF NewSearch
<1> QED BY <1>1, <1>2 DEF OpenRoles, Done

LEMMA RolesAreListed ==
    ASSUME NEW roles, NEW E, roles \in Seq(E)
    PROVE  LET ids == [i \in DOMAIN roles |-> roles[i].id] IN
           /\ ids \in Seq(RoleIDs(roles)) /\ Len(ids) = Len(roles)
           /\ RoleIDs(roles) = {ids[i] : i \in 1..Len(roles)}
<1> DEFINE ids == [i \in DOMAIN roles |-> roles[i].id]
<1>1. DOMAIN roles = 1..Len(roles) /\ Len(roles) \in Nat
  OBVIOUS
<1>2. RoleIDs(roles) = {ids[i] : i \in 1..Len(roles)}
  BY Zenon, <1>1 DEF RoleIDs, Range
<1>3. ids \in [1..Len(roles) -> RoleIDs(roles)]
  BY Zenon, <1>1, <1>2
<1>4. ids \in Seq(RoleIDs(roles)) /\ Len(ids) = Len(roles)
  <2> HIDE DEF ids
  <2> QED BY <1>1, <1>3
<1> QED BY Zenon, <1>2, <1>4

(* Roles with ranks have no cycle.                                         *)
LEMMA RanksExcludeCycles ==
    ASSUME NEW roles, NEW E, roles \in Seq(E), Known(roles), NEW rank, Ranks(roles, rank)
    PROVE  ~HasCycle(roles)
<1> DEFINE I == RoleIDs(roles)
           v == Visit(roles)
           ids == [i \in DOMAIN roles |-> roles[i].id]
           P == {t \in Searches(roles) : ~t.cycle /\ OpenRoles(roles, t) = {}}
<1>1. NewSearch(roles) \in P
  BY Zenon, NewSearchIsFresh
<1>2. Sends(v, P, I)
  <2> SUFFICES ASSUME NEW s \in P, NEW id \in I PROVE v[<<s, id>>] \in P
    BY Zenon DEF Sends
  <2>1. Above(roles, rank, s, id)
    BY Zenon DEF Above
  <2>2. v[<<s, id>>] \in Searches(roles)
    BY Zenon, VisitSolves DEF Advances
  <2>3. Returns(roles, s, v[<<s, id>>])
    BY Zenon, <2>1, VisitReturns
  <2> QED BY Zenon, <2>2, <2>3 DEF Returns
<1>3. ids \in Seq(I)
  BY Zenon, RolesAreListed
<1>4. Alike(v, v, P, I)
  BY Zenon DEF Alike
<1>5. Loop(v, NewSearch(roles), ids) \in P
  <2> HIDE DEF P, I, v, ids
  <2> QED BY Zenon, <1>1, <1>2, <1>3, <1>4, LoopsAgree
<1> QED BY Zenon, <1>5 DEF HasCycle, NewSearch

(* Ranks for the roles done, whose parents are done as well.               *)
DoneRanks(roles, s, rank) ==
    /\ rank \in [RoleIDs(roles) -> Nat]
    /\ \A id \in Done(roles, s) : \A p \in Range(Role(roles, id).parents) :
           p \in Done(roles, s) /\ rank[p] < rank[id]

Ranked(roles, s) == \E rank : DoneRanks(roles, s, rank)

(* A call that finds no cycle has done id and keeps what was done ranked.  *)
Finishes(roles, s, id, t) ==
    Ranked(roles, s) /\ ~t.cycle =>
        Ranked(roles, t) /\ Done(roles, s) \subseteq Done(roles, t) /\ id \in Done(roles, t)

FinishesBelow(roles, n) ==
    \A s \in Searches(roles) : \A id \in RoleIDs(roles) :
        Unvisited(roles, s) < n => Finishes(roles, s, id, Visit(roles)[<<s, id>>])

(* The values of a function on a finite set.                               *)
LEMMA FiniteImage ==
    ASSUME NEW S, IsFiniteSet(S), NEW f
    PROVE  LET T == {f[x] : x \in S} IN IsFiniteSet(T) /\ Cardinality(T) <= Cardinality(S)
<1> DEFINE T == {f[x] : x \in S}
           g == [x \in S |-> f[x]]
<1>1. g \in [S -> T] /\ \A t \in T : \E x \in S : g[x] = t
  BY Zenon
<1> HIDE DEF g, T
<1>2. g \in Surjection(S, T)
  BY Zenon, <1>1 DEF Surjection
<1>3. IsFiniteSet(T) /\ Cardinality(T) <= Cardinality(S)
  BY Zenon, <1>2, FS_Surjection
<1> QED BY Zenon, <1>3 DEF T

(* Finitely many natural numbers have a bound.                             *)
LEMMA FiniteNats ==
    ASSUME NEW T \in SUBSET Nat, IsFiniteSet(T)
    PROVE  \E b \in Nat : \A x \in T : x < b
<1> DEFINE Bounded(U) == \E b \in Nat : \A x \in U : x < b
           S == {n \in Nat : \A U \in SUBSET Nat : IsFiniteSet(U) /\ Cardinality(U) = n => Bounded(U)}
<1>1. 0 \in S
  <2> SUFFICES ASSUME NEW U \in SUBSET Nat, IsFiniteSet(U), Cardinality(U) = 0 PROVE Bounded(U)
    BY Zenon
  <2>1. U = {} /\ 0 \in Nat
    BY Zenon, FS_EmptySet
  <2> QED BY Zenon, <2>1
<1>2. ASSUME NEW n \in Nat, n \in S PROVE n + 1 \in S
  <2> SUFFICES ASSUME NEW U \in SUBSET Nat, IsFiniteSet(U), Cardinality(U) = n + 1 PROVE Bounded(U)
    OBVIOUS
  <2>1. PICK u \in U : TRUE
    <3>1. Cardinality({}) = 0 /\ n + 1 # 0
      BY FS_EmptySet
    <3> HIDE DEF S
    <3> QED BY Zenon, <3>1
  <2>2. IsFiniteSet(U \ {u}) /\ Cardinality(U \ {u}) = n
    <3>1. Cardinality(U \ {u}) = Cardinality(U) - 1
      BY Zenon, <2>1, FS_RemoveElement
    <3> HIDE DEF S
    <3> QED BY <3>1, FS_RemoveElement
  <2>3. PICK b \in Nat : \A x \in U \ {u} : x < b
    BY Zenon, <1>2, <2>2
  <2>4. u \in Nat
    BY Zenon
  <2> DEFINE c == IF u < b THEN b ELSE u + 1
  <2>5. c \in Nat /\ \A x \in U : x < c
    BY <2>3, <2>4
  <2> QED BY Zenon, <2>5
<1>3. Nat \subseteq S
  <2> HIDE DEF S
  <2> QED BY Zenon, <1>1, <1>2, Induct
<1>4. Cardinality(T) \in Nat
  BY Zenon, FS_CardinalityType
<1> QED BY Zenon, <1>3, <1>4

LEMMA MaxOfNats ==
    ASSUME NEW T \in SUBSET Nat, IsFiniteSet(T), T # {}
    PROVE  Max(T) \in T /\ \A x \in T : x <= Max(T)
<1>1. PICK b \in Nat : \A x \in T : x < b
  BY Zenon, FiniteNats
<1> DEFINE D == {b - x : x \in T}
<1>2. D \subseteq Nat /\ D # {}
  <2>1. PICK y \in T : TRUE
    BY Zenon
  <2>2. b - y \in D
    BY Zenon
  <2>3. \A x \in T : x \in Nat /\ x < b
    BY Zenon, <1>1
  <2>4. \A x \in T : b - x \in Nat
    BY <2>3
  <2> QED BY Zenon, <2>2, <2>4
<1>3. PICK m \in D : \A y \in D : m <= y
  <2> HIDE DEF D
  <2> QED BY Zenon, <1>2, LeastNat
<1>4. PICK t \in T : m = b - t
  BY Zenon, <1>3
<1>5. ASSUME NEW x \in T PROVE t >= x
  <2>1. b - x \in D /\ x \in Nat /\ t \in Nat
    BY Zenon
  <2>2. b - t <= b - x
    BY Zenon, <1>3, <1>4, <2>1
  <2> QED BY <2>1, <2>2
<1>6. \E x \in T : \A y \in T : x >= y
  BY Zenon, <1>5
<1>7. Max(T) \in T /\ \A y \in T : Max(T) >= y
  BY Zenon, <1>6 DEF Max
<1> QED BY Zenon, <1>7

(* A function to Nat on a finite set has a bound.                          *)
LEMMA RankBound ==
    ASSUME NEW I, IsFiniteSet(I), NEW rank \in [I -> Nat]
    PROVE  \E b \in Nat : \A x \in I : rank[x] < b
<1> DEFINE T == {rank[x] : x \in I}
<1>1. IsFiniteSet(T)
  BY Zenon, FiniteImage
<1>2. T \in SUBSET Nat
  BY Zenon
<1>3. PICK b \in Nat : \A y \in T : y < b
  <2> HIDE DEF T
  <2> QED BY Zenon, <1>1, <1>2, FiniteNats
<1> QED BY Zenon, <1>3

(* One more role that is done, above all that were.                        *)
LEMMA OneMoreDone ==
    ASSUME NEW roles, Known(roles), NEW s \in Searches(roles), NEW id \in RoleIDs(roles),
           Ranked(roles, s), Range(Role(roles, id).parents) \subseteq Done(roles, s),
           NEW t, t = [s EXCEPT !.state[id] = 2]
    PROVE  Ranked(roles, t) /\ Done(roles, t) = Done(roles, s) \cup {id}
<1> DEFINE I == RoleIDs(roles)
           parents(x) == Range(Role(roles, x).parents)
<1>1. PICK rank : DoneRanks(roles, s, rank)
  BY Zenon DEF Ranked
<1>2. rank \in [I -> Nat]
  BY Zenon, <1>1 DEF DoneRanks
<1>3. t.state[id] = 2 /\ \A x \in I : x # id => t.state[x] = s.state[x]
  <2>1. 2 \in 1..2
    OBVIOUS
  <2> QED BY <2>1, Marking
<1>4. Done(roles, t) = Done(roles, s) \cup {id}
  BY Zenon, <1>3 DEF Done
<1>5. CASE id \in Done(roles, s)
  BY Zenon, <1>1, <1>4, <1>5 DEF Ranked, DoneRanks
<1>6. CASE id \notin Done(roles, s)
  <2>1. PICK b \in Nat : \A x \in I : rank[x] < b
    BY Zenon, <1>2, RankBound DEF Known
  <2> DEFINE r == [rank EXCEPT ![id] = b]
  <2>2. r \in [I -> Nat] /\ r[id] = b /\ \A x \in I : x # id => r[x] = rank[x]
    BY Zenon, <1>2, <2>1
  <2>3. Done(roles, s) \subseteq I
    BY Zenon DEF Done
  <2> HIDE DEF r
  <2>4. ASSUME NEW x \in Done(roles, t), NEW p \in parents(x)
        PROVE  p \in Done(roles, t) /\ r[p] < r[x]
    <3>1. CASE x = id
      BY Zenon, <1>4, <1>6, <2>1, <2>2, <2>3, <2>4, <3>1
    <3>2. CASE x # id
      <4>1. x \in Done(roles, s)
        BY Zenon, <1>4, <3>2
      <4>2. p \in Done(roles, s) /\ rank[p] < rank[x]
        BY Zenon, <1>1, <2>4, <4>1 DEF DoneRanks
      <4> QED BY Zenon, <1>4, <1>6, <2>2, <2>3, <4>1, <4>2
    <3> QED BY Zenon, <3>1, <3>2
  <2>5. DoneRanks(roles, t, r)
    BY Zenon, <2>2, <2>4 DEF DoneRanks
  <2> QED BY Zenon, <1>4, <2>5 DEF Ranked
<1> QED BY Zenon, <1>5, <1>6

LEMMA FinishesStep ==
    ASSUME NEW roles, Known(roles), NEW n \in Nat, FinishesBelow(roles, n),
           NEW s \in Searches(roles), NEW id \in RoleIDs(roles), Unvisited(roles, s) <= n
    PROVE  Finishes(roles, s, id, Visit(roles)[<<s, id>>])
<1> DEFINE I == RoleIDs(roles)
           v == Visit(roles)
           list == Role(roles, id).parents
           k == Len(list)
           start == [s EXCEPT !.state[id] = 1]
           P == {t \in Searches(roles) : FreshRoles(roles, t) \subseteq FreshRoles(roles, s) \ {id}}
           below == Loop(v, start, list)
<1>1. Advances(roles, v) /\ \A t \in Searches(roles) : \A p \in I : v[<<t, p>>] = VisitRole(roles, v, t, p)
  BY Zenon, VisitSolves
<1> HIDE DEF v
<1>2. \A t \in Searches(roles) : \A p \in I : t.cycle => v[<<t, p>>].cycle
  BY Zenon, <1>1 DEF VisitRole
<1>3. v[<<s, id>>] = VisitRole(roles, v, s, id) /\ s.state[id] \in 0..2
  BY Zenon, <1>1 DEF Searches
<1> SUFFICES ASSUME Ranked(roles, s), ~v[<<s, id>>].cycle
             PROVE  /\ Ranked(roles, v[<<s, id>>]) /\ Done(roles, s) \subseteq Done(roles, v[<<s, id>>])
                    /\ id \in Done(roles, v[<<s, id>>])
  BY Zenon DEF Finishes, v
<1>4. ~s.cycle
  BY Zenon, <1>2
<1>5. list \in Seq(I) /\ k \in Nat /\ (\A i \in 1..k : list[i] \in I)
      /\ Range(list) = {list[i] : i \in 1..k}
  BY DEF Known, Range
<1>6. CASE s.state[id] = 2
  BY Zenon, <1>3, <1>6 DEF VisitRole, Done
<1>7. s.state[id] # 1
  <2> SUFFICES ASSUME s.state[id] = 1 PROVE FALSE
    BY Zenon
  <2>1. v[<<s, id>>] = [s EXCEPT !.cycle = TRUE]
    BY <1>3, <1>4 DEF VisitRole
  <2> QED BY Zenon, <2>1 DEF Searches
<1>8. CASE s.state[id] = 0
  <2>1. /\ start \in Searches(roles) /\ FreshRoles(roles, start) = FreshRoles(roles, s) \ {id}
        /\ start.state[id] = 1
        /\ \A x \in I : x # id => start.state[x] = s.state[x]
    BY Marking
  <2>2. start \in P /\ id \in FreshRoles(roles, s)
    BY Zenon, <1>8, <2>1 DEF FreshRoles
  <2>3. Done(roles, start) = Done(roles, s)
    BY <1>8, <2>1 DEF Done
  <2>4. Ranked(roles, start)
    BY Zenon, <2>3 DEF Ranked, DoneRanks
  <2>5. Sends(v, P, I)
    BY Zenon, <1>1 DEF Sends, Advances
  <2>6. v[<<s, id>>] = [below EXCEPT !.state[id] = IF below.cycle THEN 1 ELSE 2]
    BY <1>3, <1>4, <1>8 DEF VisitRole
  <2> HIDE DEF list, P, k, start, below
  <2>7. PICK after : Ran(after, P, v, start, list)
    BY Zenon, <1>5, <2>2, <2>5, LoopRuns
  <2>8. /\ after \in [0..k -> P] /\ after[0] = start /\ below = after[k]
        /\ \A i \in 1..k : after[i] = v[<<after[i-1], list[i]>>]
    BY Zenon, <2>7 DEF Ran, k, below
  <2> DEFINE Upto(i) == ~after[i].cycle =>
                 /\ Ranked(roles, after[i]) /\ Done(roles, s) \subseteq Done(roles, after[i])
                 /\ \A j \in 1..i : list[j] \in Done(roles, after[i])
             S == {i \in Nat : i \in 0..k => Upto(i)}
  <2>9. 0 \in S
    BY <2>3, <2>4, <2>8
  <2>10. ASSUME NEW i \in Nat, i \in S PROVE i + 1 \in S
    <3> SUFFICES ASSUME i + 1 \in 0..k PROVE Upto(i + 1)
      OBVIOUS
    <3>1. i \in 0..k /\ i + 1 \in 1..k /\ (i + 1) - 1 = i
      BY <1>5
    <3> DEFINE R == after[i]
               p == list[i+1]
               Q == after[i+1]
    <3>2. R \in P /\ p \in I /\ Q = v[<<R, p>>]
      BY Zenon, <1>5, <2>8, <3>1
    <3>3. Upto(i)
      BY Zenon, <2>10, <3>1
    <3>4. R \in Searches(roles) /\ Unvisited(roles, R) < n
      <4> HIDE DEF R, p, Q, S, Upto
      <4>1. R \in Searches(roles) /\ FreshRoles(roles, R) \subseteq FreshRoles(roles, s) \ {id}
        BY Zenon, <3>2 DEF P
      <4>2. Unvisited(roles, R) < Unvisited(roles, s)
        BY Zenon, <2>2, <4>1, FewerUnvisited
      <4> QED BY <4>1, <4>2, UnvisitedIsNat
    <3>5. Finishes(roles, R, p, Q) /\ (R.cycle => Q.cycle)
      <4> HIDE DEF R, p, Q, S, Upto
      <4> QED BY Zenon, <1>2, <3>2, <3>4 DEF FinishesBelow, v
    <3>6. \A j \in 1..(i + 1) : j \in 1..i \/ j = i + 1
      OBVIOUS
    <3> QED BY Zenon, <3>3, <3>5, <3>6 DEF Finishes
  <2>11. Nat \subseteq S
    <3> HIDE DEF S
    <3> QED BY Zenon, <2>9, <2>10, Induct
  <2>12. Upto(k) /\ below \in Searches(roles)
    <3>1. k \in Nat /\ k \in 0..k
      BY <1>5
    <3>2. Upto(k) /\ after[k] \in P
      BY Zenon, <2>8, <2>11, <3>1
    <3> QED BY Zenon, <2>8, <3>2 DEF P
  <2> HIDE DEF S
  <2>13. ~below.cycle
    <3>1. below.cycle \in BOOLEAN
      BY Zenon, <2>12 DEF Searches
    <3>2. ASSUME below.cycle PROVE FALSE
      <4>1. v[<<s, id>>] = [below EXCEPT !.state[id] = 1] /\ 1 \in 1..2
        BY <2>6, <3>2
      <4>2. v[<<s, id>>].cycle = below.cycle
        BY <2>12, <4>1, Marking
      <4> QED BY Zenon, <3>2, <4>2
    <3> QED BY Zenon, <3>1, <3>2
  <2>14. v[<<s, id>>] = [below EXCEPT !.state[id] = 2]
    BY Zenon, <2>6, <2>13
  <2>15. Ranked(roles, below) /\ Done(roles, s) \subseteq Done(roles, below)
         /\ Range(list) \subseteq Done(roles, below)
    BY Zenon, <1>5, <2>8, <2>12, <2>13
  <2> QED BY <2>12, <2>14, <2>15, OneMoreDone DEF list
<1> QED BY <1>3, <1>6, <1>7, <1>8

LEMMA VisitFinishes ==
    ASSUME NEW roles, Known(roles), NEW s \in Searches(roles), NEW id \in RoleIDs(roles)
    PROVE  Finishes(roles, s, id, Visit(roles)[<<s, id>>])
<1> DEFINE S == {n \in Nat : FinishesBelow(roles, n)}
<1>1. 0 \in S
  BY UnvisitedIsNat DEF FinishesBelow
<1>2. ASSUME NEW n \in Nat, n \in S PROVE n + 1 \in S
  <2>1. \A t : Unvisited(roles, t) < n + 1 => Unvisited(roles, t) <= n
    BY UnvisitedIsNat
  <2> QED BY <1>2, <2>1, FinishesStep DEF FinishesBelow
<1>3. Nat \subseteq S
  <2> HIDE DEF S
  <2> QED BY Zenon, <1>1, <1>2, Induct
<1>4. Unvisited(roles, s) + 1 \in Nat /\ Unvisited(roles, s) < Unvisited(roles, s) + 1
  BY UnvisitedIsNat
<1>5. FinishesBelow(roles, Unvisited(roles, s) + 1)
  BY Zenon, <1>3, <1>4
<1> QED BY Zenon, <1>4, <1>5 DEF FinishesBelow

(* A search without a cycle has ranked every role.                         *)
LEMMA NoCycleRanks ==
    ASSUME NEW roles, NEW E, roles \in Seq(E), Known(roles), ~HasCycle(roles)
    PROVE  \E rank : Ranks(roles, rank)
<1> DEFINE I == RoleIDs(roles)
           v == Visit(roles)
           ids == [i \in DOMAIN roles |-> roles[i].id]
           V == Searches(roles)
           k == Len(ids)
<1>1. NewSearch(roles) \in V /\ Done(roles, NewSearch(roles)) = {}
  BY Zenon, NewSearchIsFresh
<1>2. Ranked(roles, NewSearch(roles))
  <2>1. DoneRanks(roles, NewSearch(roles), [x \in I |-> 0])
    BY Zenon, <1>1 DEF DoneRanks
  <2> QED BY Zenon, <2>1 DEF Ranked
<1>3. Advances(roles, v) /\ \A s \in V : \A id \in I :
          v[<<s, id>>] = VisitRole(roles, v, s, id) /\ Finishes(roles, s, id, v[<<s, id>>])
  BY Zenon, VisitSolves, VisitFinishes
<1>4. ids \in Seq(I) /\ k = Len(roles) /\ I = {ids[i] : i \in 1..Len(roles)}
  BY Zenon, RolesAreListed
<1>5. k \in Nat /\ \A i \in 1..k : ids[i] \in I
  BY <1>4
<1>6. HasCycle(roles) = Loop(v, NewSearch(roles), ids).cycle
  BY Zenon DEF HasCycle, NewSearch
<1>7. Sends(v, V, I)
  BY Zenon, <1>3 DEF Sends, Advances
<1> HIDE DEF v, ids, k, V
<1>8. PICK after : Ran(after, V, v, NewSearch(roles), ids)
  BY Zenon, <1>1, <1>4, <1>7, LoopRuns
<1>9. /\ after \in [0..k -> V] /\ after[0] = NewSearch(roles) /\ ~after[k].cycle
      /\ \A i \in 1..k : after[i] = v[<<after[i-1], ids[i]>>]
  BY Zenon, <1>6, <1>8 DEF Ran, k
<1> DEFINE Upto(i) == ~after[i].cycle =>
               /\ Ranked(roles, after[i])
               /\ \A j \in 1..i : ids[j] \in Done(roles, after[i])
           S == {i \in Nat : i \in 0..k => Upto(i)}
<1>10. 0 \in S
  BY <1>2, <1>9
<1>11. ASSUME NEW i \in Nat, i \in S PROVE i + 1 \in S
  <2> SUFFICES ASSUME i + 1 \in 0..k PROVE Upto(i + 1)
    OBVIOUS
  <2>1. i \in 0..k /\ i + 1 \in 1..k /\ (i + 1) - 1 = i
    BY <1>5
  <2> DEFINE R == after[i]
             p == ids[i+1]
             Q == after[i+1]
  <2>2. R \in V /\ p \in I /\ Q = v[<<R, p>>] /\ Upto(i)
    BY Zenon, <1>5, <1>9, <1>11, <2>1
  <2>3. Finishes(roles, R, p, Q) /\ Q = VisitRole(roles, v, R, p)
    BY Zenon, <1>3, <2>2
  <2>4. R.cycle => Q.cycle
    BY Zenon, <2>3 DEF VisitRole
  <2>5. \A j \in 1..(i + 1) : j \in 1..i \/ j = i + 1
    OBVIOUS
  <2> QED BY Zenon, <2>2, <2>3, <2>4, <2>5 DEF Finishes
<1>12. Nat \subseteq S
  <2> HIDE DEF S
  <2> QED BY Zenon, <1>10, <1>11, Induct
<1>13. Upto(k)
  BY <1>5, <1>12
<1>14. Ranked(roles, after[k]) /\ I \subseteq Done(roles, after[k])
  <2> HIDE DEF S, I
  <2> QED BY Zenon, <1>4, <1>9, <1>13
<1>15. PICK rank : DoneRanks(roles, after[k], rank)
  BY Zenon, <1>14 DEF Ranked
<1>16. Ranks(roles, rank)
  BY Zenon, <1>14, <1>15 DEF DoneRanks, Ranks
<1> QED BY Zenon, <1>16

-----------------------------------------------------------------------------
(* Depths                                                                  *)

DepthOf(roles, depth, id) == Max({0} \cup {1 + depth[p] : p \in Range(Role(roles, id).parents)})

LEMMA DepthOfParents ==
    ASSUME NEW roles, Known(roles), NEW id \in RoleIDs(roles), NEW depth,
           \A p \in Range(Role(roles, id).parents) : depth[p] \in Nat
    PROVE  /\ DepthOf(roles, depth, id) \in Nat
           /\ \A p \in Range(Role(roles, id).parents) : depth[p] < DepthOf(roles, depth, id)
           /\ \/ DepthOf(roles, depth, id) = 0
              \/ \E p \in Range(Role(roles, id).parents) : DepthOf(roles, depth, id) = 1 + depth[p]
<1> DEFINE parents == Range(Role(roles, id).parents)
           above == {1 + depth[p] : p \in parents}
           T == {0} \cup above
<1>1. IsFiniteSet(parents)
  <2> DEFINE list == Role(roles, id).parents
  <2>1. list \in Seq(RoleIDs(roles))
    BY Zenon DEF Known
  <2>2. parents = {list[i] : i \in 1..Len(list)} /\ Len(list) \in Nat
    BY <2>1 DEF Range
  <2>3. IsFiniteSet(1..Len(list))
    BY <2>2, FS_Interval
  <2> HIDE DEF list, parents
  <2> QED BY Zenon, <2>2, <2>3, FiniteImage
<1> HIDE DEF parents
<1>2. IsFiniteSet(above)
  <2> DEFINE f == [p \in parents |-> 1 + depth[p]]
  <2>1. above = {f[p] : p \in parents}
    BY Zenon
  <2> HIDE DEF f, above
  <2> QED BY Zenon, <1>1, <2>1, FiniteImage
<1>3. IsFiniteSet(T)
  <2> HIDE DEF above
  <2> QED BY Zenon, <1>2, FS_Singleton, FS_Union
<1>4. T \in SUBSET Nat /\ T # {}
  BY DEF parents
<1>5. Max(T) \in T /\ \A x \in T : x <= Max(T)
  <2> HIDE DEF T
  <2> QED BY Zenon, <1>3, <1>4, MaxOfNats
<1>6. \A p \in parents : 1 + depth[p] \in T /\ depth[p] \in Nat
  BY Zenon DEF parents
<1>7. DepthOf(roles, depth, id) = Max(T)
  BY Zenon DEF DepthOf, parents
<1>8. \A p \in parents : 1 + depth[p] <= Max(T)
  <2> HIDE DEF T
  <2> QED BY Zenon, <1>5, <1>6
<1>9. Max(T) \in Nat
  BY Zenon, <1>4, <1>5
<1>10. Max(T) = 0 \/ \E p \in parents : Max(T) = 1 + depth[p]
  BY Zenon, <1>5
<1> HIDE DEF T
<1> QED BY <1>6, <1>7, <1>8, <1>9, <1>10 DEF parents

(* f and g agree on the roles of a rank below k.                           *)
LowAgree(roles, rank, f, g, k) == \A id \in RoleIDs(roles) : rank[id] < k => f[id] = g[id]

LEMMA DepthsSolve ==
    ASSUME NEW roles, Known(roles), NEW rank, Ranks(roles, rank)
    PROVE  /\ Depths(roles) \in [RoleIDs(roles) -> Nat]
           /\ \A id \in RoleIDs(roles) : Depths(roles)[id] = DepthOf(roles, Depths(roles), id)
<1> DEFINE I == RoleIDs(roles)
           parents(id) == Range(Role(roles, id).parents)
           A == [d \in I |-> Nat]
           G == Within(I, Nat, A)
           g0 == [d \in I |-> 0]
           Body(g) == [id \in I |-> DepthOf(roles, g, id)]
           F == [g \in G |-> Body(g)]
           c == CHOOSE g : g = Body(g)
<1>1. \A g : g \in G <=> g \in [I -> Nat]
  BY Zenon DEF Within
<1>2. rank \in [I -> Nat] /\ \A id \in I : parents(id) \subseteq I
                         /\ \A p \in parents(id) : rank[p] < rank[id]
  BY DEF Ranks, Known, Range
<1>3. A \in [I -> SUBSET Nat] /\ g0 \in G
  BY Zenon, <1>1
<1>4. \A g : Body(g) = [id \in I |-> Body(g)[id]] /\ \A id \in I : Body(g)[id] = DepthOf(roles, g, id)
  BY Zenon
<1>5. Depths(roles) = c
  BY Zenon DEF Depths, DepthOf
<1> HIDE DEF A, G, Body
<1>6. ASSUME NEW g \in G PROVE Body(g) \in G
  <2>1. g \in [I -> Nat]
    BY Zenon, <1>1
  <2>2. \A id \in I : DepthOf(roles, g, id) \in Nat
    BY Zenon, <1>2, <2>1, DepthOfParents
  <2> QED BY Zenon, <1>1, <1>4, <2>2
<1>7. F \in [G -> G] /\ \A g \in G : F[g] = Body(g)
  BY Zenon, <1>6
<1>8. ASSUME NEW f, NEW g, NEW n \in Nat, LowAgree(roles, rank, f, g, n), NEW id \in I, rank[id] <= n
      PROVE  Body(f)[id] = Body(g)[id]
  <2>1. \A p \in parents(id) : p \in I /\ rank[p] \in Nat /\ rank[p] < rank[id] /\ rank[id] \in Nat
    BY Zenon, <1>2
  <2>2. \A p \in parents(id) : f[p] = g[p]
    BY <1>8, <2>1 DEF LowAgree
  <2> DEFINE above(h) == {1 + h[p] : p \in parents(id)}
  <2>3. above(f) = above(g)
    BY Zenon, <2>2
  <2>4. DepthOf(roles, f, id) = Max({0} \cup above(f)) /\ DepthOf(roles, g, id) = Max({0} \cup above(g))
    BY Zenon DEF DepthOf
  <2> HIDE DEF above
  <2> QED BY Zenon, <1>4, <2>3, <2>4
<1>9. Contracts(F, G, I, rank)
  <2> SUFFICES ASSUME NEW f \in G, NEW g \in G, NEW n \in Nat,
                      \A d \in I : rank[d] < n => f[d] = g[d], NEW d \in I, rank[d] <= n
               PROVE  F[f][d] = F[g][d]
    BY Zenon DEF Contracts
  <2>1. LowAgree(roles, rank, f, g, n)
    BY Zenon DEF LowAgree
  <2>2. Body(f)[d] = Body(g)[d]
    BY Zenon, <1>8, <2>1
  <2> QED BY Zenon, <1>7, <2>2
<1> HIDE DEF F
<1>10. PICK f \in G : F[f] = f
  <2> HIDE DEF I, g0
  <2> QED BY <1>2, <1>3, <1>7, <1>9, FixedPoint DEF G
<1>11. f = Body(f) /\ f \in [I -> Nat]
  BY Zenon, <1>1, <1>7, <1>10
<1>12. c = Body(c)
  BY Zenon, <1>11
<1> HIDE DEF c
<1> DEFINE S == {n \in Nat : LowAgree(roles, rank, f, c, n)}
<1>13. 0 \in S
  BY <1>2 DEF LowAgree
<1>14. ASSUME NEW n \in Nat, n \in S PROVE n + 1 \in S
  <2>1. \A id \in I : rank[id] <= n => f[id] = c[id]
    BY <1>8, <1>11, <1>12, <1>14
  <2>2. \A id \in I : rank[id] < n + 1 => rank[id] <= n
    BY <1>2
  <2> QED BY <2>1, <2>2 DEF LowAgree
<1>15. Nat \subseteq S
  <2> HIDE DEF S
  <2> QED BY Zenon, <1>13, <1>14, Induct
<1>16. \A id \in I : c[id] = f[id]
  <2> SUFFICES ASSUME NEW id \in I PROVE c[id] = f[id]
    BY Zenon
  <2>1. rank[id] + 1 \in Nat /\ rank[id] < rank[id] + 1
    BY <1>2
  <2>2. LowAgree(roles, rank, f, c, rank[id] + 1)
    BY Zenon, <1>15, <2>1
  <2> QED BY Zenon, <2>1, <2>2 DEF LowAgree
<1>17. c \in [I -> Nat]
  BY Zenon, <1>4, <1>11, <1>12, <1>16
<1> QED BY Zenon, <1>4, <1>5, <1>12, <1>17

(* The depths are ranks themselves, the least there are.                   *)
LEMMA DepthsAreLeast ==
    ASSUME NEW roles, Known(roles), NEW rank, Ranks(roles, rank)
    PROVE  /\ Ranks(roles, Depths(roles))
           /\ \A id \in RoleIDs(roles) : Depths(roles)[id] <= rank[id]
<1> DEFINE I == RoleIDs(roles)
           d == Depths(roles)
           parents(id) == Range(Role(roles, id).parents)
<1>1. d \in [I -> Nat] /\ \A id \in I : d[id] = DepthOf(roles, d, id)
  BY Zenon, DepthsSolve
<1>2. rank \in [I -> Nat] /\ \A id \in I : parents(id) \subseteq I
                         /\ \A p \in parents(id) : rank[p] < rank[id]
  BY DEF Ranks, Known, Range
<1> HIDE DEF d
<1>3. ASSUME NEW id \in I
      PROVE  /\ \A p \in parents(id) : d[p] < d[id]
             /\ d[id] = 0 \/ \E p \in parents(id) : d[id] = 1 + d[p]
  <2>1. \A p \in parents(id) : d[p] \in Nat
    BY Zenon, <1>1, <1>2
  <2> QED BY <1>1, <2>1, DepthOfParents
<1>4. Ranks(roles, d)
  BY Zenon, <1>1, <1>3 DEF Ranks
<1> DEFINE S == {n \in Nat : \A id \in I : rank[id] < n => d[id] <= rank[id]}
<1>5. 0 \in S
  BY <1>2
<1>6. ASSUME NEW n \in Nat, n \in S PROVE n + 1 \in S
  <2> SUFFICES ASSUME NEW id \in I, rank[id] < n + 1 PROVE d[id] <= rank[id]
    OBVIOUS
  <2>1. rank[id] \in Nat /\ d[id] \in Nat
    BY Zenon, <1>1, <1>2
  <2>2. CASE d[id] = 0
    BY <2>1, <2>2
  <2>3. ASSUME NEW p \in parents(id), d[id] = 1 + d[p] PROVE d[id] <= rank[id]
    <3>1. p \in I /\ rank[p] \in Nat /\ d[p] \in Nat /\ rank[p] < rank[id]
      BY Zenon, <1>1, <1>2, <2>3
    <3>2. rank[p] < n
      BY <2>1, <3>1
    <3>3. d[p] <= rank[p]
      BY Zenon, <1>6, <3>1, <3>2
    <3> QED BY <2>1, <2>3, <3>1, <3>3
  <2> QED BY Zenon, <1>3, <2>2, <2>3
<1>7. Nat \subseteq S
  <2> HIDE DEF S
  <2> QED BY Zenon, <1>5, <1>6, Induct
<1>8. ASSUME NEW id \in I PROVE d[id] <= rank[id]
  <2>1. rank[id] + 1 \in Nat /\ rank[id] < rank[id] + 1
    BY <1>2
  <2> QED BY Zenon, <1>7, <2>1
<1> QED BY Zenon, <1>4, <1>8 DEF d

(* A role of some depth has roles of every smaller depth above it, so no   *)
(* depth exceeds the number of roles.                                      *)
LEMMA DepthsAreBounded ==
    ASSUME NEW roles, NEW E, roles \in Seq(E), Known(roles), NEW rank, Ranks(roles, rank)
    PROVE  \A id \in RoleIDs(roles) : Depths(roles)[id] \in 0..Len(roles)
<1> DEFINE I == RoleIDs(roles)
           d == Depths(roles)
           parents(id) == Range(Role(roles, id).parents)
           Img == {d[id] : id \in I}
<1>1. d \in [I -> Nat] /\ \A id \in I : d[id] = DepthOf(roles, d, id)
  BY Zenon, DepthsSolve
<1>2. \A id \in I : parents(id) \subseteq I /\ \A p \in parents(id) : d[p] < d[id]
  <2>1. Ranks(roles, d)
    BY Zenon, DepthsAreLeast
  <2> HIDE DEF d
  <2> QED BY <2>1 DEF Ranks, Known, Range
<1> HIDE DEF d
<1>3. \A id \in I : d[id] = 0 \/ \E p \in parents(id) : d[id] = 1 + d[p]
  BY <1>1, <1>2, DepthOfParents
<1> DEFINE S == {n \in Nat : \A id \in I : d[id] < n => 0..d[id] \subseteq Img}
<1>4. 0 \in S
  BY <1>1
<1>5. ASSUME NEW n \in Nat, n \in S PROVE n + 1 \in S
  <2> SUFFICES ASSUME NEW id \in I, d[id] < n + 1, NEW k \in 0..d[id] PROVE k \in Img
    OBVIOUS
  <2>1. d[id] \in Nat /\ d[id] \in Img
    BY Zenon, <1>1
  <2>2. CASE k = d[id]
    BY Zenon, <2>1, <2>2
  <2>3. CASE k # d[id]
    <3>1. d[id] # 0
      BY <2>1, <2>3
    <3>2. PICK p \in parents(id) : d[id] = 1 + d[p]
      BY Zenon, <1>3, <3>1
    <3>3. p \in I /\ d[p] \in Nat
      BY Zenon, <1>1, <1>2
    <3>4. d[p] < n /\ k \in 0..d[p]
      BY <2>1, <2>3, <3>2, <3>3
    <3>5. 0..d[p] \subseteq Img
      BY Zenon, <1>5, <3>3, <3>4
    <3> QED BY Zenon, <3>4, <3>5
  <2> QED BY Zenon, <2>2, <2>3
<1>6. Nat \subseteq S
  <2> HIDE DEF S
  <2> QED BY Zenon, <1>4, <1>5, Induct
<1> SUFFICES ASSUME NEW id \in I PROVE d[id] \in 0..Len(roles)
  BY Zenon DEF d
<1>7. 0..d[id] \subseteq Img /\ d[id] \in Nat
  <2>1. d[id] \in Nat /\ d[id] + 1 \in Nat /\ d[id] < d[id] + 1
    BY <1>1
  <2> QED BY Zenon, <1>6, <2>1
<1> DEFINE ids == [i \in DOMAIN roles |-> roles[i].id]
<1>8. I = {ids[i] : i \in 1..Len(roles)} /\ Len(roles) \in Nat
  <2>1. Len(roles) \in Nat
    OBVIOUS
  <2> HIDE DEF S, Img
  <2> QED BY Zenon, <2>1, RolesAreListed
<1> HIDE DEF ids, I
<1>9. IsFiniteSet(1..Len(roles)) /\ Cardinality(1..Len(roles)) = Len(roles)
  BY <1>8, FS_Interval
<1>10. IsFiniteSet(I) /\ Cardinality(I) <= Len(roles)
  BY Zenon, <1>8, <1>9, FiniteImage
<1>11. IsFiniteSet(Img) /\ Cardinality(Img) <= Cardinality(I)
  BY Zenon, <1>10, FiniteImage
<1> HIDE DEF Img
<1>12. Cardinality(0..d[id]) <= Cardinality(Img) /\ Cardinality(0..d[id]) = d[id] + 1
  <2>1. d[id] - 0 + 1 = d[id] + 1 /\ 0 <= d[id] /\ d[id] \in Int /\ 0 \in Int
    BY <1>7
  <2>2. Cardinality(0..d[id]) = d[id] + 1
    BY <2>1, FS_Interval
  <2> QED BY Zenon, <1>7, <1>11, <2>2, FS_Subset
<1>13. Cardinality(I) \in Nat /\ Cardinality(Img) \in Nat
  BY Zenon, <1>10, <1>11, FS_CardinalityType
<1> QED BY <1>7, <1>8, <1>10, <1>11, <1>12, <1>13

-----------------------------------------------------------------------------
(* What the loops of Evaluate arrive at                                    *)

(* From a list of roles, Closure reaches the least closed set with them.   *)
LEMMA LoopReaches ==
    ASSUME NEW roles, Known(roles), NEW list \in Seq(RoleIDs(roles)),
           NEW R, R = Loop(Closure(roles), {}, list)
    PROVE  /\ R \in SUBSET RoleIDs(roles) /\ Range(list) \subseteq R /\ Closed(roles, R)
           /\ \A C \in SUBSET RoleIDs(roles) : Range(list) \subseteq C /\ Closed(roles, C) => R \subseteq C
<1> DEFINE I == RoleIDs(roles)
           c == Closure(roles)
           n == Len(list)
<1>1. n \in Nat /\ DOMAIN list = 1..n /\ \A i \in 1..n : list[i] \in I
  OBVIOUS
<1>2. \A s \in SUBSET I : \A r \in I : c[<<s, r>>] \in SUBSET I /\ s \subseteq c[<<s, r>>] /\ Reaches(roles, s, r, c[<<s, r>>])
  BY Zenon, ClosureSolves, ClosureReaches DEF Grows
<1> HIDE DEF c, I, n
<1>3. Sends(c, SUBSET I, I)
  BY Zenon, <1>2 DEF Sends
<1>4. {} \in SUBSET I
  BY Zenon
<1>5. PICK a : Ran(a, SUBSET I, c, {}, list)
  <2>1. list \in Seq(I)
    BY Zenon DEF I
  <2> QED BY Zenon, <1>3, <1>4, <2>1, LoopRuns
<1>6. /\ a \in [0..n -> SUBSET I] /\ a[0] = {} /\ R = a[n]
      /\ \A i \in 1..n : a[i] = c[<<a[i-1], list[i]>>]
  BY Zenon, <1>5 DEF Ran, c, n
<1> DEFINE Below(C) == Range(list) \subseteq C /\ Closed(roles, C)
           Upto(i) == /\ \A j \in 1..i : list[j] \in a[i]
                     /\ Closed(roles, a[i])
                     /\ \A C \in SUBSET I : Below(C) => a[i] \subseteq C
           S == {i \in Nat : i \in 0..n => Upto(i)}
<1>7. 0 \in S
  BY <1>6 DEF Closed
<1>8. ASSUME NEW i \in Nat, i \in S PROVE i + 1 \in S
  <2> SUFFICES ASSUME i + 1 \in 0..n PROVE Upto(i + 1)
    OBVIOUS
  <2>1. i \in 0..n /\ i + 1 \in 1..n /\ (i + 1) - 1 = i
    BY <1>1
  <2> DEFINE s == a[i]
             r == list[i+1]
             t == a[i+1]
  <2>a. s \in SUBSET I /\ r \in I /\ t = c[<<a[(i+1)-1], r>>]
    BY Zenon, <1>1, <1>6, <2>1
  <2>b. Upto(i)
    BY Zenon, <1>8, <2>1
  <2>2. s \in SUBSET I /\ r \in I /\ t = c[<<s, r>>] /\ Upto(i)
    BY Zenon, <2>1, <2>a, <2>b
  <2>3. t \in SUBSET I /\ s \subseteq t /\ Reaches(roles, s, r, t)
    <3> HIDE DEF s, r, t, Upto
    <3> QED BY Zenon, <1>2, <2>2
  <2>4. \A j \in 1..(i+1) : list[j] \in t
    <3>1. 1..(i+1) = (1..i) \cup {i+1}
      OBVIOUS
    <3> QED BY Zenon, <2>2, <2>3, <3>1 DEF Reaches
  <2>5. Closed(roles, t)
    <3>1. \A x \in s : Range(Role(roles, x).parents) \subseteq s
      BY Zenon, <2>2 DEF Closed, I
    <3> QED BY Zenon, <2>3, <3>1 DEF Closed, Reaches
  <2>6. ASSUME NEW C \in SUBSET I, Below(C) PROVE t \subseteq C
    <3>1. r \in C
      BY Zenon, <1>1, <2>1, <2>6 DEF Range
    <3>2. s \subseteq C
      BY Zenon, <2>2, <2>6
    <3>3. t \subseteq s \cup C
      BY Zenon, <2>3, <2>6, <3>1 DEF Reaches, I
    <3> QED BY Zenon, <3>2, <3>3
  <2> QED BY Zenon, <2>4, <2>5, <2>6
<1>9. Nat \subseteq S
  <2> HIDE DEF S
  <2> QED BY Zenon, <1>7, <1>8, Induct
<1>10. Upto(n) /\ a[n] \in SUBSET I
  BY <1>1, <1>6, <1>9
<1> QED BY <1>1, <1>6, <1>10 DEF Range, I

(* Assigned, Inherited and Applicable of the model m.                      *)
AssignedIn(m, subject, tenant) ==
    {a.role : a \in {b \in Range(m.assignments) :
                        /\ <<b.subject.kind, b.subject.id>> \in Principals(subject)
                        /\ b.tenant \in {tenant} \cup (IF m.inheritGlobal THEN {0} ELSE {})}}

InheritedIn(m, roles) ==
    {r \in RoleIDs(m.roles) : \A closed \in SUBSET RoleIDs(m.roles) :
        /\ roles \subseteq closed
        /\ \A c \in closed : Range(Role(m.roles, c).parents) \subseteq closed
        => r \in closed}

ApplicableIn(m, request) ==
    {p \in Range(m.permissions) :
        p.role \in InheritedIn(m, AssignedIn(m, request.subject, request.tenant))
        /\ PermissionMatchesRequest(p, request)}

(* What the evaluator relies on in a model that New accepted.              *)
Sound(m) ==
    /\ Known(m.roles)
    /\ \A i, j \in DOMAIN m.roles : m.roles[i].id = m.roles[j].id => i = j
    /\ \A i, j \in DOMAIN m.permissions : m.permissions[i].id = m.permissions[j].id => i = j
    /\ \A role \in Range(m.roles) : \A p \in Range(role.parents) : RoleIn(m.roles, p, role.tenant)
    /\ \A p \in Range(m.permissions) : p.effect \in {"Allow", "Deny"} /\ RoleIn(m.roles, p.role, p.tenant)
    /\ \A a \in Range(m.assignments) : RoleIn(m.roles, a.role, a.tenant)

LEMMA ModelFields ==
    ASSUME NEW m \in RbacModel
    PROVE  /\ m.roles \in Seq(RoleRecord) /\ m.permissions \in Seq(PermissionRecord)
           /\ m.assignments \in Seq(AssignmentRecord) /\ m.inheritGlobal \in BOOLEAN
           /\ m.limits.maxAssignments \in Nat /\ m.limits.maxGroups \in Nat
           /\ m.limits.maxMatches \in Nat /\ m.limits.maxInheritanceDepth \in Nat
BY DEF RbacModel, DefaultLimits

(* EffectiveRoles returns the least closed set of roles with those that    *)
(* are assigned.                                                           *)
LEMMA RolesAreInherited ==
    ASSUME NEW m \in RbacModel, Sound(m), NEW subject, NEW tenant
    PROVE  EffectiveRoles(m, subject, tenant) = InheritedIn(m, AssignedIn(m, subject, tenant))
<1> DEFINE I == RoleIDs(m.roles)
           matching == {a \in Range(m.assignments) :
                           /\ <<a.subject.kind, a.subject.id>> \in Principals(subject)
                           /\ MatchesTenant(m.inheritGlobal, a.tenant, tenant)}
           assigned == Filtered(m.assignments, matching)
           list == [i \in DOMAIN assigned |-> assigned[i].role]
           A == AssignedIn(m, subject, tenant)
           R == Loop(Closure(m.roles), {}, list)
<1>1. EffectiveRoles(m, subject, tenant) = R
  BY Zenon DEF EffectiveRoles
<1>2. m.assignments \in Seq(AssignmentRecord) /\ m.inheritGlobal \in BOOLEAN
  BY Zenon, ModelFields
<1>3. matching = {b \in Range(m.assignments) :
                     /\ <<b.subject.kind, b.subject.id>> \in Principals(subject)
                     /\ b.tenant \in {tenant} \cup (IF m.inheritGlobal THEN {0} ELSE {})}
  BY Zenon, <1>2 DEF MatchesTenant
<1>4. A = {a.role : a \in matching}
  BY Zenon, <1>3 DEF AssignedIn
<1>5. A \subseteq I
  <2>1. \A a \in matching : RoleIn(m.roles, a.role, a.tenant)
    BY Zenon DEF Sound
  <2>2. \A a \in matching : a.role \in I
    BY Zenon, <2>1 DEF RoleIn, RoleIDs
  <2> HIDE DEF matching, I
  <2> QED BY Zenon, <1>4, <2>2
<1>6. matching \subseteq Range(m.assignments)
  BY Zenon
<1> HIDE DEF matching, A, I
<1>7. assigned \in Seq(AssignmentRecord) /\ Range(assigned) = matching
  <2>1. /\ Filtered(m.assignments, matching) \in Seq(AssignmentRecord)
        /\ Range(Filtered(m.assignments, matching)) = Range(m.assignments) \cap matching
    BY <1>2, FilteredKeeps
  <2> QED BY Zenon, <1>6, <2>1
<1> HIDE DEF assigned
<1>8. DOMAIN assigned = 1..Len(assigned) /\ Len(assigned) \in Nat
  BY <1>7
<1>9. DOMAIN list = 1..Len(assigned) /\ \A i \in 1..Len(assigned) : list[i] = assigned[i].role
  BY Zenon, <1>8
<1>10. Range(list) = A
  BY <1>4, <1>7, <1>8, <1>9 DEF Range
<1>11. list \in Seq(I)
  <2>1. \A i \in 1..Len(assigned) : list[i] \in I
    BY Zenon, <1>5, <1>9, <1>10 DEF Range
  <2>2. list \in [1..Len(assigned) -> I]
    BY Zenon, <1>8, <2>1
  <2> QED BY <1>8, <2>2
<1> HIDE DEF list
<1>12. Known(m.roles)
  BY Zenon DEF Sound
<1>13. /\ R \in SUBSET I /\ Range(list) \subseteq R /\ Closed(m.roles, R)
       /\ \A C \in SUBSET I : Range(list) \subseteq C /\ Closed(m.roles, C) => R \subseteq C
  BY Zenon, <1>11, <1>12, LoopReaches DEF I
<1> HIDE DEF R
<1>14. \A C \in SUBSET I : Closed(m.roles, C) <=> \A c \in C : Range(Role(m.roles, c).parents) \subseteq C
  BY Zenon DEF Closed, I
<1>15. R = InheritedIn(m, A)
  <2>1. InheritedIn(m, A) = {r \in I : \A C \in SUBSET I :
                                A \subseteq C /\ Closed(m.roles, C) => r \in C}
    BY Zenon, <1>14 DEF InheritedIn, I
  <2> QED BY Zenon, <1>10, <1>13, <2>1
<1> QED BY Zenon, <1>1, <1>15 DEF A

(* More assigned roles make more inherited ones.                           *)
LEMMA InheritedGrows ==
    ASSUME NEW m, NEW A, NEW B, A \subseteq B
    PROVE  InheritedIn(m, A) \subseteq InheritedIn(m, B)
BY Zenon DEF InheritedIn

(* A role that is the only one with its ID is the one Role finds.          *)
LEMMA RoleOfID ==
    ASSUME NEW m \in RbacModel, Sound(m), NEW role \in Range(m.roles)
    PROVE  role.id \in RoleIDs(m.roles) /\ Role(m.roles, role.id) = role
<1>1. m.roles \in Seq(RoleRecord)
  BY Zenon, ModelFields
<1>2. \A x, y \in Range(m.roles) : x.id = y.id => x = y
  BY Zenon, <1>1 DEF Sound, Range
<1>3. Role(m.roles, role.id) \in Range(m.roles) /\ Role(m.roles, role.id).id = role.id
  BY Zenon DEF Role
<1> QED BY Zenon, <1>2, <1>3 DEF RoleIDs

(* Inheritance stays within the tenants that assignments reach.            *)
LEMMA InheritedInTenant ==
    ASSUME NEW m \in RbacModel, Sound(m), NEW subject, NEW tenant,
           NEW r \in InheritedIn(m, AssignedIn(m, subject, tenant))
    PROVE  Role(m.roles, r).tenant = tenant \/ (m.inheritGlobal /\ Role(m.roles, r).tenant = 0)
<1> DEFINE I == RoleIDs(m.roles)
           C == {x \in I : Role(m.roles, x).tenant = tenant
                           \/ (m.inheritGlobal /\ Role(m.roles, x).tenant = 0)}
           A == AssignedIn(m, subject, tenant)
<1>0. m.inheritGlobal \in BOOLEAN
  BY Zenon, ModelFields
<1>1. ASSUME NEW x, NEW t, RoleIn(m.roles, x, t) PROVE x \in I /\ Role(m.roles, x).tenant = t
  <2>1. PICK role \in Range(m.roles) : role.id = x /\ role.tenant = t
    BY Zenon, <1>1 DEF RoleIn
  <2> QED BY Zenon, <2>1, RoleOfID
<1>2. A \subseteq C
  <2> SUFFICES ASSUME NEW x \in A PROVE x \in C
    BY Zenon
  <2>1. PICK a \in Range(m.assignments) :
            x = a.role /\ a.tenant \in {tenant} \cup (IF m.inheritGlobal THEN {0} ELSE {})
    BY Zenon DEF AssignedIn
  <2>2. x \in I /\ Role(m.roles, x).tenant = a.tenant
    BY Zenon, <1>1, <2>1 DEF Sound
  <2> QED BY Zenon, <1>0, <2>1, <2>2
<1>3. ASSUME NEW x \in C, NEW p \in Range(Role(m.roles, x).parents) PROVE p \in C
  <2> DEFINE role == Role(m.roles, x)
  <2>1. role \in Range(m.roles)
    BY Zenon DEF Role, RoleIDs
  <2>2. RoleIn(m.roles, p, role.tenant)
    BY Zenon, <1>3, <2>1 DEF Sound
  <2>3. p \in I /\ Role(m.roles, p).tenant = role.tenant
    BY Zenon, <1>1, <2>2
  <2> QED BY Zenon, <2>3
<1>4. r \in C
  <2>1. C \in SUBSET I /\ \A x \in C : Range(Role(m.roles, x).parents) \subseteq C
    BY Zenon, <1>3
  <2> HIDE DEF C
  <2> QED BY Zenon, <1>2, <2>1 DEF InheritedIn, I, A
<1> QED BY Zenon, <1>4


-----------------------------------------------------------------------------
(* What Evaluate decides                                                   *)

LEMMA PermissionsAreSortable == Sortable(PermissionRecord)
BY Zenon DEF Sortable, PermissionRecord

(* The entries that reach MatchAll are the applicable permissions, each    *)
(* once.                                                                   *)
Entries(m, request) ==
    LET permissions == EffectivePermissions(m, request.subject, request.tenant)
    IN  Filtered(permissions, {p \in Range(permissions) : PermissionMatchesRequest(p, request)})

LEMMA EntriesAreApplicable ==
    ASSUME NEW m \in RbacModel, Sound(m), NEW request
    PROVE  /\ Entries(m, request) \in Seq(PermissionRecord)
           /\ Range(Entries(m, request)) = ApplicableIn(m, request)
           /\ IsFiniteSet(ApplicableIn(m, request))
           /\ Cardinality(ApplicableIn(m, request)) = Len(Entries(m, request))
<1> DEFINE all == m.permissions
           roles == EffectiveRoles(m, request.subject, request.tenant)
           held == {p \in Range(all) : p.role \in roles}
           some == Filtered(all, held)
           sorted == SortFunc(some)
           matching == {p \in Range(sorted) : PermissionMatchesRequest(p, request)}
           entries == Filtered(sorted, matching)
           n == Len(entries)
           A == ApplicableIn(m, request)
           Apart(s) == \A i, j \in DOMAIN s : s[i] = s[j] => i = j
<1>1. Entries(m, request) = entries
  BY Zenon DEF Entries, EffectivePermissions
<1>2. all \in Seq(PermissionRecord) /\ Apart(all)
  BY Zenon, ModelFields DEF Sound
<1>3. held \subseteq Range(all) /\ matching \subseteq Range(sorted)
  BY Zenon
<1> HIDE DEF all, roles, held, matching
<1>4. some \in Seq(PermissionRecord) /\ Range(some) = held /\ Apart(some)
  <2>1. /\ Filtered(all, held) \in Seq(PermissionRecord)
        /\ Range(Filtered(all, held)) = Range(all) \cap held
        /\ Apart(all) => Apart(Filtered(all, held))
    BY Zenon, <1>2, FilteredKeeps
  <2> HIDE DEF Apart
  <2> QED BY Zenon, <1>2, <1>3, <2>1
<1> HIDE DEF some
<1>5. sorted \in Seq(PermissionRecord) /\ Range(sorted) = held /\ Apart(sorted)
  <2>1. /\ SortFunc(some) \in Seq(PermissionRecord)
        /\ Range(SortFunc(some)) = Range(some)
        /\ Apart(some) => Apart(SortFunc(some))
    BY Zenon, <1>4, PermissionsAreSortable, SortFuncKeeps
  <2> HIDE DEF Apart
  <2> QED BY Zenon, <1>4, <2>1
<1> HIDE DEF sorted
<1>6. entries \in Seq(PermissionRecord) /\ Range(entries) = matching /\ Apart(entries)
  <2>1. /\ Filtered(sorted, matching) \in Seq(PermissionRecord)
        /\ Range(Filtered(sorted, matching)) = Range(sorted) \cap matching
        /\ Apart(sorted) => Apart(Filtered(sorted, matching))
    BY Zenon, <1>5, FilteredKeeps
  <2> HIDE DEF Apart
  <2> QED BY Zenon, <1>3, <1>5, <2>1
<1> HIDE DEF entries
<1>7. matching = A
  BY Zenon, <1>5, RolesAreInherited DEF matching, held, roles, all, ApplicableIn
<1>8. IsFiniteSet(A) /\ Cardinality(A) = n
  <2>1. n \in Nat /\ DOMAIN entries = 1..n /\ entries \in [1..n -> A]
    BY <1>6, <1>7 DEF Range
  <2>2. IsFiniteSet(1..n) /\ Cardinality(1..n) = n
    BY <2>1, FS_Interval
  <2>3. \A a \in A : \E i \in 1..n : entries[i] = a
    BY Zenon, <1>6, <1>7, <2>1 DEF Range
  <2>4. \A i, j \in 1..n : entries[i] = entries[j] => i = j
    BY Zenon, <1>6, <2>1
  <2> HIDE DEF n, A
  <2>5. entries \in Bijection(1..n, A)
    BY Zenon, <2>1, <2>3, <2>4, Fun_IsBij
  <2> QED BY Zenon, <2>2, <2>5, FS_Bijection DEF ExistsBijection
<1> QED BY Zenon, <1>1, <1>6, <1>7, <1>8


(* The call returns an error.                                              *)
RefusedIn(m, request) ==
    \/ request.canceled
    \/ Len(request.subject.groups) > m.limits.maxGroups
    \/ Cardinality(ApplicableIn(m, request)) > m.limits.maxMatches

(* A call without an error reports the applicable permissions; a deny      *)
(* among them prevails.  A call with an error denies.                      *)
LEMMA EvaluateDecides ==
    ASSUME NEW m \in RbacModel, Sound(m), NEW request \in RequestRecord
    PROVE  LET decision == Evaluate(m, request)
               applicable == ApplicableIn(m, request) IN
           /\ decision.outcome \in {"NotApplicable", "Allow", "Deny"}
           /\ IF RefusedIn(m, request) THEN decision.outcome = "Deny" /\ decision.err # "none"
              ELSE /\ decision.err = "none"
                   /\ Range(decision.matched) = {p.id : p \in applicable}
                   /\ decision.outcome = "NotApplicable" <=> applicable = {}
                   /\ decision.outcome = "Deny" <=> \E p \in applicable : p.effect = "Deny"
<1> DEFINE d == Evaluate(m, request)
           A == ApplicableIn(m, request)
           e == Entries(m, request)
           n == Len(e)
           max == m.limits.maxMatches
           early == request.canceled \/ Len(request.subject.groups) > m.limits.maxGroups
<1>1. d = IF request.canceled THEN Refused("ContextError")
          ELSE IF Len(request.subject.groups) > m.limits.maxGroups THEN Refused("ErrGroupLimitExceeded")
          ELSE MatchAll(e, max)
  BY Zenon DEF Evaluate, Entries
<1>2. /\ e \in Seq(PermissionRecord) /\ Range(e) = A /\ IsFiniteSet(A) /\ Cardinality(A) = n
      /\ max \in Nat
  BY Zenon, EntriesAreApplicable, ModelFields
<1>3. \A err : Refused(err).outcome = "Deny" /\ Refused(err).err = err
  BY Zenon DEF Refused
<1>4. RefusedIn(m, request) <=> early \/ n > max
  BY Zenon, <1>2 DEF RefusedIn
<1>5. \A i \in DOMAIN e : e[i].id \in Nat /\ e[i].effect \in {"Allow", "Deny"}
  <2>1. \A i \in DOMAIN e : e[i] \in PermissionRecord /\ e[i] \in A
    BY <1>2 DEF Range
  <2>2. \A p \in A : p.effect \in {"Allow", "Deny"}
    BY Zenon DEF ApplicableIn, Sound
  <2> HIDE DEF e, A
  <2> QED BY Zenon, <2>1, <2>2 DEF PermissionRecord
<1>6. CASE early
  BY Zenon, <1>1, <1>3, <1>4, <1>6
<1>7. CASE ~early /\ n > max
  <2> HIDE DEF e
  <2>1. MatchAll(e, max) = Refused("ErrMatchLimitExceeded")
    <3>1. ~(n <= max) /\ n \in Nat
      BY <1>2, <1>7
    <3> QED BY Zenon, <1>2, <1>5, <3>1, MatchAllTallies
  <2>2. d = Refused("ErrMatchLimitExceeded")
    BY Zenon, <1>1, <1>7, <2>1
  <2> HIDE DEF d, A, early
  <2> QED BY Zenon, <1>3, <1>4, <1>7, <2>2 DEF d, A
<1>8. CASE ~early /\ ~(n > max)
  <2> HIDE DEF e
  <2>1. n \in Nat /\ n <= max /\ DOMAIN e = 1..n
    BY <1>2, <1>8
  <2>2. d \in DecisionRecord /\ Tally(e, n, d)
    <3>1. d = MatchAll(e, max)
      BY Zenon, <1>1, <1>8
    <3> HIDE DEF d, max
    <3> QED BY Zenon, <1>2, <1>5, <2>1, <3>1, MatchAllTallies
  <2> HIDE DEF d, A, early
  <2>3. d.outcome \in {"NotApplicable", "Allow", "Deny"} /\ d.matched \in Seq(Nat)
    BY Zenon, <2>2 DEF DecisionRecord
  <2>4. /\ d.err = "none" /\ Len(d.matched) = n
        /\ \A j \in 1..n : d.matched[j] = e[j].id
        /\ d.outcome = "NotApplicable" <=> n = 0
        /\ d.outcome = "Deny" <=> \E j \in 1..n : e[j].effect = "Deny"
    BY Zenon, <2>2 DEF Tally
  <2>5. A = {e[j] : j \in 1..n}
    BY Zenon, <1>2, <2>1 DEF Range
  <2>6. Range(d.matched) = {p.id : p \in A}
    <3>1. DOMAIN d.matched = 1..n
      BY <2>3, <2>4
    <3> QED BY Zenon, <2>4, <2>5, <3>1 DEF Range
  <2>7. A = {} <=> n = 0
    <3>1. n = 0 => 1..n = {}
      OBVIOUS
    <3>2. n # 0 => 1 \in 1..n
      BY <2>1
    <3> QED BY Zenon, <2>5, <3>1, <3>2
  <2>8. (\E p \in A : p.effect = "Deny") <=> \E j \in 1..n : e[j].effect = "Deny"
    BY Zenon, <2>5
  <2> QED BY Zenon, <1>4, <1>8, <2>3, <2>4, <2>6, <2>7, <2>8 DEF d, A
<1> QED BY Zenon, <1>6, <1>7, <1>8

(* With more assignments, at least the same permissions apply.             *)
LEMMA AssigningKeepsDenials ==
    ASSUME NEW m \in RbacModel, Sound(m), NEW k \in RbacModel, Sound(k),
           k.roles = m.roles, k.permissions = m.permissions, k.limits = m.limits,
           k.inheritGlobal = m.inheritGlobal, Range(m.assignments) \subseteq Range(k.assignments),
           NEW request \in RequestRecord, Evaluate(m, request).outcome = "Deny"
    PROVE  Evaluate(k, request).outcome = "Deny"
<1> DEFINE A == ApplicableIn(m, request)
           B == ApplicableIn(k, request)
<1>1. A \subseteq B
  <2>1. AssignedIn(m, request.subject, request.tenant) \subseteq AssignedIn(k, request.subject, request.tenant)
    BY Zenon DEF AssignedIn
  <2>2. \A S : InheritedIn(m, S) = InheritedIn(k, S)
    BY Zenon DEF InheritedIn
  <2>3. InheritedIn(m, AssignedIn(m, request.subject, request.tenant))
            \subseteq InheritedIn(k, AssignedIn(k, request.subject, request.tenant))
    BY <2>1, <2>2, InheritedGrows
  <2> QED BY Zenon, <2>3 DEF ApplicableIn
<1>2. Cardinality(A) <= Cardinality(B) /\ Cardinality(A) \in Nat /\ Cardinality(B) \in Nat
  <2>1. IsFiniteSet(B)
    BY Zenon, EntriesAreApplicable
  <2> HIDE DEF A, B
  <2> QED BY Zenon, <1>1, <2>1, FS_Subset, FS_CardinalityType
<1>3. RefusedIn(m, request) => RefusedIn(k, request)
  <2>1. m.limits.maxMatches \in Nat
    BY Zenon, ModelFields
  <2> QED BY <1>2, <2>1 DEF RefusedIn
<1>4. CASE RefusedIn(m, request)
  BY Zenon, <1>3, <1>4, EvaluateDecides
<1>5. CASE ~RefusedIn(m, request)
  <2>1. \E p \in A : p.effect = "Deny"
    BY Zenon, <1>5, EvaluateDecides
  <2>2. \E p \in B : p.effect = "Deny"
    BY Zenon, <1>1, <2>1
  <2> QED BY Zenon, <2>2, EvaluateDecides
<1> QED BY Zenon, <1>4, <1>5

=============================================================================
