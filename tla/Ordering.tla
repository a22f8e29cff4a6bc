------------------------------- MODULE Ordering -------------------------------
(***************************************************************************)
(* The evaluation order of policies, permissions and rules: the same call  *)
(* of slices.SortFunc in snapshot.go, rbac/rbac.go and abac/abac.go.       *)
(***************************************************************************)
EXTENDS Integers, Functions

(* Descending priority, then ascending ID.                                 *)
EvaluatedBefore(p, q) ==
    p.priority > q.priority \/ (p.priority = q.priority /\ p.id < q.id)

(* slices.SortFunc: the entries arranged so that none comes after one it   *)
(* is to be evaluated before.                                              *)
SortFunc(entries) ==
    LET indices == DOMAIN entries
        order == CHOOSE p \in Bijection(indices, indices) :
                    \A i, j \in indices : i < j => ~EvaluatedBefore(entries[p[j]], entries[p[i]])
    IN  [i \in indices |-> entries[order[i]]]

=============================================================================
