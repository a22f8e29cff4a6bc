------------------------------- MODULE Snapshot -------------------------------
(***************************************************************************)
(* Immutable policy views: snapshot.go.  Policy IDs are naturals, ordered  *)
(* as the code orders the ID strings, 0 standing for the empty string.     *)
(* Instants are naturals, 0 standing for the zero time.                    *)
(***************************************************************************)
EXTENDS Integers, Composition, EarlyReturn, Ordering

PolicyDefinition == [id: Nat, evaluator: BOOLEAN, revision: Nat,
                     priority: Int, activeFrom: Nat, activeUntil: Nat]

Policy == [id: Nat, revision: Nat, priority: Int,
           activeFrom: Nat, activeUntil: Nat]

SnapshotRecord == [revision: Nat \ {0}, algorithm: Algorithms, policies: Seq(Policy)]

(* The half-open window [activeFrom, activeUntil), a zero end unbounded.   *)
ActiveAt(policy, at) ==
    /\ policy.activeFrom = 0 \/ at >= policy.activeFrom
    /\ policy.activeUntil = 0 \/ at < policy.activeUntil

(* The error NewSnapshot reports at definition i, "none" if it goes on.    *)
DefinitionError(definitions, i) ==
    LET d == definitions[i] IN
    FirstError(<<
        <<d.id = 0 \/ ~d.evaluator, "ErrInvalidPolicy">>,
        <<\E j \in 1..(i-1) : definitions[j].id = d.id, "ErrDuplicatePolicy">>,
        <<d.activeFrom # 0 /\ d.activeUntil # 0 /\ ~(d.activeUntil > d.activeFrom),
          "ErrInvalidActivationWindow">> >>)

Entry(revision, d) ==
    [id |-> d.id,
     revision |-> IF d.revision = 0 THEN revision ELSE d.revision,
     priority |-> d.priority,
     activeFrom |-> d.activeFrom, activeUntil |-> d.activeUntil]

(* Variant with a mistake: the entries keep definition order.              *)
PolicyOrderUnsorted(algorithm, entries) == entries

PolicyOrder(algorithm, entries) ==
    IF algorithm = "PriorityOrder" THEN SortFunc(entries) ELSE entries

NewSnapshot(revision, algorithm, definitions) ==
    LET failing == {i \in DOMAIN definitions : DefinitionError(definitions, i) # "none"}
        entries == [i \in DOMAIN definitions |-> Entry(revision, definitions[i])]
        err == FirstError(<<
            <<revision = 0, "ErrInvalidRevision">>,
            <<Combine(algorithm, <<>>).err # "none", Combine(algorithm, <<>>).err>>,
            <<failing # {}, IF failing = {} THEN "none"
                            ELSE DefinitionError(definitions, Min(failing))>> >>)
    IN  [err |-> err,
         snapshot |-> [revision |-> revision, algorithm |-> algorithm,
                       policies |-> PolicyOrder(algorithm, entries)]]

=============================================================================
