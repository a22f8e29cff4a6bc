------------------------------- MODULE Attribute -------------------------------
(***************************************************************************)
(* Typed attribute values: attribute.go.  Texts, numbers, instants and     *)
(* addresses are integers in their order, a string set is a set of them.   *)
(***************************************************************************)
EXTENDS Integers, FiniteSets, SequencesExt

(* A Value of a kind other than StringSet.                                 *)
Value(kind, scalar) == [kind |-> kind, scalar |-> scalar, set |-> {}]

NullValue == Value("Null", 0)

(* Copied, sorted and without duplicates: a set.                           *)
StringSetValue(strings) == [kind |-> "StringSet", scalar |-> 0, set |-> ToSet(strings)]

CollectionLength(value) == IF value.kind = "StringSet" THEN Cardinality(value.set) ELSE 0

ValueEqual(value, other) ==
    /\ value.kind = other.kind
    /\ value.scalar = other.scalar /\ value.set = other.set

Ordered == {"String", "Int", "Float", "Time"}

Comparable(value, other) == value.kind = other.kind /\ value.kind \in Ordered

(* The sign of value - other, 0 when they are not comparable.              *)
Compare(value, other) ==
    CASE Comparable(value, other) /\ value.scalar < other.scalar -> -1
      [] Comparable(value, other) /\ value.scalar > other.scalar -> 1
      [] OTHER -> 0

=============================================================================
