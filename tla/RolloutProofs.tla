---------------------------- MODULE RolloutProofs ----------------------------
(***************************************************************************)
(* Proofs about manifests, their compilation and their review, for         *)
(* manifests of every length and every limit.                              *)
(***************************************************************************)
EXTENDS Rollout, SnapshotProofs

-----------------------------------------------------------------------------
(* Validate                                                                *)

(* A window as the manifest writes it: two pointers.                       *)
Window(r) == r.from = <<>> \/ r.until = <<>> \/ r.until[1].at > r.from[1].at

LEMMA RecordFields ==
    ASSUME NEW r \in Record
    PROVE  /\ r.id \in Nat /\ r.revision \in Nat /\ r.priority \in Int
           /\ r.from \in Pointer /\ r.until \in Pointer /\ r.document \in Document
BY Zenon DEF Record

LEMMA PointerFields ==
    ASSUME NEW p \in Pointer
    PROVE  /\ p \in Seq(Instant) /\ DOMAIN p = 1..Len(p) /\ Len(p) \in {0, 1}
           /\ p = <<>> \/ (Len(p) = 1 /\ 1 \in DOMAIN p /\ p[1] \in Instant)
           /\ \A i \in DOMAIN p : p[i] \in Instant /\ i = 1
<1>1. p \in Seq(Instant) /\ Len(p) <= 1
  BY Zenon DEF Pointer
<1>2. /\ Len(p) \in {0, 1} /\ DOMAIN p = 1..Len(p)
      /\ \A i \in DOMAIN p : p[i] \in Instant /\ i = 1
  <2>1. Len(p) \in Nat /\ DOMAIN p = 1..Len(p) /\ \A i \in DOMAIN p : p[i] \in Instant
    BY <1>1
  <2>2. Len(p) \in {0, 1} /\ \A i \in 1..Len(p) : i = 1
    BY <1>1, <2>1
  <2> QED BY Zenon, <2>1, <2>2
<1>3. CASE Len(p) = 0
  <2>1. p = <<>>
    BY <1>1, <1>3
  <2> QED BY Zenon, <1>1, <1>2, <2>1
<1>4. CASE Len(p) = 1
  <2>1. 1 \in DOMAIN p
    BY <1>2, <1>4
  <2> QED BY Zenon, <1>1, <1>2, <1>4, <2>1
<1> QED
  BY Zenon, <1>2, <1>3, <1>4

LEMMA DocumentFields ==
    ASSUME NEW d \in Document
    PROVE  /\ d.object \in BOOLEAN /\ d.writable \in BOOLEAN /\ d.bytes \in Nat /\ d.laidOut \in Nat
           /\ d.decodes \in DecoderResult /\ d.relaid \in DecoderResult
BY Zenon DEF Document

LEMMA ManifestFields ==
    ASSUME NEW m \in ManifestRecord
    PROVE  /\ m.formatV1 \in BOOLEAN /\ m.revision \in Nat /\ m.policies \in Seq(Record)
           /\ DOMAIN m.policies = 1..Len(m.policies) /\ Len(m.policies) \in Nat
           /\ \A i \in DOMAIN m.policies : m.policies[i] \in Record
<1>1. m.formatV1 \in BOOLEAN /\ m.revision \in Nat /\ m.policies \in Seq(Record)
  BY Zenon DEF ManifestRecord
<1> QED
  BY <1>1

LEMMA RecordChecks ==
    ASSUME NEW m \in ManifestRecord, NEW i \in DOMAIN m.policies
    PROVE  /\ RecordError(m, i) = "none" <=>
                /\ m.policies[i].id # 0 /\ m.policies[i].revision # 0
                /\ m.policies[i].model \in Models /\ m.policies[i].document.object
                /\ \A j \in 1..(i-1) : m.policies[j].id # m.policies[i].id
                /\ Window(m.policies[i])
           /\ RecordError(m, i) \in {"none", "ErrInvalidManifest", "ErrDuplicateRecord"}
<1> DEFINE r == m.policies[i]
           a == r.id = 0 \/ r.revision = 0 \/ r.model \notin Models \/ ~r.document.object
           b == \E j \in 1..(i-1) : m.policies[j].id = r.id
           c == IF r.from = <<>> \/ r.until = <<>> THEN FALSE ELSE ~(r.until[1].at > r.from[1].at)
<1>1. r.document.object \in BOOLEAN
  BY Zenon, ManifestFields, RecordFields, DocumentFields
<1>2. a \in BOOLEAN /\ b \in BOOLEAN /\ c \in BOOLEAN
  BY Zenon
<1>3. RecordError(m, i) =
        FirstError(<< <<a, "ErrInvalidManifest">>, <<b, "ErrDuplicateRecord">>,
                      <<c, "ErrInvalidManifest">> >>)
  BY Zenon DEF RecordError
<1>4. a <=> ~(r.id # 0 /\ r.revision # 0 /\ r.model \in Models /\ r.document.object)
  BY Zenon, <1>1
<1>5. b <=> ~(\A j \in 1..(i-1) : m.policies[j].id # r.id)
  BY Zenon
<1>6. c <=> ~Window(r)
  BY Zenon DEF Window
<1>7. RecordError(m, i) =
        IF a THEN "ErrInvalidManifest" ELSE IF b THEN "ErrDuplicateRecord"
        ELSE IF c THEN "ErrInvalidManifest" ELSE "none"
  <2> HIDE DEF a, b, c
  <2> QED BY <1>2, <1>3, ThreeChecks
<1> HIDE DEF a, b, c, r
<1>8. /\ RecordError(m, i) = "none" <=> ~a /\ ~b /\ ~c
      /\ RecordError(m, i) \in {"none", "ErrInvalidManifest", "ErrDuplicateRecord"}
  BY Zenon, <1>7
<1> QED
  BY Zenon, <1>4, <1>5, <1>6, <1>8 DEF r

LEMMA ValidateChecks ==
    ASSUME NEW m \in ManifestRecord
    PROVE  /\ Validate(m) = "none" <=>
                /\ m.formatV1 /\ m.revision # 0 /\ m.algorithm \in Algorithms
                /\ \A i \in DOMAIN m.policies : RecordError(m, i) = "none"
           /\ Validate(m) \in {"none", "ErrInvalidManifest", "ErrDuplicateRecord"}
<1> DEFINE failing == {i \in 1..Len(m.policies) : RecordError(m, i) # "none"}
<1>1. Validate(m) =
        IF ~m.formatV1 \/ m.revision = 0 \/ m.algorithm \notin Algorithms
        THEN "ErrInvalidManifest"
        ELSE IF failing = {} THEN "none" ELSE RecordError(m, Min(failing))
  BY Zenon DEF Validate, FirstFailure
<1>2. failing # {} => RecordError(m, Min(failing)) \in {"ErrInvalidManifest", "ErrDuplicateRecord"}
  <2>1. failing \subseteq Nat
    OBVIOUS
  <2>2. failing # {} => Min(failing) \in failing
    <3> HIDE DEF failing
    <3> QED BY Zenon, <2>1, MinOfNats
  <2>3. \A i \in failing : i \in DOMAIN m.policies /\ RecordError(m, i) # "none"
    BY Zenon, ManifestFields
  <2> HIDE DEF failing
  <2> QED
    BY Zenon, <2>2, <2>3, RecordChecks
<1>3. failing = {} <=> \A i \in DOMAIN m.policies : RecordError(m, i) = "none"
  BY Zenon, ManifestFields
<1>4. m.formatV1 \in BOOLEAN
  BY Zenon, ManifestFields
<1> HIDE DEF failing
<1> QED
  BY Zenon, <1>1, <1>2, <1>3, <1>4

-----------------------------------------------------------------------------
(* Compile                                                                 *)

Definitions(m) == [i \in DOMAIN m.policies |-> Definition(m.policies[i])]

LEMMA DefinitionOfRecord ==
    ASSUME NEW r \in Record
    PROVE  /\ Definition(r) \in PolicyDefinition
           /\ Definition(r).id = r.id /\ Definition(r).evaluator = TRUE
           /\ Definition(r).revision = r.revision /\ Definition(r).priority = r.priority
           /\ Window(r) => Opens(Definition(r))
<1>1. \A p \in Pointer :
        Deref(p) \in Nat /\ (p = <<>> => Deref(p) = 0) /\ (p # <<>> => Deref(p) = p[1].at)
  <2> SUFFICES ASSUME NEW p \in Pointer
               PROVE  /\ Deref(p) \in Nat
                      /\ (p = <<>> => Deref(p) = 0) /\ (p # <<>> => Deref(p) = p[1].at)
    BY Zenon
  <2>1. p # <<>> => p[1].at \in Nat
    BY Zenon, PointerFields DEF Instant
  <2> QED
    BY Zenon, <2>1 DEF Deref
<1>2. /\ r.id \in Nat /\ r.revision \in Nat /\ r.priority \in Int
      /\ r.from \in Pointer /\ r.until \in Pointer
  BY Zenon, RecordFields
<1>3. Definition(r) \in PolicyDefinition
  BY Zenon, <1>1, <1>2 DEF Definition, PolicyDefinition
<1>4. /\ Definition(r).id = r.id /\ Definition(r).evaluator = TRUE
      /\ Definition(r).revision = r.revision /\ Definition(r).priority = r.priority
      /\ Definition(r).activeFrom = Deref(r.from) /\ Definition(r).activeUntil = Deref(r.until)
  BY Zenon DEF Definition
<1>5. Window(r) => Opens(Definition(r))
  BY Zenon, <1>1, <1>2, <1>4 DEF Window, Opens
<1> QED
  BY Zenon, <1>3, <1>4, <1>5

LEMMA DefinitionsOfManifest ==
    ASSUME NEW m \in ManifestRecord
    PROVE  /\ Definitions(m) \in Seq(PolicyDefinition)
           /\ DOMAIN Definitions(m) = DOMAIN m.policies
           /\ \A i \in DOMAIN m.policies : Definitions(m)[i] = Definition(m.policies[i])
<1>1. \A i \in 1..Len(m.policies) : Definition(m.policies[i]) \in PolicyDefinition
  BY Zenon, ManifestFields, DefinitionOfRecord
<1>2. Len(m.policies) \in Nat /\ DOMAIN m.policies = 1..Len(m.policies)
  BY Zenon, ManifestFields
<1> QED
  BY <1>1, <1>2 DEF Definitions

(* Validate is as strict as NewSnapshot.                                   *)
LEMMA ValidManifestBuilds ==
    ASSUME NEW m \in ManifestRecord, Validate(m) = "none"
    PROVE  NewSnapshot(m.revision, m.algorithm, Definitions(m)).err = "none"
<1>1. m.revision # 0 /\ m.algorithm \in Algorithms
  BY Zenon, ValidateChecks
<1>2. ASSUME NEW i \in DOMAIN m.policies
      PROVE  DefinitionError(Definitions(m), i) = "none"
  <2>1. RecordError(m, i) = "none" /\ m.policies[i] \in Record
    BY Zenon, ValidateChecks, ManifestFields
  <2>2. /\ m.policies[i].id # 0 /\ Window(m.policies[i])
        /\ \A j \in 1..(i-1) : m.policies[j].id # m.policies[i].id
    BY Zenon, <2>1, RecordChecks
  <2>3. \A j \in 1..(i-1) : j \in DOMAIN m.policies /\ m.policies[j] \in Record
    <3>1. \A j \in 1..(i-1) : j \in DOMAIN m.policies
      BY ManifestFields
    <3> QED BY Zenon, <3>1, ManifestFields
  <2>4. \A j \in 1..(i-1) : Definitions(m)[j].id = m.policies[j].id
    BY Zenon, <2>3, DefinitionsOfManifest, DefinitionOfRecord
  <2>5. /\ Definitions(m)[i].id = m.policies[i].id /\ Definitions(m)[i].evaluator
        /\ Opens(Definitions(m)[i])
    BY Zenon, <2>1, <2>2, DefinitionsOfManifest, DefinitionOfRecord
  <2> QED
    BY <2>2, <2>4, <2>5, DefinitionsOfManifest, DefinitionChecks
<1> QED
  BY Zenon, <1>1, <1>2, DefinitionsOfManifest, NewSnapshotChecks

(* What Compile may return before it builds the snapshot.                  *)
LEMMA LoopChecks ==
    ASSUME NEW m \in ManifestRecord
    PROVE  /\ LoopError(m) = "none" <=>
                /\ Validate(m) = "none" /\ Len(m.policies) <= MaxPolicies
                /\ \A i \in DOMAIN m.policies : CompileRecordError(m, i) = "none"
           /\ Validate(m) = "none" /\ Len(m.policies) <= MaxPolicies /\ LoopError(m) # "none" =>
                \E i \in DOMAIN m.policies : LoopError(m) = CompileRecordError(m, i)
<1> DEFINE failing == {i \in 1..Len(m.policies) : CompileRecordError(m, i) # "none"}
<1>1. LoopError(m) =
        IF Validate(m) # "none" THEN Validate(m)
        ELSE IF Len(m.policies) > MaxPolicies THEN "ErrPolicyLimitExceeded"
        ELSE IF failing = {} THEN "none" ELSE CompileRecordError(m, Min(failing))
  BY Zenon DEF LoopError, FirstFailure
<1>2. failing # {} => Min(failing) \in DOMAIN m.policies /\ CompileRecordError(m, Min(failing)) # "none"
  <2>1. failing \subseteq Nat
    OBVIOUS
  <2>2. failing # {} => Min(failing) \in failing
    <3> HIDE DEF failing
    <3> QED BY Zenon, <2>1, MinOfNats
  <2> QED
    BY Zenon, <2>2, ManifestFields
<1>3. failing = {} <=> \A i \in DOMAIN m.policies : CompileRecordError(m, i) = "none"
  BY Zenon, ManifestFields
<1>4. Len(m.policies) \in Nat /\ MaxPolicies \in Nat
  BY Zenon, ManifestFields, RolloutAssumption
<1> HIDE DEF failing
<1> QED
  BY <1>1, <1>2, <1>3, <1>4

(* What compiles is valid and well built.                                  *)
LEMMA CompiledIsBuilt ==
    ASSUME NEW m \in ManifestRecord, Compile(m).err = "none"
    PROVE  /\ Validate(m) = "none" /\ LoopError(m) = "none"
           /\ Compile(m).snapshot.algorithm = m.algorithm
           /\ WellBuilt(Compile(m).snapshot, m.revision, Definitions(m))
<1> DEFINE built == NewSnapshot(m.revision, m.algorithm, Definitions(m))
<1>1. Compile(m) = [err |-> IF LoopError(m) # "none" THEN LoopError(m) ELSE built.err,
                    snapshot |-> built.snapshot]
  BY Zenon DEF Compile, Definitions
<1>2. LoopError(m) = "none" /\ built.err = "none" /\ Compile(m).snapshot = built.snapshot
  <2> HIDE DEF built
  <2> QED BY <1>1
<1>3. Validate(m) = "none"
  BY Zenon, <1>2, LoopChecks
<1>4. WellBuilt(built.snapshot, m.revision, Definitions(m))
  BY Zenon, <1>2, ManifestFields, DefinitionsOfManifest, NewSnapshotBuildsWell
<1>5. built.snapshot.algorithm = m.algorithm
  BY Zenon DEF NewSnapshot
<1> QED
  BY Zenon, <1>2, <1>3, <1>4, <1>5

LEMMA LoopSucceeds ==
    ASSUME NEW m \in ManifestRecord, LoopError(m) = "none"
    PROVE  Compile(m).err = "none"
<1>1. NewSnapshot(m.revision, m.algorithm, Definitions(m)).err = "none"
  BY Zenon, LoopChecks, ValidManifestBuilds
<1> QED
  BY Zenon, <1>1 DEF Compile, Definitions

-----------------------------------------------------------------------------
(* The manifests of a rollout                                              *)

Records == SoundRecords \cup FlawedRecords

(* Manifests are made of the records at hand, and the current one compiles. *)
RolloutInv ==
    /\ current \in ManifestRecord /\ candidate \in ManifestRecord
    /\ Range(current.policies) \cup Range(candidate.policies) \subseteq Records
    /\ Compile(current).err = "none"

LEMMA DraftFields ==
    ASSUME NEW revision \in Nat, NEW algorithm \in Algorithms \cup {"unknown"}
    PROVE  /\ Draft(revision, algorithm, TRUE) \in ManifestRecord
           /\ Draft(revision, algorithm, TRUE).policies = <<>>
BY DEF Draft, ManifestRecord

LEMMA NothingListed == Range(<<>>) = {}
BY DEF Range

LEMMA RolloutInitial == Init => RolloutInv
<1> SUFFICES ASSUME Init PROVE RolloutInv
  BY Zenon
<1>1. /\ current = Draft(1, "DenyOverrides", TRUE)
      /\ candidate \in ManifestRecord /\ candidate.policies = <<>>
  <2>1. \/ \E algorithm \in DraftAlgorithms : candidate = Draft(2, algorithm, TRUE)
        \/ candidate = Draft(0, "PriorityOrder", TRUE)
        \/ candidate = Draft(2, "PriorityOrder", FALSE)
    BY Zenon DEF Init
  <2>2. DraftAlgorithms \subseteq Algorithms \cup {"unknown"}
    BY Zenon, RolloutAssumption
  <2>3. CASE \E algorithm \in DraftAlgorithms : candidate = Draft(2, algorithm, TRUE)
    <3>1. PICK algorithm \in DraftAlgorithms : candidate = Draft(2, algorithm, TRUE)
      BY Zenon, <2>3
    <3>2. algorithm \in Algorithms \cup {"unknown"}
      BY Zenon, <2>2
    <3>3. candidate \in ManifestRecord /\ candidate.policies = <<>>
      BY <3>1, <3>2 DEF Draft, ManifestRecord
    <3> QED
      BY Zenon, <3>3 DEF Init
  <2>4. CASE candidate = Draft(0, "PriorityOrder", TRUE)
    BY <2>4 DEF Init, Draft, ManifestRecord, Algorithms
  <2>5. CASE candidate = Draft(2, "PriorityOrder", FALSE)
    BY <2>5 DEF Init, Draft, ManifestRecord, Algorithms
  <2> QED
    BY Zenon, <2>1, <2>3, <2>4, <2>5
<1>2. current \in ManifestRecord /\ current.policies = <<>>
  BY Zenon, <1>1 DEF Draft, ManifestRecord, Algorithms
<1>3. Compile(current).err = "none"
  <2>1. current.formatV1 = TRUE /\ current.revision = 1 /\ current.algorithm = "DenyOverrides"
    BY Zenon, <1>1 DEF Draft
  <2>2. DOMAIN current.policies = {} /\ Len(current.policies) = 0
    BY <1>2
  <2>3. Validate(current) = "none"
    BY <1>2, <2>1, <2>2, ValidateChecks DEF Algorithms
  <2>4. LoopError(current) = "none"
    BY <1>2, <2>2, <2>3, LoopChecks, RolloutAssumption
  <2> QED
    BY Zenon, <1>2, <2>4, LoopSucceeds
<1> QED
  BY Zenon, <1>1, <1>2, <1>3, NothingListed DEF RolloutInv

LEMMA RolloutStep ==
    ASSUME RolloutInv, [Next]_vars
    PROVE  RolloutInv'
<1>1. CASE AddRecord
  <2>1. PICK r \in Records : candidate' = [candidate EXCEPT !.policies = Append(@, r)]
    BY Zenon, <1>1 DEF AddRecord, Records
  <2>2. current' = current
    BY Zenon, <1>1 DEF AddRecord
  <2>3. r \in Record /\ candidate.policies \in Seq(Record)
    BY Zenon, RolloutAssumption DEF RolloutInv, Records, ManifestRecord
  <2>4. /\ Append(candidate.policies, r) \in Seq(Record)
        /\ Range(Append(candidate.policies, r)) \subseteq Range(candidate.policies) \cup {r}
    BY <2>3 DEF Range
  <2>5. candidate' \in ManifestRecord /\ candidate'.policies = Append(candidate.policies, r)
    BY Zenon, <2>1, <2>4 DEF RolloutInv, ManifestRecord
  <2> QED
    BY Zenon, <2>2, <2>4, <2>5 DEF RolloutInv
<1>2. CASE Activate
  <2>1. /\ current' = candidate /\ Compile(candidate).err = "none"
        /\ \E algorithm \in DraftAlgorithms :
             candidate' = Draft(candidate.revision + 1, algorithm, TRUE)
    BY Zenon, <1>2 DEF Activate
  <2>2. candidate.revision + 1 \in Nat /\ DraftAlgorithms \subseteq Algorithms \cup {"unknown"}
    BY RolloutAssumption DEF RolloutInv, ManifestRecord
  <2>3. candidate' \in ManifestRecord /\ candidate'.policies = <<>>
    BY Zenon, <2>1, <2>2, DraftFields
  <2> QED
    BY Zenon, <2>1, <2>3, NothingListed DEF RolloutInv
<1>3. CASE UNCHANGED vars
  BY Zenon, <1>3 DEF vars, RolloutInv
<1> QED
  BY Zenon, <1>1, <1>2, <1>3 DEF Next

(* Whatever is drafted and activated, the manifests are typed and the      *)
(* current one compiles (Rollout over Compile of policy/compiler.go).      *)
THEOREM RolloutInvariant == Spec => []RolloutInv
BY RolloutInitial, RolloutStep, PTL DEF Spec

-----------------------------------------------------------------------------
(* What compiles is usable                                                 *)

(* Validate lets nothing through that NewSnapshot refuses, and what is     *)
(* built has distinct IDs, positive revisions and windows that open.       *)
THEOREM CompiledUsable == Spec => []CompiledManifestsAreUsable
<1>1. ASSUME RolloutInv PROVE CompiledManifestsAreUsable
  <2>1. candidate \in ManifestRecord
    BY Zenon, <1>1 DEF RolloutInv
  <2>2. LoopError(candidate) = "none" => Compiled.err = "none"
    BY Zenon, <2>1, LoopSucceeds DEF Compiled
  <2>3. ASSUME Compiled.err = "none"
        PROVE  LET policies == Compiled.snapshot.policies IN
               /\ Len(policies) = Len(candidate.policies)
               /\ \A i, j \in DOMAIN policies : policies[i].id = policies[j].id => i = j
               /\ \A i \in DOMAIN policies :
                    /\ policies[i].revision > 0
                    /\ ActiveAt(policies[i], policies[i].activeFrom)
    <3> DEFINE policies == Compiled.snapshot.policies
    <3>1. WellBuilt(Compiled.snapshot, candidate.revision, Definitions(candidate))
      BY Zenon, <2>1, <2>3, CompiledIsBuilt DEF Compiled
    <3>2. /\ policies \in Seq(Policy) /\ DOMAIN policies = DOMAIN candidate.policies
          /\ \A i, j \in DOMAIN policies : policies[i].id = policies[j].id => i = j
          /\ \A i \in DOMAIN policies :
               policies[i].revision # 0 /\ ActiveAt(policies[i], policies[i].activeFrom)
      BY Zenon, <2>1, <3>1, DefinitionsOfManifest DEF WellBuilt, SnapshotRecord
    <3> HIDE DEF policies
    <3>3. \A i \in DOMAIN policies : policies[i].revision > 0
      <4>1. \A i \in DOMAIN policies : policies[i].revision \in Nat
        <5>1. \A p \in Policy : p.revision \in Nat
          BY Zenon DEF Policy
        <5> QED BY <3>2, <5>1
      <4> QED BY <3>2, <4>1
    <3>4. Len(policies) = Len(candidate.policies)
      <4>1. candidate.policies \in Seq(Record)
        BY Zenon, <2>1, ManifestFields
      <4> QED BY <3>2, <4>1
    <3> QED
      BY Zenon, <3>2, <3>3, <3>4 DEF policies
  <2> QED
    BY Zenon, <2>2, <2>3 DEF CompiledManifestsAreUsable
<1> QED
  BY <1>1, RolloutInvariant, PTL

-----------------------------------------------------------------------------
(* Sums                                                                    *)

(* g[s] adds up f over s, for every part s of S, in some order.            *)
IsSum(g, f, S) ==
    /\ IsFiniteSet(S) /\ \A x \in S : f[x] \in Nat
    /\ g[{}] = 0
    /\ \A s \in SUBSET S : s # {} => \E x \in s : g[s] = f[x] + g[s \ {x}]

LEMMA SmallerSets ==
    ASSUME NEW S, IsFiniteSet(S), NEW s \in SUBSET S
    PROVE  /\ IsFiniteSet(s) /\ Cardinality(s) \in Nat /\ Cardinality(s) <= Cardinality(S)
           /\ \A x \in s : s \ {x} \in SUBSET S /\ Cardinality(s \ {x}) = Cardinality(s) - 1
<1>1. IsFiniteSet(s) /\ Cardinality(s) <= Cardinality(S)
  BY Zenon, FS_Subset
<1>2. Cardinality(s) \in Nat
  BY Zenon, <1>1, FS_CardinalityType
<1> QED
  BY Zenon, <1>1, <1>2, FS_RemoveElement

(* The order does not matter.                                              *)
LEMMA SumPeels ==
    ASSUME NEW S, NEW f, NEW g, IsSum(g, f, S)
    PROVE  \A s \in SUBSET S : g[s] \in Nat /\ \A x \in s : g[s] = f[x] + g[s \ {x}]
<1>0. IsFiniteSet(S) /\ \A x \in S : f[x] \in Nat
  BY Zenon DEF IsSum
<1> DEFINE Good(s) == g[s] \in Nat /\ \A x \in s : g[s] = f[x] + g[s \ {x}]
           Bad == {k \in Nat : \E s \in SUBSET S : Cardinality(s) = k /\ ~Good(s)}
<1> SUFFICES ASSUME Bad # {} PROVE FALSE
  BY Zenon, <1>0, SmallerSets
<1>1. PICK k \in Bad : \A j \in Bad : k <= j
  BY Zenon, LeastNat
<1>2. PICK s \in SUBSET S : Cardinality(s) = k /\ k \in Nat /\ ~Good(s)
  BY Zenon, <1>1
<1>3. \A r \in SUBSET S : Cardinality(r) < k => Good(r)
  BY <1>1, <1>0, SmallerSets
<1> HIDE DEF Bad
<1>4. \A x \in s : Good(s \ {x}) /\ s \ {x} \in SUBSET S
  <2> HIDE DEF Good
  <2>1. \A x \in s : s \ {x} \in SUBSET S /\ Cardinality(s \ {x}) = k - 1
    BY Zenon, <1>0, <1>2, SmallerSets
  <2>2. k - 1 < k
    BY <1>2
  <2> QED
    BY Zenon, <1>3, <2>1, <2>2
<1>5. CASE s = {}
  BY <1>2, <1>5 DEF IsSum
<1>6. CASE s # {}
  <2>1. PICK y \in s : g[s] = f[y] + g[s \ {y}]
    BY Zenon, <1>6 DEF IsSum
  <2>2. \A x \in s : f[x] \in Nat /\ g[s \ {x}] \in Nat
    BY Zenon, <1>0, <1>4
  <2>3. ASSUME NEW x \in s, x # y PROVE g[s] = f[x] + g[s \ {x}]
    <3>1. g[s \ {y}] = f[x] + g[(s \ {y}) \ {x}]
      BY Zenon, <1>4, <2>3
    <3>2. g[s \ {x}] = f[y] + g[(s \ {x}) \ {y}]
      BY Zenon, <1>4, <2>3
    <3>3. (s \ {y}) \ {x} = (s \ {x}) \ {y}
      BY Zenon
    <3>4. g[(s \ {x}) \ {y}] \in Nat
      <4>1. Cardinality((s \ {x}) \ {y}) < k /\ (s \ {x}) \ {y} \in SUBSET S
        <5>1. Cardinality(s \ {x}) = k - 1 /\ s \ {x} \in SUBSET S /\ y \in s \ {x}
          BY Zenon, <1>2, <2>3, <1>0, SmallerSets
        <5>2. /\ Cardinality((s \ {x}) \ {y}) = Cardinality(s \ {x}) - 1
              /\ (s \ {x}) \ {y} \in SUBSET S
          BY Zenon, <5>1, <1>0, SmallerSets
        <5> QED BY <1>2, <5>1, <5>2
      <4> QED BY Zenon, <1>3, <4>1
    <3> DEFINE rest == g[(s \ {x}) \ {y}]
               a == f[x]
               b == f[y]
    <3>5. g[s \ {y}] = a + rest /\ g[s \ {x}] = b + rest /\ g[s] = b + g[s \ {y}]
      BY Zenon, <2>1, <3>1, <3>2, <3>3
    <3>6. a \in Nat /\ b \in Nat /\ rest \in Nat
      BY Zenon, <2>2, <3>4
    <3> HIDE DEF a, b, rest
    <3>7. b + (a + rest) = a + (b + rest)
      BY <3>6
    <3>8. g[s] = a + g[s \ {x}]
      BY Zenon, <3>5, <3>7
    <3> QED
      BY Zenon, <3>8 DEF a
  <2>4. g[s] \in Nat
    <3> DEFINE a == f[y]
               rest == g[s \ {y}]
    <3>1. a \in Nat /\ rest \in Nat
      BY Zenon, <2>2
    <3> HIDE DEF a, rest
    <3>2. a + rest \in Nat
      BY <3>1
    <3> QED BY Zenon, <2>1, <3>2 DEF a, rest
  <2>5. \A x \in s : g[s] = f[x] + g[s \ {x}]
    BY Zenon, <2>1, <2>3
  <2> QED
    BY Zenon, <1>2, <2>4, <2>5
<1> QED
  BY Zenon, <1>5, <1>6

(* Sums of equal numbers agree.                                            *)
LEMMA SumsAgree ==
    ASSUME NEW S, NEW f, NEW g, IsSum(g, f, S), NEW T, NEW e, NEW h, IsSum(h, e, T),
           S \subseteq T, \A x \in S : f[x] = e[x]
    PROVE  g[S] = h[S]
<1> DEFINE Bad == {k \in Nat : \E s \in SUBSET S : Cardinality(s) = k /\ g[s] # h[s]}
<1>0. IsFiniteSet(S)
  BY Zenon DEF IsSum
<1> SUFFICES ASSUME Bad # {} PROVE FALSE
  BY Zenon, <1>0, SmallerSets
<1>1. PICK k \in Bad : \A j \in Bad : k <= j
  BY Zenon, LeastNat
<1>2. PICK s \in SUBSET S : Cardinality(s) = k /\ k \in Nat /\ g[s] # h[s]
  BY Zenon, <1>1
<1>3. \A r \in SUBSET S : Cardinality(r) < k => g[r] = h[r]
  BY <1>0, <1>1, SmallerSets
<1> HIDE DEF Bad
<1>4. s # {}
  BY Zenon, <1>2 DEF IsSum
<1>5. PICK x \in s : g[s] = f[x] + g[s \ {x}]
  BY Zenon, <1>4 DEF IsSum
<1>6. h[s] = e[x] + h[s \ {x}]
  <2>1. s \in SUBSET T
    BY Zenon
  <2> QED BY <2>1, SumPeels
<1>7. g[s \ {x}] = h[s \ {x}]
  BY <1>0, <1>2, <1>3, SmallerSets
<1> QED
  BY Zenon, <1>2, <1>5, <1>6, <1>7

Peels(g, f, S) ==
    \A s \in SUBSET S : g[s] \in Nat /\ \A x \in s : g[s] = f[x] + g[s \ {x}]

LEMMA SumPeeled ==
    ASSUME NEW S, NEW f, NEW g, IsSum(g, f, S)
    PROVE  Peels(g, f, S)
BY SumPeels DEF Peels

(* Sums of smaller numbers are smaller.                                    *)
LEMMA SumsBounded ==
    ASSUME NEW S, NEW f, NEW g, IsSum(g, f, S), NEW e, NEW h, IsSum(h, e, S),
           \A x \in S : f[x] <= e[x]
    PROVE  g[S] <= h[S]
<1> DEFINE Bad == {k \in Nat : \E s \in SUBSET S : Cardinality(s) = k /\ ~(g[s] <= h[s])}
<1>0. IsFiniteSet(S) /\ \A x \in S : f[x] \in Nat /\ e[x] \in Nat
  BY Zenon DEF IsSum
<1> SUFFICES ASSUME Bad # {} PROVE FALSE
  BY Zenon, <1>0, SmallerSets
<1>1. PICK k \in Bad : \A j \in Bad : k <= j
  BY Zenon, LeastNat
<1>2. PICK s \in SUBSET S : Cardinality(s) = k /\ k \in Nat /\ ~(g[s] <= h[s])
  BY Zenon, <1>1
<1>3. \A r \in SUBSET S : Cardinality(r) < k => g[r] <= h[r]
  BY <1>0, <1>1, SmallerSets
<1> HIDE DEF Bad
<1>4. s # {}
  <2>1. g[{}] = 0 /\ h[{}] = 0
    BY Zenon DEF IsSum
  <2> DEFINE y == g[s]
             z == h[s]
  <2>2. ~(y <= z) /\ (s = {} => y = 0 /\ z = 0)
    BY Zenon, <1>2, <2>1
  <2> HIDE DEF y, z
  <2> QED BY <2>2
<1>5. PICK x \in s : g[s] = f[x] + g[s \ {x}]
  BY Zenon, <1>4 DEF IsSum
<1>6. h[s] = e[x] + h[s \ {x}] /\ h[s \ {x}] \in Nat /\ g[s \ {x}] \in Nat
  <2>1. s \ {x} \in SUBSET S
    BY Zenon
  <2>2. \A r \in SUBSET S : h[r] \in Nat /\ \A y \in r : h[r] = e[y] + h[r \ {y}]
    <3>1. Peels(h, e, S)
      BY Zenon, SumPeeled
    <3> QED BY Zenon, <3>1 DEF Peels
  <2>3. \A r \in SUBSET S : g[r] \in Nat
    <3>1. Peels(g, f, S)
      BY Zenon, SumPeeled
    <3> QED BY Zenon, <3>1 DEF Peels
  <2> QED BY Zenon, <2>1, <2>2, <2>3
<1>7. g[s \ {x}] <= h[s \ {x}]
  BY <1>0, <1>2, <1>3, SmallerSets
<1> DEFINE a == g[s \ {x}]
           b == h[s \ {x}]
           c == f[x]
           d == e[x]
<1>8. a \in Nat /\ b \in Nat /\ c \in Nat /\ d \in Nat /\ a <= b /\ c <= d
  BY Zenon, <1>0, <1>6, <1>7
<1>9. g[s] = c + a /\ h[s] = d + b
  BY Zenon, <1>5, <1>6
<1> HIDE DEF a, b, c, d
<1>10. c + a <= d + b
  BY <1>8
<1> QED
  BY Zenon, <1>2, <1>9, <1>10

(* g adds up f over the subsets of S in the order of the choices c.        *)
AddsUp(g, f, c, S) ==
    /\ g = [s \in SUBSET S |-> g[s]]
    /\ g[{}] = 0
    /\ \A s \in SUBSET S : s # {} => g[s] = f[c[s]] + g[s \ {c[s]}]

(* However elements are chosen, there is such a sum.                       *)
LEMMA SumExists ==
    ASSUME NEW S, IsFiniteSet(S), NEW f, \A x \in S : f[x] \in Nat, NEW c,
           \A s \in SUBSET S : s # {} => c[s] \in s
    PROVE  \E g : AddsUp(g, f, c, S)
<1> DEFINE Step(g, s) == IF s = {} THEN 0 ELSE f[c[s]] + g[s \ {c[s]}]
           Upto(g, k) == \A s \in SUBSET S : Cardinality(s) <= k => g[s] = Step(g, s)
           Bad == {k \in Nat : ~(\E g : Upto(g, k))}
<1>1. Bad = {}
  <2> SUFFICES ASSUME Bad # {} PROVE FALSE
    BY Zenon
  <2>1. PICK k \in Bad : \A j \in Bad : k <= j
    BY Zenon, LeastNat
  <2>2. CASE k = 0
    <3> DEFINE zero == [s \in SUBSET S |-> 0]
    <3>1. ASSUME NEW s \in SUBSET S, Cardinality(s) <= 0 PROVE zero[s] = Step(zero, s)
      <4>1. s = {}
        BY <3>1, SmallerSets, FS_EmptySet
      <4> QED BY Zenon, <4>1
    <3> HIDE DEF zero
    <3>2. Upto(zero, 0)
      BY Zenon, <3>1
    <3> QED BY Zenon, <2>1, <2>2, <3>2
  <2>3. CASE k # 0
    <3>1. k - 1 \in Nat /\ k - 1 \notin Bad
      <4>1. k \in Nat /\ Bad \subseteq Nat
        BY Zenon
      <4> HIDE DEF Bad
      <4> QED BY <2>1, <2>3, <4>1
    <3>2. PICK g : Upto(g, k - 1)
      BY Zenon, <3>1
    <3> DEFINE h == [s \in SUBSET S |-> Step(g, s)]
    <3>3. ASSUME NEW s \in SUBSET S, Cardinality(s) <= k PROVE h[s] = Step(h, s)
      <4>1. CASE s = {}
        BY Zenon, <4>1
      <4>2. CASE s # {}
        <5> DEFINE r == s \ {c[s]}
        <5>1. c[s] \in s /\ r \in SUBSET S /\ Cardinality(r) <= k - 1
          <6>1. c[s] \in s
            BY Zenon, <4>2
          <6>2. r \in SUBSET S /\ Cardinality(r) = Cardinality(s) - 1 /\ Cardinality(s) \in Nat
            BY Zenon, <6>1, SmallerSets
          <6> QED BY <2>1, <3>3, <6>1, <6>2
        <5>2. g[r] = Step(g, r)
          BY Zenon, <3>2, <5>1
        <5>3. h[r] = Step(g, r)
          BY Zenon, <5>1
        <5>4. h[s] = f[c[s]] + g[r] /\ Step(h, s) = f[c[s]] + h[r]
          BY Zenon, <4>2
        <5> QED
          BY Zenon, <5>2, <5>3, <5>4
      <4> QED BY Zenon, <4>1, <4>2
    <3> HIDE DEF h
    <3>4. Upto(h, k)
      BY Zenon, <3>3
    <3> QED BY Zenon, <2>1, <3>4
  <2> QED BY Zenon, <2>2, <2>3
<1>2. Cardinality(S) \in Nat
  BY Zenon, FS_CardinalityType
<1>3. PICK g : Upto(g, Cardinality(S))
  BY Zenon, <1>1, <1>2
<1> DEFINE h == [s \in SUBSET S |-> g[s]]
<1>4. ASSUME NEW s \in SUBSET S PROVE h[s] = Step(h, s)
  <2>1. g[s] = Step(g, s)
    BY Zenon, <1>3, SmallerSets
  <2>2. s # {} => s \ {c[s]} \in SUBSET S
    BY Zenon
  <2> QED BY Zenon, <2>1, <2>2
<1>5. h = [s \in SUBSET S |-> h[s]] /\ {} \in SUBSET S
  BY Zenon
<1> HIDE DEF h
<1>6. AddsUp(h, f, c, S)
  BY Zenon, <1>4, <1>5 DEF AddsUp
<1> QED
  BY Zenon, <1>6

(* FoldFunctionOnSet(+, ...) is a sum.                                     *)
LEMMA FoldSums ==
    ASSUME NEW S, IsFiniteSet(S), NEW f, \A x \in S : f[x] \in Nat
    PROVE  \E g : IsSum(g, f, S) /\ FoldFunctionOnSet(+, 0, f, S) = g[S]
<1> DEFINE c == [s \in SUBSET S |-> CHOOSE x \in s : TRUE]
           F(g) == [s \in SUBSET S |-> IF s = {} THEN 0
                                      ELSE f[CHOOSE x \in s : TRUE] + g[s \ {CHOOSE x \in s : TRUE}]]
           h == CHOOSE g : g = F(g)
<1>1. \A s \in SUBSET S : s # {} => c[s] \in s
  BY Zenon
<1>2. \A g : \A s \in SUBSET S :
         F(g)[s] = IF s = {} THEN 0 ELSE f[c[s]] + g[s \ {c[s]}]
  OBVIOUS
<1>3. FoldFunctionOnSet(+, 0, f, S) = h[S]
  BY Zenon DEF FoldFunctionOnSet, MapThenFoldSet
<1>4. \A g : F(g) = [s \in SUBSET S |-> F(g)[s]]
  OBVIOUS
<1> HIDE DEF c, F
<1>5. \E g : g = F(g)
  <2>1. PICK g : AddsUp(g, f, c, S)
    BY Zenon, <1>1, SumExists
  <2>2. \A s \in SUBSET S : g[s] = F(g)[s]
    BY Zenon, <1>2, <2>1 DEF AddsUp
  <2>3. g = F(g)
    BY Zenon, <1>4, <2>1, <2>2 DEF AddsUp
  <2> QED BY Zenon, <2>3
<1>6. h = F(h)
  BY Zenon, <1>5
<1> HIDE DEF h
<1>7. \A s \in SUBSET S : h[s] = IF s = {} THEN 0 ELSE f[c[s]] + h[s \ {c[s]}]
  BY Zenon, <1>2, <1>6
<1>8. IsSum(h, f, S)
  <2>1. h[{}] = 0 /\ \A s \in SUBSET S : s # {} => \E x \in s : h[s] = f[x] + h[s \ {x}]
    BY Zenon, <1>1, <1>7
  <2> QED BY Zenon, <2>1 DEF IsSum
<1> QED
  BY Zenon, <1>3, <1>8

-----------------------------------------------------------------------------
(* What Encode emits                                                       *)

LEMMA WrittenPointerParts ==
    ASSUME NEW p \in Pointer
    PROVE  LET w == WrittenPointer(p) IN
           /\ w \in Pointer /\ DOMAIN w = DOMAIN p /\ (w = <<>> <=> p = <<>>)
           /\ \A i \in DOMAIN p : /\ w[i].at = p[i].written /\ w[i].written = p[i].written
                                  /\ w[i].writable = p[i].writable
           /\ WrittenPointer(w) = w
           /\ (\A i \in DOMAIN p : p[i].written = p[i].at) => w = p
<1> DEFINE w == WrittenPointer(p)
           W(t) == [t EXCEPT !.at = t.written]
<1>1. \A t \in Instant : /\ W(t) \in Instant /\ W(t).at = t.written /\ W(t).written = t.written
                         /\ W(t).writable = t.writable /\ W(W(t)) = W(t)
                         /\ t.written = t.at => W(t) = t
  BY Zenon DEF Instant
<1>2. /\ p \in Seq(Instant) /\ DOMAIN p = 1..Len(p) /\ Len(p) \in {0, 1}
      /\ \A i \in DOMAIN p : p[i] \in Instant
  BY Zenon, PointerFields
<1>3. w = [i \in DOMAIN p |-> W(p[i])]
  BY Zenon DEF WrittenPointer
<1>4. WrittenPointer(w) = [i \in DOMAIN w |-> W(w[i])]
  BY Zenon DEF WrittenPointer
<1> HIDE DEF w, W
<1>5. w \in Seq(Instant) /\ DOMAIN w = DOMAIN p /\ Len(w) = Len(p) /\ \A i \in DOMAIN p : w[i] = W(p[i])
  BY <1>1, <1>2, <1>3
<1>6. w \in Pointer /\ (w = <<>> <=> p = <<>>)
  BY <1>2, <1>5 DEF Pointer
<1>7. WrittenPointer(w) = w
  BY Zenon, <1>1, <1>2, <1>3, <1>4, <1>5
<1>8. (\A i \in DOMAIN p : p[i].written = p[i].at) => w = p
  <2>1. p = [i \in DOMAIN p |-> p[i]]
    BY <1>2
  <2> QED BY Zenon, <1>1, <1>2, <1>3, <2>1
<1> QED
  BY Zenon, <1>1, <1>2, <1>5, <1>6, <1>7, <1>8 DEF w

LEMMA LaidOutParts ==
    ASSUME NEW d \in Document
    PROVE  /\ LaidOut(d) \in Document /\ LaidOut(LaidOut(d)) = LaidOut(d)
           /\ LaidOut(d).object = d.object /\ LaidOut(d).writable = d.writable
           /\ LaidOut(d).laidOut = d.laidOut /\ LaidOut(d).decodes = d.relaid
BY Zenon DEF LaidOut, Document

(* What encoding/json does to the IDs of a manifest.                       *)
CoercedIDs(m) ==
    \A i \in DOMAIN m.policies :
        LET id == m.policies[i].id IN
        UTF8[id] \in Nat /\ (UTF8[id] = 0 => id = 0) /\ UTF8[UTF8[id]] = UTF8[id]

LEMMA IDReplaced ==
    ASSUME NEW x \in Record, NEW v \in Nat
    PROVE  LET y == [x EXCEPT !.id = v] IN
           /\ y \in Record /\ y.id = v
           /\ y.revision = x.revision /\ y.model = x.model /\ y.priority = x.priority
           /\ y.from = x.from /\ y.until = x.until /\ y.document = x.document
           /\ v = x.id => y = x
BY Zenon DEF Record

LEMMA FromReplaced ==
    ASSUME NEW x \in Record, NEW v \in Pointer
    PROVE  LET y == [x EXCEPT !.from = v] IN
           /\ y \in Record /\ y.from = v
           /\ y.id = x.id /\ y.revision = x.revision /\ y.model = x.model
           /\ y.priority = x.priority /\ y.until = x.until /\ y.document = x.document
           /\ v = x.from => y = x
BY Zenon DEF Record

LEMMA UntilReplaced ==
    ASSUME NEW x \in Record, NEW v \in Pointer
    PROVE  LET y == [x EXCEPT !.until = v] IN
           /\ y \in Record /\ y.until = v
           /\ y.id = x.id /\ y.revision = x.revision /\ y.model = x.model
           /\ y.priority = x.priority /\ y.from = x.from /\ y.document = x.document
           /\ v = x.until => y = x
BY Zenon DEF Record

LEMMA DocumentReplaced ==
    ASSUME NEW x \in Record, NEW v \in Document
    PROVE  LET y == [x EXCEPT !.document = v] IN
           /\ y \in Record /\ y.document = v
           /\ y.id = x.id /\ y.revision = x.revision /\ y.model = x.model
           /\ y.priority = x.priority /\ y.from = x.from /\ y.until = x.until
           /\ v = x.document => y = x
BY Zenon DEF Record

LEMMA WrittenRecordParts ==
    ASSUME NEW r \in Record, UTF8[r.id] \in Nat, UTF8[UTF8[r.id]] = UTF8[r.id]
    PROVE  LET w == WrittenRecord(r) IN
           /\ w \in Record /\ w.id = UTF8[r.id] /\ w.revision = r.revision
           /\ w.model = r.model /\ w.priority = r.priority
           /\ w.from = WrittenPointer(r.from) /\ w.until = WrittenPointer(r.until)
           /\ w.document = LaidOut(r.document)
           /\ WrittenRecord(w) = w
<1> DEFINE w == WrittenRecord(r)
           a == [r EXCEPT !.id = UTF8[r.id]]
           b == [a EXCEPT !.from = WrittenPointer(r.from)]
           c == [b EXCEPT !.until = WrittenPointer(r.until)]
           d == [c EXCEPT !.document = LaidOut(r.document)]
<1>1. r.from \in Pointer /\ r.until \in Pointer /\ r.document \in Document
  BY Zenon, RecordFields
<1>2. /\ WrittenPointer(r.from) \in Pointer /\ WrittenPointer(WrittenPointer(r.from)) = WrittenPointer(r.from)
      /\ WrittenPointer(r.until) \in Pointer /\ WrittenPointer(WrittenPointer(r.until)) = WrittenPointer(r.until)
      /\ LaidOut(r.document) \in Document /\ LaidOut(LaidOut(r.document)) = LaidOut(r.document)
  BY Zenon, <1>1, WrittenPointerParts, LaidOutParts
<1>3. w = d
  BY Zenon DEF WrittenRecord
<1>4. /\ a \in Record /\ a.id = UTF8[r.id] /\ a.revision = r.revision /\ a.model = r.model
      /\ a.priority = r.priority
  BY Zenon, IDReplaced
<1> HIDE DEF a
<1>5. /\ b \in Record /\ b.from = WrittenPointer(r.from) /\ b.id = a.id
      /\ b.revision = a.revision /\ b.model = a.model /\ b.priority = a.priority
  BY Zenon, <1>2, <1>4, FromReplaced
<1> HIDE DEF b
<1>6. /\ c \in Record /\ c.until = WrittenPointer(r.until) /\ c.id = b.id /\ c.from = b.from
      /\ c.revision = b.revision /\ c.model = b.model /\ c.priority = b.priority
  BY Zenon, <1>2, <1>5, UntilReplaced
<1> HIDE DEF c
<1>7. /\ d \in Record /\ d.document = LaidOut(r.document) /\ d.id = c.id /\ d.from = c.from
      /\ d.until = c.until /\ d.revision = c.revision /\ d.model = c.model
      /\ d.priority = c.priority
  BY Zenon, <1>2, <1>6, DocumentReplaced
<1> HIDE DEF d, w
<1>8. /\ w \in Record /\ w.id = UTF8[r.id] /\ w.revision = r.revision /\ w.model = r.model
      /\ w.priority = r.priority
      /\ w.from = WrittenPointer(r.from) /\ w.until = WrittenPointer(r.until)
      /\ w.document = LaidOut(r.document)
  BY Zenon, <1>3, <1>4, <1>5, <1>6, <1>7
<1>9. WrittenRecord(w) = w
  <2>1. /\ UTF8[w.id] = w.id /\ WrittenPointer(w.from) = w.from /\ WrittenPointer(w.until) = w.until
        /\ LaidOut(w.document) = w.document
    BY Zenon, <1>2, <1>8
  <2>2. w.id \in Nat /\ w.from \in Pointer /\ w.until \in Pointer /\ w.document \in Document
    BY Zenon, <1>2, <1>8
  <2>3. /\ [w EXCEPT !.id = w.id] = w /\ [w EXCEPT !.from = w.from] = w
        /\ [w EXCEPT !.until = w.until] = w /\ [w EXCEPT !.document = w.document] = w
    BY Zenon, <1>8, <2>2, IDReplaced, FromReplaced, UntilReplaced, DocumentReplaced
  <2>4. WrittenRecord(w) =
          [[[[w EXCEPT !.id = UTF8[w.id]] EXCEPT !.from = WrittenPointer(w.from)]
              EXCEPT !.until = WrittenPointer(w.until)] EXCEPT !.document = LaidOut(w.document)]
    BY Zenon DEF WrittenRecord
  <2> QED
    BY Zenon, <2>1, <2>3, <2>4
<1> QED
  BY Zenon, <1>8, <1>9 DEF w

LEMMA WrittenManifest ==
    ASSUME NEW m \in ManifestRecord, CoercedIDs(m)
    PROVE  LET w == Written(m) IN
           /\ w \in ManifestRecord /\ w.formatV1 = m.formatV1 /\ w.revision = m.revision
           /\ w.algorithm = m.algorithm /\ DOMAIN w.policies = DOMAIN m.policies
           /\ Len(w.policies) = Len(m.policies)
           /\ \A i \in DOMAIN m.policies : w.policies[i] = WrittenRecord(m.policies[i])
           /\ CoercedIDs(w) /\ Written(w) = w
<1> DEFINE w == Written(m)
           q == [i \in DOMAIN m.policies |-> WrittenRecord(m.policies[i])]
<1>1. w = [m EXCEPT !.policies = q]
  BY Zenon DEF Written
<1>2. \A i \in DOMAIN m.policies :
        /\ m.policies[i] \in Record /\ WrittenRecord(m.policies[i]) \in Record
        /\ WrittenRecord(m.policies[i]).id = UTF8[m.policies[i].id]
        /\ WrittenRecord(WrittenRecord(m.policies[i])) = WrittenRecord(m.policies[i])
  BY Zenon, ManifestFields, WrittenRecordParts DEF CoercedIDs
<1>3. /\ q \in Seq(Record) /\ DOMAIN q = DOMAIN m.policies /\ Len(q) = Len(m.policies)
      /\ \A i \in DOMAIN m.policies : q[i] = WrittenRecord(m.policies[i])
  <2>1. DOMAIN m.policies = 1..Len(m.policies) /\ Len(m.policies) \in Nat
    BY Zenon, ManifestFields
  <2> QED BY <1>2, <2>1
<1>4. q = [i \in DOMAIN q |-> WrittenRecord(q[i])]
  BY Zenon, <1>2
<1> HIDE DEF q
<1>5. /\ w \in ManifestRecord /\ w.policies = q /\ w.formatV1 = m.formatV1
      /\ w.revision = m.revision /\ w.algorithm = m.algorithm
  BY Zenon, <1>1, <1>3 DEF ManifestRecord
<1>6. CoercedIDs(w)
  <2>1. ASSUME NEW i \in DOMAIN q
        PROVE  UTF8[q[i].id] \in Nat /\ (UTF8[q[i].id] = 0 => q[i].id = 0) /\ UTF8[UTF8[q[i].id]] = UTF8[q[i].id]
    <3>1. q[i].id = UTF8[m.policies[i].id] /\ i \in DOMAIN m.policies
      BY Zenon, <1>2, <1>3
    <3> QED BY Zenon, <3>1 DEF CoercedIDs
  <2> QED BY Zenon, <1>5, <2>1 DEF CoercedIDs
<1>7. Written(w) = w
  <2>1. Written(w) = [w EXCEPT !.policies = q]
    BY Zenon, <1>4, <1>5 DEF Written
  <2> HIDE DEF w
  <2>2. [w EXCEPT !.policies = q] = w
    BY Zenon, <1>5 DEF ManifestRecord
  <2> QED BY Zenon, <2>1, <2>2
<1> HIDE DEF w
<1> QED
  BY Zenon, <1>3, <1>5, <1>6, <1>7 DEF w

(* What is written is valid unless writing merged IDs or closed a window.  *)
LEMMA WrittenValid ==
    ASSUME NEW m \in ManifestRecord, CoercedIDs(m), Validate(m) = "none"
    PROVE  Validate(Written(m)) = "none" <=> StaysDistinct(m) /\ StaysOpen(m)
<1> DEFINE w == Written(m)
           D == DOMAIN m.policies
           OpenAt(i) == Window(w.policies[i])
           NewAt(i) == \A j \in 1..(i-1) : UTF8[m.policies[j].id] # UTF8[m.policies[i].id]
<1>1. /\ w \in ManifestRecord /\ DOMAIN w.policies = D
      /\ w.formatV1 = m.formatV1 /\ w.revision = m.revision /\ w.algorithm = m.algorithm
      /\ \A i \in D : w.policies[i] = WrittenRecord(m.policies[i])
  BY Zenon, WrittenManifest
<1>2. /\ m.formatV1 /\ m.revision # 0 /\ m.algorithm \in Algorithms
      /\ \A i \in D : RecordError(m, i) = "none"
  BY Zenon, ValidateChecks
<1>3. D = 1..Len(m.policies) /\ Len(m.policies) \in Nat /\ \A i \in D : m.policies[i] \in Record
  BY Zenon, ManifestFields
<1>4. ASSUME NEW i \in D
      PROVE  /\ w.policies[i].id = UTF8[m.policies[i].id] /\ w.policies[i].id # 0
             /\ w.policies[i].revision # 0 /\ w.policies[i].model \in Models
             /\ w.policies[i].document.object
             /\ OpenAt(i) <=>
                  LET r == m.policies[i] IN
                  r.from = <<>> \/ r.until = <<>> \/ r.until[1].written > r.from[1].written
  <2> DEFINE r == m.policies[i]
             x == w.policies[i]
  <2>1. r \in Record /\ x = WrittenRecord(r) /\ UTF8[r.id] \in Nat /\ UTF8[UTF8[r.id]] = UTF8[r.id]
    BY Zenon, <1>1, <1>3 DEF CoercedIDs
  <2>2. r.id # 0 /\ r.revision # 0 /\ r.model \in Models /\ r.document.object
    BY Zenon, <1>2, RecordChecks
  <2>3. UTF8[r.id] # 0
    BY Zenon, <2>2 DEF CoercedIDs
  <2> HIDE DEF r, x
  <2>4. /\ x.id = UTF8[r.id] /\ x.revision = r.revision /\ x.model = r.model
        /\ x.from = WrittenPointer(r.from) /\ x.until = WrittenPointer(r.until)
        /\ x.document = LaidOut(r.document)
    BY Zenon, <2>1, WrittenRecordParts
  <2>5. r.from \in Pointer /\ r.until \in Pointer /\ r.document \in Document
    BY Zenon, <2>1, RecordFields
  <2>6. x.document.object
    BY Zenon, <2>2, <2>4, <2>5, LaidOutParts
  <2>7. /\ x.from = <<>> <=> r.from = <<>>
        /\ x.until = <<>> <=> r.until = <<>>
        /\ r.from # <<>> => x.from[1].at = r.from[1].written
        /\ r.until # <<>> => x.until[1].at = r.until[1].written
    <3>1. \A p \in Pointer : /\ WrittenPointer(p) = <<>> <=> p = <<>>
                             /\ p # <<>> => 1 \in DOMAIN p
                             /\ \A k \in DOMAIN p : WrittenPointer(p)[k].at = p[k].written
      BY Zenon, PointerFields, WrittenPointerParts
    <3> QED BY Zenon, <2>4, <2>5, <3>1
  <2>8. Window(x) <=> r.from = <<>> \/ r.until = <<>> \/ r.until[1].written > r.from[1].written
    BY Zenon, <2>7 DEF Window
  <2> QED
    BY Zenon, <2>2, <2>3, <2>4, <2>6, <2>8 DEF r, x
<1>5. Validate(w) = "none" <=> \A i \in D : RecordError(w, i) = "none"
  BY Zenon, <1>1, <1>2, ValidateChecks
<1>6. ASSUME NEW i \in D PROVE RecordError(w, i) = "none" <=> NewAt(i) /\ OpenAt(i)
  <2>1. \A j \in 1..(i-1) : j \in D
    BY <1>3
  <2>2. (\A j \in 1..(i-1) : w.policies[j].id # w.policies[i].id) <=> NewAt(i)
    BY Zenon, <1>4, <2>1
  <2> HIDE DEF w, NewAt, D
  <2> QED
    BY Zenon, <1>1, <1>4, <2>2, RecordChecks
<1>7. (\A i \in D : NewAt(i)) <=> StaysDistinct(m)
  <2>1. ASSUME \A i \in D : NewAt(i), NEW i \in D, NEW j \in D,
               UTF8[m.policies[i].id] = UTF8[m.policies[j].id]
        PROVE  i = j
    <3>1. ~(i \in 1..(j-1)) /\ ~(j \in 1..(i-1))
      BY Zenon, <2>1
    <3> QED BY <1>3, <3>1
  <2>2. ASSUME StaysDistinct(m), NEW i \in D PROVE NewAt(i)
    <3>1. \A j \in 1..(i-1) : j \in D /\ j # i
      BY <1>3
    <3> QED BY Zenon, <2>2, <3>1 DEF StaysDistinct
  <2> QED BY Zenon, <2>1, <2>2 DEF StaysDistinct
<1>8. (\A i \in D : OpenAt(i)) <=> StaysOpen(m)
  <2>1. Range(m.policies) = {m.policies[i] : i \in D}
    BY Zenon DEF Range
  <2> HIDE DEF OpenAt, w
  <2> QED BY Zenon, <1>4, <2>1 DEF StaysOpen
<1> HIDE DEF NewAt, OpenAt, w
<1>9. Validate(w) = "none" <=> StaysDistinct(m) /\ StaysOpen(m)
  BY Zenon, <1>5, <1>6, <1>7, <1>8
<1> QED
  BY Zenon, <1>9 DEF w

(* What was written takes no more bytes to write again.                    *)
LEMMA WrittenBytes ==
    ASSUME NEW m \in ManifestRecord, CoercedIDs(m)
    PROVE  /\ MarshaledBytes(m) \in Nat /\ MarshaledBytes(Written(m)) \in Nat
           /\ MarshaledBytes(Written(m)) <= MarshaledBytes(m)
<1> DEFINE w == Written(m)
           D == DOMAIN m.policies
           f == [i \in D |-> RecordBytes(w.policies[i])]
           e == [i \in D |-> RecordBytes(m.policies[i])]
<1>1. DOMAIN w.policies = D /\ \A i \in D : w.policies[i] = WrittenRecord(m.policies[i])
  BY Zenon, WrittenManifest
<1>2. D = 1..Len(m.policies) /\ Len(m.policies) \in Nat /\ \A i \in D : m.policies[i] \in Record
  BY Zenon, ManifestFields
<1>3. ASSUME NEW i \in D PROVE f[i] \in Nat /\ e[i] \in Nat /\ f[i] <= e[i]
  <2> DEFINE r == m.policies[i]
             x == w.policies[i]
             size == r.document.laidOut
             more == IF UTF8[r.id] = r.id THEN 0 ELSE EscapeBytes
  <2>1. r \in Record /\ x = WrittenRecord(r) /\ UTF8[r.id] \in Nat /\ UTF8[UTF8[r.id]] = UTF8[r.id]
    BY Zenon, <1>1, <1>2 DEF CoercedIDs
  <2>2. f[i] = RecordBytes(x) /\ e[i] = RecordBytes(r)
    BY Zenon
  <2> HIDE DEF r, x
  <2>3. r.document \in Document /\ size \in Nat
    BY Zenon, <2>1, RecordFields, DocumentFields
  <2>4. x.id = UTF8[r.id] /\ x.document.laidOut = size
    BY Zenon, <2>1, <2>3, WrittenRecordParts, LaidOutParts
  <2>5. RecordOverhead \in Nat /\ more \in Nat
    BY RolloutAssumption
  <2>6. RecordBytes(r) = RecordOverhead + size + more
    BY Zenon DEF RecordBytes
  <2>7. RecordBytes(x) = RecordOverhead + size + 0
    BY Zenon, <2>1, <2>4 DEF RecordBytes
  <2> HIDE DEF size, more, f, e
  <2> QED
    BY <2>2, <2>3, <2>5, <2>6, <2>7
<1>4. IsFiniteSet(D)
  BY <1>2, FS_Interval
<1>5. /\ MarshaledBytes(m) = FoldFunctionOnSet(+, 0, e, D)
      /\ MarshaledBytes(w) = FoldFunctionOnSet(+, 0, f, D)
  BY Zenon, <1>1 DEF MarshaledBytes, Total, FoldFunction
<1> HIDE DEF e, f, D, w
<1>6. PICK g : IsSum(g, f, D) /\ FoldFunctionOnSet(+, 0, f, D) = g[D]
  BY Zenon, <1>3, <1>4, FoldSums
<1>7. PICK h : IsSum(h, e, D) /\ FoldFunctionOnSet(+, 0, e, D) = h[D]
  BY Zenon, <1>3, <1>4, FoldSums
<1>8. g[D] <= h[D]
  BY Zenon, <1>3, <1>6, <1>7, SumsBounded
<1>9. g[D] \in Nat /\ h[D] \in Nat
  <2>1. D \in SUBSET D
    BY Zenon
  <2> QED BY Zenon, <1>6, <1>7, <2>1, SumPeels
<1> QED
  BY Zenon, <1>5, <1>6, <1>7, <1>8, <1>9 DEF w

LEMMA EncodeChecks ==
    ASSUME NEW m
    PROVE  /\ Encode(m).err = "none" <=>
                /\ Validate(m) = "none" /\ Writable(m)
                /\ ~(MarshaledBytes(m) + 1 > MaxEncodedManifestBytes)
           /\ Encode(m).wire.bytes = MarshaledBytes(m) + 1
           /\ Encode(m).wire.syntax = "value" /\ Encode(m).wire.manifest = Written(m)
<1> DEFINE a == Validate(m) # "none"
           b == ~Writable(m)
           c == MarshaledBytes(m) + 1 > MaxEncodedManifestBytes
           x == Validate(m)
<1>1. /\ Encode(m).err = FirstError(<< <<a, x>>, <<b, "MarshalError">>, <<c, "ErrManifestLimitExceeded">> >>)
      /\ Encode(m).wire = Wire(m)
  BY Zenon DEF Encode
<1>2. a \in BOOLEAN /\ b \in BOOLEAN /\ c \in BOOLEAN
  BY DEF Writable
<1>3. a <=> x # "none"
  OBVIOUS
<1>4. Encode(m).err = IF a THEN x ELSE IF b THEN "MarshalError"
                      ELSE IF c THEN "ErrManifestLimitExceeded" ELSE "none"
  <2> HIDE DEF a, b, c, x
  <2> QED BY <1>1, <1>2, ThreeChecks
<1>5. Encode(m).err = "none" <=> ~a /\ ~b /\ ~c
  <2> HIDE DEF a, b, c, x
  <2> QED BY Zenon, <1>3, <1>4
<1>6. (~a <=> Validate(m) = "none") /\ (~b <=> Writable(m))
  BY Zenon
<1>7. Wire(m).bytes = MarshaledBytes(m) + 1 /\ Wire(m).syntax = "value" /\ Wire(m).manifest = Written(m)
  BY Zenon DEF Wire
<1>8. ~c <=> ~(MarshaledBytes(m) + 1 > MaxEncodedManifestBytes)
  BY Zenon
<1> HIDE DEF a, b, c, x
<1> QED
  BY Zenon, <1>1, <1>5, <1>6, <1>7, <1>8

LEMMA DecodeChecks ==
    ASSUME NEW wire, wire.syntax = "value", ~(wire.bytes > MaxEncodedManifestBytes)
    PROVE  Decode(wire) = [err |-> Validate(wire.manifest), manifest |-> wire.manifest]
<1> DEFINE a == wire.bytes > MaxEncodedManifestBytes
           b == wire.syntax # "value"
           c == Validate(wire.manifest) # "none"
           x == Validate(wire.manifest)
           err == FirstError(<< <<a, "ErrManifestLimitExceeded">>, <<b, "ErrInvalidManifest">>, <<c, x>> >>)
<1>1. Decode(wire) = [err |-> err, manifest |-> wire.manifest]
  BY Zenon DEF Decode
<1>2. ~a /\ ~b /\ (~c => x = "none")
  BY Zenon
<1>5. a \in BOOLEAN /\ b \in BOOLEAN /\ c \in BOOLEAN
  OBVIOUS
<1>3. err = IF a THEN "ErrManifestLimitExceeded" ELSE IF b THEN "ErrInvalidManifest"
            ELSE IF c THEN x ELSE "none"
  <2> HIDE DEF a, b, c, x
  <2> QED BY <1>5, ThreeChecks
<1>4. err = x
  <2> HIDE DEF a, b, c, x, err
  <2> QED BY Zenon, <1>2, <1>3
<1> QED
  BY Zenon, <1>1, <1>4

(* The errors of the two ladders Compile runs for a record.                *)
LEMMA AdmissionChecks ==
    ASSUME NEW m, NEW i
    PROVE  LET bytes == m.policies[i].document.bytes IN
           /\ AdmissionError(m, i) = "none" <=>
                /\ ~(bytes > MaxDocumentBytes)
                /\ ~(bytes > MaxTotalDocumentBytes - BytesBefore(m, i))
                /\ m.policies[i].model \in Decoders
           /\ m.policies[i].model \in Decoders =>
                AdmissionError(m, i) \in
                    {"none", "ErrDocumentLimitExceeded", "ErrTotalDocumentLimitExceeded"}
<1> DEFINE bytes == m.policies[i].document.bytes
           a == bytes > MaxDocumentBytes
           b == bytes > MaxTotalDocumentBytes - BytesBefore(m, i)
           c == m.policies[i].model \notin Decoders
<1>1. AdmissionError(m, i) =
        FirstError(<< <<a, "ErrDocumentLimitExceeded">>, <<b, "ErrTotalDocumentLimitExceeded">>,
                      <<c, "ErrMissingDecoder">> >>)
  BY Zenon DEF AdmissionError
<1>2. a \in BOOLEAN /\ b \in BOOLEAN /\ c \in BOOLEAN
  OBVIOUS
<1>3. AdmissionError(m, i) =
        IF a THEN "ErrDocumentLimitExceeded" ELSE IF b THEN "ErrTotalDocumentLimitExceeded"
        ELSE IF c THEN "ErrMissingDecoder" ELSE "none"
  <2> HIDE DEF a, b, c
  <2> QED BY <1>1, <1>2, ThreeChecks
<1>4. /\ AdmissionError(m, i) = "none" <=> ~a /\ ~b /\ ~c
      /\ ~c => AdmissionError(m, i) \in
                 {"none", "ErrDocumentLimitExceeded", "ErrTotalDocumentLimitExceeded"}
  <2> HIDE DEF a, b, c
  <2> QED BY Zenon, <1>3
<1> QED
  BY Zenon, <1>4

LEMMA CompileRecordChecks ==
    ASSUME NEW m, NEW i
    PROVE  LET decoded == m.policies[i].document.decodes IN
           /\ CompileRecordError(m, i) = "none" <=>
                AdmissionError(m, i) = "none" /\ decoded # "error" /\ decoded # "nil"
           /\ CompileRecordError(m, i) \in {AdmissionError(m, i), "DecoderError", "ErrNilEvaluator"}
<1> DEFINE decoded == m.policies[i].document.decodes
           admission == AdmissionError(m, i)
           a == admission # "none"
           b == decoded = "error"
           c == decoded = "nil"
<1>1. CompileRecordError(m, i) =
        FirstError(<< <<a, admission>>, <<b, "DecoderError">>, <<c, "ErrNilEvaluator">> >>)
  BY Zenon DEF CompileRecordError
<1>2. a \in BOOLEAN /\ b \in BOOLEAN /\ c \in BOOLEAN
  BY Zenon
<1>3. CompileRecordError(m, i) =
        IF a THEN admission ELSE IF b THEN "DecoderError" ELSE IF c THEN "ErrNilEvaluator" ELSE "none"
  <2> HIDE DEF a, b, c, admission
  <2> QED BY <1>1, <1>2, ThreeChecks
<1> HIDE DEF admission, decoded
<1>4. /\ CompileRecordError(m, i) = "none" <=> admission = "none" /\ ~b /\ ~c
      /\ CompileRecordError(m, i) \in {admission, "DecoderError", "ErrNilEvaluator"}
  BY Zenon, <1>3
<1> QED
  BY Zenon, <1>4 DEF admission, decoded

(* What compiles, compiles as it was written unless a decoder or a limit   *)
(* on bytes refuses a document's new layout.                               *)
LEMMA WrittenCompiles ==
    ASSUME NEW m \in ManifestRecord, CoercedIDs(m), Compile(m).err = "none",
           Validate(Written(m)) = "none"
    PROVE  /\ Compile(Written(m)).err \in
                {"none", "ErrDocumentLimitExceeded", "ErrTotalDocumentLimitExceeded",
                 "DecoderError", "ErrNilEvaluator"}
           /\ Compile(Written(m)).err = "none" /\ WrittenAsIs(m) => Compile(Written(m)) = Compile(m)
<1> DEFINE n == Written(m)
           built(q) == NewSnapshot(q.revision, q.algorithm, Definitions(q))
<1>1. LoopError(m) = "none"
  BY Zenon, CompiledIsBuilt
<1>2. /\ n \in ManifestRecord /\ DOMAIN n.policies = DOMAIN m.policies
      /\ n.revision = m.revision /\ n.algorithm = m.algorithm
      /\ Len(n.policies) = Len(m.policies)
      /\ \A i \in DOMAIN m.policies : n.policies[i] = WrittenRecord(m.policies[i])
  BY Zenon, WrittenManifest
<1>3. \A i \in DOMAIN m.policies :
        /\ m.policies[i] \in Record
        /\ UTF8[m.policies[i].id] \in Nat /\ UTF8[UTF8[m.policies[i].id]] = UTF8[m.policies[i].id]
  BY Zenon, ManifestFields DEF CoercedIDs
<1>4. ASSUME NEW i \in DOMAIN n.policies
      PROVE  CompileRecordError(n, i) \in
               {"none", "ErrDocumentLimitExceeded", "ErrTotalDocumentLimitExceeded",
                "DecoderError", "ErrNilEvaluator"}
  <2>1. i \in DOMAIN m.policies
    BY Zenon, <1>2
  <2>2. CompileRecordError(m, i) = "none"
    BY Zenon, <1>1, <2>1, LoopChecks
  <2>3. m.policies[i].model \in Decoders
    BY Zenon, <2>2, CompileRecordChecks, AdmissionChecks
  <2>4. n.policies[i].model = m.policies[i].model
    BY Zenon, <1>2, <1>3, <2>1, WrittenRecordParts
  <2> HIDE DEF n
  <2> QED
    BY Zenon, <2>3, <2>4, CompileRecordChecks, AdmissionChecks
<1>5. LoopError(n) \in {"none", "ErrDocumentLimitExceeded", "ErrTotalDocumentLimitExceeded",
                        "DecoderError", "ErrNilEvaluator"}
  <2>1. Len(n.policies) <= MaxPolicies
    BY Zenon, <1>1, <1>2, LoopChecks
  <2>2. Validate(n) = "none"
    BY Zenon
  <2> HIDE DEF n
  <2> QED
    BY Zenon, <1>2, <1>4, <2>1, <2>2, LoopChecks
<1>6. \A q : Compile(q) = [err |-> IF LoopError(q) # "none" THEN LoopError(q) ELSE built(q).err,
                           snapshot |-> built(q).snapshot]
  BY Zenon DEF Compile, Definitions
<1>7. LoopError(n) = "none" => Compile(n).err = "none"
  BY Zenon, <1>2, LoopSucceeds
<1>8. ASSUME WrittenAsIs(m) PROVE Definitions(n) = Definitions(m)
  <2>1. ASSUME NEW i \in DOMAIN m.policies
        PROVE  Definition(n.policies[i]) = Definition(m.policies[i])
    <3> DEFINE r == m.policies[i]
               x == WrittenRecord(r)
    <3>1. r \in Range(m.policies) /\ r \in Record /\ UTF8[r.id] \in Nat /\ UTF8[UTF8[r.id]] = UTF8[r.id]
      BY Zenon, <1>3 DEF Range
    <3>2. UTF8[r.id] = r.id /\ \A t \in Range(r.from) \cup Range(r.until) : t.written = t.at
      BY Zenon, <1>8, <3>1 DEF WrittenAsIs
    <3> HIDE DEF r
    <3>3. r.from \in Pointer /\ r.until \in Pointer
      BY Zenon, <3>1, RecordFields
    <3>4. /\ \A k \in DOMAIN r.from : r.from[k].written = r.from[k].at
          /\ \A k \in DOMAIN r.until : r.until[k].written = r.until[k].at
      BY Zenon, <3>2 DEF Range
    <3>5. WrittenPointer(r.from) = r.from /\ WrittenPointer(r.until) = r.until
      BY Zenon, <3>3, <3>4, WrittenPointerParts
    <3>6. /\ x.id = r.id /\ x.revision = r.revision /\ x.priority = r.priority
          /\ x.from = r.from /\ x.until = r.until
      BY Zenon, <3>1, <3>2, <3>5, WrittenRecordParts
    <3> HIDE DEF x
    <3>7. Definition(x) = Definition(r)
      BY Zenon, <3>6 DEF Definition
    <3> QED
      BY Zenon, <1>2, <3>7 DEF r, x
  <2> HIDE DEF n
  <2> QED
    BY Zenon, <1>2, <2>1 DEF Definitions
<1>9. ASSUME WrittenAsIs(m) PROVE built(n) = built(m)
  BY Zenon, <1>2, <1>8, <1>9
<1> HIDE DEF n, built
<1>10. /\ Compile(n).err \in {"none", "ErrDocumentLimitExceeded", "ErrTotalDocumentLimitExceeded",
                              "DecoderError", "ErrNilEvaluator"}
       /\ Compile(n).err = "none" => LoopError(n) = "none"
  BY Zenon, <1>5, <1>6, <1>7
<1>11. Compile(n).err = "none" /\ WrittenAsIs(m) => Compile(n) = Compile(m)
  BY Zenon, <1>1, <1>6, <1>9, <1>10
<1> QED
  BY Zenon, <1>10, <1>11 DEF n

(* Encode and Decode of policy/manifest.go: what Encode emits, Decode      *)
(* refuses only where writing merged IDs or closed a window; what it       *)
(* decodes to is a fixed point of both and compiles unless the documents'  *)
(* layout is refused.                                                      *)
THEOREM EncodedDecodes == Spec => []EncodedManifestsDecode
<1>1. ASSUME RolloutInv PROVE EncodedManifestsDecode
  <2> DEFINE m == candidate
             n == Written(candidate)
             wire == Encode(candidate).wire
  <2> SUFFICES ASSUME Encode(m).err = "none"
               PROVE  LET decoded == Decode(wire)
                          again == Encode(decoded.manifest)
                          recompiled == Compile(decoded.manifest) IN
                      /\ decoded.err # "ErrManifestLimitExceeded"
                      /\ decoded.err = "none" <=> StaysDistinct(m) /\ StaysOpen(m)
                      /\ decoded.err = "none" => again.err = "none" /\ Decode(again.wire) = decoded
                      /\ decoded.err = "none" /\ Compiled.err = "none" =>
                           /\ recompiled.err \in {"none", "ErrDocumentLimitExceeded",
                                "ErrTotalDocumentLimitExceeded", "DecoderError", "ErrNilEvaluator"}
                           /\ recompiled.err = "none" /\ WrittenAsIs(m) => recompiled = Compiled
    BY Zenon DEF EncodedManifestsDecode
  <2>1. m \in ManifestRecord /\ CoercedIDs(m)
    <3>1. m \in ManifestRecord /\ Range(m.policies) \subseteq Records
      BY Zenon, <1>1 DEF RolloutInv
    <3>2. \A i \in DOMAIN m.policies : m.policies[i] \in Records
      BY Zenon, <3>1 DEF Range
    <3> QED
      BY Zenon, <3>1, <3>2, RolloutAssumption DEF CoercedIDs, Records
  <2>2. n \in ManifestRecord /\ CoercedIDs(n) /\ Written(n) = n
    BY Zenon, <2>1, WrittenManifest
  <2>3. /\ Validate(m) = "none" /\ Writable(m) /\ ~(MarshaledBytes(m) + 1 > MaxEncodedManifestBytes)
        /\ wire.bytes = MarshaledBytes(m) + 1 /\ wire.syntax = "value" /\ wire.manifest = n
    BY Zenon, EncodeChecks
  <2>4. Decode(wire) = [err |-> Validate(n), manifest |-> n]
    <3> HIDE DEF wire, n
    <3> QED BY Zenon, <2>3, DecodeChecks
  <2>5. Validate(n) = "none" <=> StaysDistinct(m) /\ StaysOpen(m)
    BY Zenon, <2>1, <2>3, WrittenValid
  <2>6. Validate(n) # "ErrManifestLimitExceeded"
    BY Zenon, <2>2, ValidateChecks
  <2>7. ASSUME Validate(n) = "none"
        PROVE  Encode(n).err = "none" /\ Decode(Encode(n).wire) = Decode(wire)
    <3>1. Writable(n)
      <4>1. ASSUME NEW i \in DOMAIN n.policies
            PROVE  LET x == n.policies[i] IN
                   x.document.writable /\ \A t \in Range(x.from) \cup Range(x.until) : t.writable
        <5> DEFINE r == m.policies[i]
                   x == n.policies[i]
        <5>1. i \in DOMAIN m.policies /\ x = WrittenRecord(r) /\ r \in Record
          BY Zenon, <2>1, WrittenManifest, ManifestFields
        <5>2. UTF8[r.id] \in Nat /\ UTF8[UTF8[r.id]] = UTF8[r.id]
          BY Zenon, <2>1, <5>1 DEF CoercedIDs
        <5>3. r.document.writable /\ \A t \in Range(r.from) \cup Range(r.until) : t.writable
          BY Zenon, <2>3, <5>1 DEF Writable, Range
        <5> HIDE DEF r, x
        <5>4. r.from \in Pointer /\ r.until \in Pointer /\ r.document \in Document
          BY Zenon, <5>1, RecordFields
        <5>5. /\ x.from = WrittenPointer(r.from) /\ x.until = WrittenPointer(r.until)
              /\ x.document = LaidOut(r.document)
          BY Zenon, <5>1, <5>2, WrittenRecordParts
        <5>6. x.document.writable
          BY Zenon, <5>3, <5>4, <5>5, LaidOutParts
        <5>7. \A p \in Pointer : (\A t \in Range(p) : t.writable) =>
                                    \A t \in Range(WrittenPointer(p)) : t.writable
          <6> SUFFICES ASSUME NEW p \in Pointer, \A t \in Range(p) : t.writable,
                              NEW k \in DOMAIN WrittenPointer(p)
                       PROVE  WrittenPointer(p)[k].writable
            BY Zenon DEF Range
          <6>1. k \in DOMAIN p /\ WrittenPointer(p)[k].writable = p[k].writable
            BY Zenon, WrittenPointerParts
          <6>2. p[k] \in Range(p)
            BY Zenon, <6>1 DEF Range
          <6> QED BY Zenon, <6>1, <6>2
        <5>8. \A t \in Range(x.from) \cup Range(x.until) : t.writable
          BY Zenon, <5>3, <5>4, <5>5, <5>7
        <5> QED
          BY Zenon, <5>6, <5>8 DEF x
      <4>2. Range(n.policies) = {n.policies[i] : i \in DOMAIN n.policies}
        BY Zenon DEF Range
      <4> HIDE DEF n
      <4> QED
        BY Zenon, <4>1, <4>2 DEF Writable
    <3>2. ~(MarshaledBytes(n) + 1 > MaxEncodedManifestBytes)
      <4>1. /\ MarshaledBytes(m) \in Nat /\ MarshaledBytes(n) \in Nat
            /\ MarshaledBytes(n) <= MarshaledBytes(m)
        BY Zenon, <2>1, WrittenBytes
      <4>2. MaxEncodedManifestBytes \in Nat
        BY Zenon, RolloutAssumption
      <4> DEFINE u == MarshaledBytes(n)
                 v == MarshaledBytes(m)
      <4>3. u \in Nat /\ v \in Nat /\ u <= v /\ ~(v + 1 > MaxEncodedManifestBytes)
        BY Zenon, <2>3, <4>1
      <4> HIDE DEF u, v
      <4>4. ~(u + 1 > MaxEncodedManifestBytes)
        BY <4>2, <4>3
      <4> QED BY Zenon, <4>4 DEF u
    <3>3. /\ Encode(n).err = "none" /\ Encode(n).wire.bytes = MarshaledBytes(n) + 1
          /\ Encode(n).wire.syntax = "value" /\ Encode(n).wire.manifest = n
      <4> HIDE DEF n
      <4> QED BY Zenon, <2>2, <2>7, <3>1, <3>2, EncodeChecks
    <3>4. Decode(Encode(n).wire) = [err |-> Validate(n), manifest |-> n]
      <4> DEFINE second == Encode(n).wire
      <4>1. /\ second.syntax = "value" /\ ~(second.bytes > MaxEncodedManifestBytes)
            /\ second.manifest = n
        BY Zenon, <3>2, <3>3
      <4> HIDE DEF second, n
      <4>2. Decode(second) = [err |-> Validate(n), manifest |-> n]
        BY Zenon, <4>1, DecodeChecks
      <4> QED BY Zenon, <4>2 DEF second
    <3> QED
      BY Zenon, <2>4, <3>3, <3>4
  <2>8. ASSUME Validate(n) = "none", Compile(m).err = "none"
        PROVE  /\ Compile(n).err \in {"none", "ErrDocumentLimitExceeded",
                    "ErrTotalDocumentLimitExceeded", "DecoderError", "ErrNilEvaluator"}
               /\ Compile(n).err = "none" /\ WrittenAsIs(m) => Compile(n) = Compile(m)
    BY Zenon, <2>1, <2>8, WrittenCompiles
  <2> HIDE DEF n, wire
  <2>9. Decode(wire).err = Validate(n) /\ Decode(wire).manifest = n
    BY <2>4
  <2> QED
    BY Zenon, <2>5, <2>6, <2>7, <2>8, <2>9 DEF Compiled
<1> QED
  BY <1>1, RolloutInvariant, PTL

-----------------------------------------------------------------------------
(* What a view decides                                                     *)

(* A decision is told by its five parts.                                   *)
LEMMA DecisionParts ==
    ASSUME NEW a, NEW c, NEW b, NEW d,
           Compose(a, c).outcome = Compose(b, d).outcome,
           Compose(a, c).reason = Compose(b, d).reason,
           Compose(a, c).matched = Compose(b, d).matched,
           Compose(a, c).matchedTruncated = Compose(b, d).matchedTruncated,
           Compose(a, c).err = Compose(b, d).err
    PROVE  Compose(a, c) = Compose(b, d)
<1>1. \A x, y : Compose(x, y) =
        [outcome |-> Compose(x, y).outcome, reason |-> Compose(x, y).reason,
         matched |-> Compose(x, y).matched, matchedTruncated |-> Compose(x, y).matchedTruncated,
         err |-> Compose(x, y).err]
  <2> SUFFICES ASSUME NEW x, NEW y
               PROVE  Compose(x, y) =
                        [outcome |-> Compose(x, y).outcome, reason |-> Compose(x, y).reason,
                         matched |-> Compose(x, y).matched,
                         matchedTruncated |-> Compose(x, y).matchedTruncated,
                         err |-> Compose(x, y).err]
    BY Zenon
  <2>1. \E o, r, m, t, e :
          Compose(x, y) = [outcome |-> o, reason |-> r, matched |-> m, matchedTruncated |-> t, err |-> e]
    BY Zenon DEF Compose, Failure
  <2> QED
    BY Zenon, <2>1
<1> QED
  BY Zenon, <1>1

(* What an overriding algorithm makes of the outcomes seen, in any order.  *)
Overriding(algorithm, seen) ==
    LET first == IF algorithm = "DenyOverrides" THEN "Deny" ELSE "Allow"
        second == IF algorithm = "DenyOverrides" THEN "Allow" ELSE "Deny" IN
    IF first \in seen THEN first ELSE IF second \in seen THEN second ELSE "Deny"

LEMMA OverridingOutcome ==
    ASSUME NEW algorithm \in {"DenyOverrides", "AllowOverrides"}, NEW T, NEW c \in Seq(T),
           \A i \in DOMAIN c : c[i].outcome \in ValidOutcomes \cup {"error"},
           Compose(algorithm, c).err = "none"
    PROVE  Compose(algorithm, c).outcome =
             Overriding(algorithm, {c[i].outcome : i \in DOMAIN c})
<1> DEFINE Decisive(i) == IsDecisive(algorithm, c[i].outcome)
           ending == {i \in DOMAIN c : c[i].outcome = "error" \/ Decisive(i)}
           last == IF ending = {} THEN Len(c) ELSE Min(ending)
           decisions == SubSeq(c, 1, last)
           d == Combine(algorithm, decisions).decision
           failed == \E i \in DOMAIN decisions : decisions[i].outcome = "error"
           first == IF algorithm = "DenyOverrides" THEN "Deny" ELSE "Allow"
           second == IF algorithm = "DenyOverrides" THEN "Allow" ELSE "Deny"
<1>1. /\ failed => Compose(algorithm, c).err = "PolicyEvaluationError"
      /\ ~failed => Compose(algorithm, c).outcome =
                      IF d.outcome = "NotApplicable" THEN "Deny" ELSE d.outcome
  <2>1. decisions = Consulted(algorithm, c)
    BY Zenon DEF Consulted
  <2> HIDE DEF decisions
  <2> QED BY Zenon, <2>1 DEF Compose, Failure
<1>2. DOMAIN c = 1..Len(c) /\ Len(c) \in Nat
  OBVIOUS
<1>3. ending # {} => Min(ending) \in ending
  <2>1. ending \subseteq Nat
    BY <1>2
  <2> HIDE DEF ending
  <2> QED BY Zenon, <2>1, MinOfNats
<1>4. last \in 0..Len(c)
  <2>1. ending \subseteq 1..Len(c)
    BY Zenon, <1>2
  <2>2. CASE ending = {}
    BY <1>2, <2>2
  <2>3. CASE ending # {}
    <3>1. last = Min(ending)
      BY Zenon, <2>3
    <3>2. last \in ending
      BY Zenon, <1>3, <2>3, <3>1
    <3> HIDE DEF last, ending
    <3> QED BY <1>2, <2>1, <3>2
  <2> QED BY Zenon, <2>2, <2>3
<1>5. /\ decisions \in Seq(T) /\ DOMAIN decisions = 1..last
      /\ \A i \in 1..last : decisions[i] = c[i] /\ i \in DOMAIN c
  <2> HIDE DEF last
  <2> QED BY <1>2, <1>4
<1> HIDE DEF decisions
<1>6. d = Select(algorithm, decisions)
  <2>1. ~(\E i \in DOMAIN decisions : decisions[i].outcome = "Invalid")
    <3> HIDE DEF last
    <3> QED BY Zenon, <1>5 DEF ValidOutcomes
  <2>2. algorithm \in Algorithms
    BY Zenon DEF Algorithms
  <2> QED
    BY Zenon, <2>1, <2>2 DEF Combine
<1>7. \A o \in ValidOutcomes \cup {"error"} : IsDecisive(algorithm, o) <=> o = first
  BY Zenon DEF IsDecisive, ValidOutcomes
<1> HIDE DEF d
<1>8. CASE ending = {}
  <2>1. last = Len(c) /\ \A i \in DOMAIN c : c[i].outcome # "error" /\ ~Decisive(i)
    BY Zenon, <1>8
  <2>3. \A i \in DOMAIN c : i \in DOMAIN decisions /\ decisions[i] = c[i]
    BY Zenon, <1>2, <1>5, <2>1
  <2>4. \A i \in DOMAIN decisions : i \in DOMAIN c /\ decisions[i] = c[i]
    BY Zenon, <1>5
  <2>2. ~failed
    BY Zenon, <2>1, <2>4
  <2>5. \A i \in DOMAIN c : c[i].outcome # first /\ c[i].outcome \in {"NotApplicable", second}
    BY Zenon, <1>7, <2>1 DEF ValidOutcomes
  <2>6. \/ \E i \in DOMAIN c : c[i].outcome # "NotApplicable" /\ d = c[i]
        \/ (\A i \in DOMAIN c : c[i].outcome = "NotApplicable") /\ d = NotApplicableDecision
    <3> HIDE DEF last, ending
    <3> QED
      BY <1>5, <1>6, <2>1, <2>3, <2>4, SelectCases
  <2>7. CASE \E i \in DOMAIN c : c[i].outcome # "NotApplicable" /\ d = c[i]
    <3>1. d.outcome = second /\ \E i \in DOMAIN c : c[i].outcome = second
      BY Zenon, <2>5, <2>7
    <3>2. Compose(algorithm, c).outcome = second
      BY Zenon, <1>1, <2>2, <3>1
    <3> QED
      BY Zenon, <2>5, <3>1, <3>2 DEF Overriding
  <2>8. CASE (\A i \in DOMAIN c : c[i].outcome = "NotApplicable") /\ d = NotApplicableDecision
    <3>1. d.outcome = "NotApplicable"
      BY Zenon, <2>8 DEF NotApplicableDecision
    <3>2. Compose(algorithm, c).outcome = "Deny"
      BY Zenon, <1>1, <2>2, <3>1
    <3> QED
      BY Zenon, <2>8, <3>2 DEF Overriding
  <2> QED
    BY Zenon, <2>6, <2>7, <2>8
<1>9. CASE ending # {}
  <2>1. last \in ending /\ last \in 1..last
    BY <1>2, <1>3, <1>9
  <2>2. ~failed
    BY Zenon, <1>1
  <2>3. c[last].outcome # "error" /\ last \in DOMAIN c
    BY Zenon, <1>5, <2>1, <2>2
  <2>4. c[last].outcome = first
    BY Zenon, <1>7, <2>1, <2>3
  <2> HIDE DEF last, ending
  <2>5. \E i \in DOMAIN decisions : IsDecisive(algorithm, decisions[i].outcome) /\ d = decisions[i]
    <3>1. last \in DOMAIN decisions /\ IsDecisive(algorithm, decisions[last].outcome)
      BY Zenon, <1>5, <1>7, <2>1, <2>3, <2>4
    <3> QED
      BY <1>5, <1>6, <3>1, SelectCases
  <2>6. d.outcome = first
    BY Zenon, <1>5, <1>7, <2>5
  <2>7. Compose(algorithm, c).outcome = first
    BY Zenon, <1>1, <2>2, <2>6
  <2> QED
    BY Zenon, <2>3, <2>4, <2>7 DEF Overriding
<1> QED
  BY Zenon, <1>8, <1>9

(* The entries of a compiled view are its records', and answer as they do. *)
LEMMA ViewPolicies ==
    ASSUME NEW m \in ManifestRecord, Compile(m).err = "none", Range(m.policies) \subseteq Records
    PROVE  LET policies == View(m).snapshot.policies IN
           /\ policies \in Seq(Policy)
           /\ \A i, j \in DOMAIN policies : policies[i].id = policies[j].id => i = j
           /\ m.algorithm = "PriorityOrder" =>
                \A i, j \in DOMAIN policies : i < j => EvaluatedBefore(policies[i], policies[j])
           /\ View(m).snapshot.algorithm = m.algorithm
           /\ \A i \in DOMAIN policies : \E r \in Records :
                /\ r.id = policies[i].id /\ r.revision = policies[i].revision
                /\ View(m).says[policies[i].id] = r.document.says
<1> DEFINE s == Compile(m).snapshot
           policies == s.policies
           D == DOMAIN m.policies
<1>1. /\ Validate(m) = "none" /\ s.algorithm = m.algorithm
      /\ WellBuilt(s, m.revision, Definitions(m))
  BY Zenon, CompiledIsBuilt
<1>2. View(m).snapshot = s
  BY Zenon DEF View
<1>3. /\ policies \in Seq(Policy) /\ DOMAIN policies = D
      /\ \A i, j \in DOMAIN policies : policies[i].id = policies[j].id => i = j
  BY Zenon, <1>1, DefinitionsOfManifest DEF WellBuilt, SnapshotRecord
<1>4. m.algorithm = "PriorityOrder" =>
        \A i, j \in DOMAIN policies : i < j => EvaluatedBefore(policies[i], policies[j])
  BY Zenon, <1>1 DEF WellBuilt, Ordered
<1>5. /\ m.revision \in Nat \ {0} /\ m.policies \in Seq(Record)
      /\ \A i \in D : RecordError(m, i) = "none"
  BY Zenon, <1>1, ValidateChecks, ManifestFields
<1>6. D = 1..Len(m.policies) /\ \A i \in D : m.policies[i] \in Record /\ m.policies[i] \in Records
  BY <1>5 DEF Range
<1>7. \A i, j \in D : m.policies[i].id = m.policies[j].id => i = j
  <2> SUFFICES ASSUME NEW i \in D, NEW j \in D, i < j
               PROVE  m.policies[i].id # m.policies[j].id
    BY <1>5, <1>6
  <2>1. i \in 1..(j-1)
    BY <1>5, <1>6
  <2> QED
    BY Zenon, <1>5, <2>1, RecordChecks
<1>8. PICK p \in Bijection(D, D) : \A i \in D : policies[i] = Entry(m.revision, Definition(m.policies[p[i]]))
  <2>1. \E p \in Bijection(D, D) : \A i \in D : policies[i] = Entry(m.revision, Definitions(m)[p[i]])
    BY Zenon, <1>1, DefinitionsOfManifest DEF WellBuilt
  <2>2. \A p \in Bijection(D, D) : \A i \in D : p[i] \in D
    BY Zenon DEF Bijection, Injection
  <2> QED
    BY <2>1, <2>2, DefinitionsOfManifest
<1>9. ASSUME NEW i \in DOMAIN policies
      PROVE  \E r \in Records : /\ r.id = policies[i].id /\ r.revision = policies[i].revision
                                /\ View(m).says[policies[i].id] = r.document.says
  <2> DEFINE k == p[i]
             r == m.policies[k]
             Chosen == CHOOSE x \in Range(m.policies) : x.id = r.id
  <2>1. k \in D /\ i \in D
    BY Zenon, <1>3 DEF Bijection, Injection
  <2>2. r \in Record /\ r \in Records /\ r \in Range(m.policies)
    BY Zenon, <1>6, <2>1 DEF Range
  <2>3. policies[i] = Entry(m.revision, Definition(r))
    BY Zenon, <1>8, <2>1
  <2>4. r.revision # 0
    BY Zenon, <1>5, <2>1, RecordChecks
  <2>5. policies[i].id = r.id /\ policies[i].revision = r.revision
    <3>1. Definition(r) \in PolicyDefinition /\ Definition(r).id = r.id /\ Definition(r).revision = r.revision
      BY Zenon, <2>2, DefinitionOfRecord
    <3> HIDE DEF r, policies
    <3> QED
      BY Zenon, <1>5, <2>3, <2>4, <3>1, EntryOfDefinition
  <2>6. Chosen = r
    <3>1. \A x \in Range(m.policies) : x.id = r.id => x = r
      BY Zenon, <1>7, <2>1 DEF Range
    <3> HIDE DEF r
    <3> QED
      BY Zenon, <2>2, <3>1
  <2>7. View(m).says[r.id] = Chosen.document.says
    <3>1. r.id \in {m.policies[j].id : j \in D}
      BY Zenon, <2>1
    <3> QED
      BY Zenon, <3>1 DEF View
  <2> QED
    BY Zenon, <2>2, <2>5, <2>6, <2>7
<1>10. View(m).snapshot.policies = policies /\ View(m).snapshot.algorithm = m.algorithm
  BY Zenon, <1>1, <1>2
<1> HIDE DEF policies, s, D
<1> QED
  BY Zenon, <1>3, <1>4, <1>9, <1>10

LEMMA Indexed ==
    ASSUME NEW q \in Seq(Policy), \A i, j \in DOMAIN q : q[i].id = q[j].id => i = j
    PROVE  /\ DOMAIN IndexPolicies(q) = {q[i].id : i \in DOMAIN q}
           /\ \A i \in DOMAIN q : IndexPolicies(q)[q[i].id] = q[i]
<1>1. ASSUME NEW i \in DOMAIN q
      PROVE  IndexPolicies(q)[q[i].id] = q[i]
  <2>1. q[i] \in Range(q) /\ \A x \in Range(q) : x.id = q[i].id => x = q[i]
    BY Zenon DEF Range
  <2>2. IndexPolicies(q)[q[i].id] = CHOOSE x \in Range(q) : x.id = q[i].id
    BY Zenon DEF IndexPolicies
  <2> QED
    BY Zenon, <2>1, <2>2
<1> QED
  BY Zenon, <1>1 DEF IndexPolicies

LEMMA UnchangedViews ==
    ASSUME NEW s, NEW t, Unchanged(Diff(s, t))
    PROVE  s # NilView /\ t # NilView
BY Zenon DEF Unchanged, Diff

(* Where Diff reports nothing, the same entries are in both snapshots.     *)
LEMMA UnchangedPolicies ==
    ASSUME NEW s, NEW t,
           s.snapshot.policies \in Seq(Policy), t.snapshot.policies \in Seq(Policy),
           \A i, j \in DOMAIN s.snapshot.policies :
              s.snapshot.policies[i].id = s.snapshot.policies[j].id => i = j,
           \A i, j \in DOMAIN t.snapshot.policies :
              t.snapshot.policies[i].id = t.snapshot.policies[j].id => i = j,
           Unchanged(Diff(s, t))
    PROVE  /\ s.snapshot.algorithm = t.snapshot.algorithm
           /\ \A i \in DOMAIN s.snapshot.policies : \E j \in DOMAIN t.snapshot.policies :
                s.snapshot.policies[i] = t.snapshot.policies[j]
           /\ \A j \in DOMAIN t.snapshot.policies : \E i \in DOMAIN s.snapshot.policies :
                s.snapshot.policies[i] = t.snapshot.policies[j]
<1> DEFINE q == s.snapshot.policies
           w == t.snapshot.policies
           old == IndexPolicies(q)
           new == IndexPolicies(w)
<1>1. /\ s.snapshot.algorithm = t.snapshot.algorithm /\ DOMAIN old = DOMAIN new
      /\ \A x \in DOMAIN old : PolicyInfoEqual(old[x], new[x])
  <2>1. s # NilView /\ t # NilView
    BY Zenon, UnchangedViews
  <2>2. /\ Diff(s, t).algorithmChanged = (s.snapshot.algorithm # t.snapshot.algorithm)
        /\ Diff(s, t).removed = DOMAIN old \ DOMAIN new
        /\ Diff(s, t).added = DOMAIN new \ DOMAIN old
        /\ Diff(s, t).changed = {x \in DOMAIN old \cap DOMAIN new : ~PolicyInfoEqual(old[x], new[x])}
    BY Zenon, <2>1 DEF Diff
  <2>3. ~Diff(s, t).algorithmChanged /\ Diff(s, t).added = {} /\ Diff(s, t).removed = {}
        /\ Diff(s, t).changed = {}
    BY Zenon DEF Unchanged
  <2> HIDE DEF old, new
  <2>4. DOMAIN old = DOMAIN new
    BY Zenon, <2>2, <2>3
  <2> QED BY Zenon, <2>2, <2>3, <2>4
<1>2. /\ DOMAIN old = {q[i].id : i \in DOMAIN q} /\ \A i \in DOMAIN q : old[q[i].id] = q[i]
      /\ DOMAIN new = {w[i].id : i \in DOMAIN w} /\ \A i \in DOMAIN w : new[w[i].id] = w[i]
  BY Zenon, Indexed
<1>3. \A x, y \in Policy : x.id = y.id /\ PolicyInfoEqual(x, y) => x = y
  <2>1. \A x \in Policy :
          x = [id |-> x.id, revision |-> x.revision, priority |-> x.priority,
               activeFrom |-> x.activeFrom, activeUntil |-> x.activeUntil]
    BY DEF Policy
  <2> QED
    BY <2>1 DEF PolicyInfoEqual
<1>4. \A i \in DOMAIN q, j \in DOMAIN w : q[i].id = w[j].id => q[i] = w[j]
  <2> SUFFICES ASSUME NEW i \in DOMAIN q, NEW j \in DOMAIN w, q[i].id = w[j].id
               PROVE  q[i] = w[j]
    BY Zenon
  <2>1. q[i].id \in DOMAIN old /\ old[q[i].id] = q[i] /\ new[q[i].id] = w[j]
    BY Zenon, <1>2
  <2>2. q[i] \in Policy /\ w[j] \in Policy
    OBVIOUS
  <2> HIDE DEF q, w, old, new
  <2> QED
    BY Zenon, <1>1, <1>3, <2>1, <2>2
<1>5. /\ \A i \in DOMAIN q : \E j \in DOMAIN w : q[i].id = w[j].id
      /\ \A j \in DOMAIN w : \E i \in DOMAIN q : q[i].id = w[j].id
  <2>1. {q[i].id : i \in DOMAIN q} = {w[j].id : j \in DOMAIN w}
    BY Zenon, <1>1, <1>2
  <2> HIDE DEF q, w, old, new
  <2>2. ASSUME NEW i \in DOMAIN q PROVE \E j \in DOMAIN w : q[i].id = w[j].id
    <3>1. q[i].id \in {w[j].id : j \in DOMAIN w}
      BY Zenon, <2>1
    <3> QED BY Zenon, <3>1
  <2>3. ASSUME NEW j \in DOMAIN w PROVE \E i \in DOMAIN q : q[i].id = w[j].id
    <3>1. w[j].id \in {q[i].id : i \in DOMAIN q}
      BY Zenon, <2>1
    <3> QED BY Zenon, <3>1
  <2> QED BY Zenon, <2>2, <2>3
<1> QED
  BY <1>1, <1>4, <1>5

Contributions(view, request) ==
    [i \in DOMAIN view.snapshot.policies |-> Contribution(view, request, i)]

(* What both views say of a policy both hold.                              *)
LEMMA SaysAgree ==
    ASSUME RolloutInv, Compiled.err = "none", NEW k \in DOMAIN Requests,
           NEW i \in DOMAIN View(current).snapshot.policies,
           NEW j \in DOMAIN View(candidate).snapshot.policies,
           View(current).snapshot.policies[i] = View(candidate).snapshot.policies[j]
    PROVE  Contributions(View(current), Requests[k])[i] =
             Contributions(View(candidate), Requests[k])[j]
<1> DEFINE old == View(current)
           new == View(candidate)
           policy == old.snapshot.policies[i]
<1>1. PICK r \in Records : /\ r.id = policy.id /\ r.revision = policy.revision
                           /\ old.says[policy.id] = r.document.says
  BY Zenon, ViewPolicies DEF RolloutInv
<1>2. PICK s \in Records : /\ s.id = policy.id /\ s.revision = policy.revision
                           /\ new.says[policy.id] = s.document.says
  BY ViewPolicies DEF RolloutInv, Compiled
<1>3. old.says[policy.id] = new.says[policy.id]
  <2> HIDE DEF policy, old, new
  <2> QED BY Zenon, <1>1, <1>2, RolloutAssumption DEF Records
<1>4. Contribution(old, Requests[k], i) = Contribution(new, Requests[k], j)
  <2> HIDE DEF old, new
  <2> QED BY Zenon, <1>3 DEF Contribution, old, new
<1> QED
  BY Zenon, <1>4 DEF Contributions

LEMMA ContributionOutcome ==
    ASSUME NEW view, NEW request, NEW i
    PROVE  \/ Contribution(view, request, i).outcome = "NotApplicable"
           \/ Contribution(view, request, i).outcome =
                view.says[view.snapshot.policies[i].id][request.name].outcome
<1>1. CASE ActiveAt(view.snapshot.policies[i], request.time)
  BY Zenon, <1>1 DEF Contribution, NotApplicableDecision
<1>2. CASE ~ActiveAt(view.snapshot.policies[i], request.time)
  BY Zenon, <1>2 DEF Contribution, NotApplicableDecision
<1> QED
  BY Zenon, <1>1, <1>2

(* What a policy contributes is an outcome the combination knows.          *)
LEMMA ContributionOutcomes ==
    ASSUME NEW m \in ManifestRecord, Compile(m).err = "none", Range(m.policies) \subseteq Records,
           NEW k \in DOMAIN Requests
    PROVE  LET c == Contributions(View(m), Requests[k]) IN
           /\ c \in Seq({c[i] : i \in DOMAIN c})
           /\ \A i \in DOMAIN c : c[i].outcome \in ValidOutcomes \cup {"error"}
<1> DEFINE policies == View(m).snapshot.policies
           c == Contributions(View(m), Requests[k])
<1>1. policies \in Seq(Policy)
  BY Zenon, ViewPolicies
<1>2. DOMAIN policies = 1..Len(policies) /\ Len(policies) \in Nat
  <2> HIDE DEF policies
  <2> QED BY <1>1
<1>3. DOMAIN c = DOMAIN policies /\ \A i \in DOMAIN c : c[i] = Contribution(View(m), Requests[k], i)
  BY Zenon DEF Contributions
<1>4. c \in Seq({c[i] : i \in DOMAIN c})
  <2>1. c = [i \in 1..Len(policies) |-> Contribution(View(m), Requests[k], i)]
    BY Zenon, <1>2 DEF Contributions
  <2> HIDE DEF policies
  <2>2. \A i \in 1..Len(policies) : Contribution(View(m), Requests[k], i) \in {c[j] : j \in DOMAIN c}
    BY Zenon, <1>2, <1>3
  <2> HIDE DEF c
  <2> QED BY <1>2, <2>1, <2>2
<1>5. ASSUME NEW i \in DOMAIN c PROVE c[i].outcome \in ValidOutcomes \cup {"error"}
  <2>1. PICK r \in Records : View(m).says[policies[i].id] = r.document.says
    BY Zenon, <1>3, ViewPolicies
  <2>2. r.document.says[Requests[k].name].outcome \in ValidOutcomes \cup {"error"}
    <3>1. r \in Record
      BY Zenon, RolloutAssumption DEF Records
    <3>2. r.document \in Document
      BY Zenon, <3>1, RecordFields
    <3>3. r.document.says \in [{Requests[x].name : x \in DOMAIN Requests} -> Evaluation]
      BY Zenon, <3>2 DEF Document
    <3>4. r.document.says[Requests[k].name] \in Evaluation
      BY Zenon, <3>3
    <3> QED
      BY Zenon, <3>4 DEF Evaluation
  <2>3. c[i].outcome = "NotApplicable" \/ c[i].outcome = r.document.says[Requests[k].name].outcome
    <3> DEFINE view == View(m)
               request == Requests[k]
               x == Contribution(view, request, i)
    <3>1. x.outcome = "NotApplicable" \/ 
              x.outcome = view.says[view.snapshot.policies[i].id][request.name].outcome
      <4> HIDE DEF view, request
      <4> QED BY Zenon, ContributionOutcome
    <3>2. c[i] = x /\ policies = view.snapshot.policies
      BY Zenon, <1>3
    <3> HIDE DEF x, c, policies
    <3> QED
      BY Zenon, <2>1, <3>1, <3>2
  <2> QED
    BY Zenon, <2>2, <2>3 DEF ValidOutcomes
<1> QED
  BY Zenon, <1>4, <1>5

LEMMA DecideComposes ==
    ASSUME NEW view, NEW request
    PROVE  Decide(view, request) = Compose(view.snapshot.algorithm, Contributions(view, request))
BY Zenon DEF Decide, Contributions

LEMMA SameDecisions ==
    ASSUME RolloutInv, Compiled.err = "none", NEW k \in DOMAIN Requests,
           Unchanged(Diff(View(current), View(candidate)))
    PROVE  LET before == Decide(View(current), Requests[k])
               after == Decide(View(candidate), Requests[k]) IN
           /\ candidate.algorithm = "PriorityOrder" => before = after
           /\ /\ candidate.algorithm \in {"DenyOverrides", "AllowOverrides"}
              /\ before.err = "none" /\ after.err = "none"
              => before.outcome = after.outcome
<1> DEFINE old == View(current)
           new == View(candidate)
           s == old.snapshot
           t == new.snapshot
           c == Contributions(old, Requests[k])
           d == Contributions(new, Requests[k])
<1>1. /\ current \in ManifestRecord /\ Compile(current).err = "none"
      /\ Range(current.policies) \subseteq Records
      /\ candidate \in ManifestRecord /\ Compile(candidate).err = "none"
      /\ Range(candidate.policies) \subseteq Records
  BY Zenon DEF RolloutInv, Compiled
<1>2. /\ s.policies \in Seq(Policy) /\ s.algorithm = current.algorithm
      /\ \A i, j \in DOMAIN s.policies : s.policies[i].id = s.policies[j].id => i = j
      /\ current.algorithm = "PriorityOrder" =>
           \A i, j \in DOMAIN s.policies : i < j => EvaluatedBefore(s.policies[i], s.policies[j])
  BY Zenon, <1>1, ViewPolicies
<1>3. /\ t.policies \in Seq(Policy) /\ t.algorithm = candidate.algorithm
      /\ \A i, j \in DOMAIN t.policies : t.policies[i].id = t.policies[j].id => i = j
      /\ candidate.algorithm = "PriorityOrder" =>
           \A i, j \in DOMAIN t.policies : i < j => EvaluatedBefore(t.policies[i], t.policies[j])
  BY Zenon, <1>1, ViewPolicies
<1>4. /\ s.algorithm = t.algorithm
      /\ \A i \in DOMAIN s.policies : \E j \in DOMAIN t.policies : s.policies[i] = t.policies[j]
      /\ \A j \in DOMAIN t.policies : \E i \in DOMAIN s.policies : s.policies[i] = t.policies[j]
  <2>1. Unchanged(Diff(old, new))
    BY Zenon
  <2> HIDE DEF old, new
  <2> QED BY Zenon, <1>2, <1>3, <2>1, UnchangedPolicies
<1>5. DOMAIN c = DOMAIN s.policies /\ DOMAIN d = DOMAIN t.policies
  BY Zenon DEF Contributions
<1>6. \A i \in DOMAIN s.policies, j \in DOMAIN t.policies :
        s.policies[i] = t.policies[j] => c[i] = d[j]
  BY Zenon, SaysAgree
<1>7. /\ Decide(old, Requests[k]) = Compose(s.algorithm, c)
      /\ Decide(new, Requests[k]) = Compose(t.algorithm, d)
  BY Zenon, DecideComposes
<1>8. /\ c \in Seq({c[i] : i \in DOMAIN c})
      /\ \A i \in DOMAIN c : c[i].outcome \in ValidOutcomes \cup {"error"}
      /\ d \in Seq({d[i] : i \in DOMAIN d})
      /\ \A i \in DOMAIN d : d[i].outcome \in ValidOutcomes \cup {"error"}
  BY Zenon, <1>1, ContributionOutcomes
<1>9. CASE candidate.algorithm = "PriorityOrder"
  <2>1. s.policies = t.policies
    <3> HIDE DEF s, t
    <3> QED BY Zenon, <1>2, <1>3, <1>4, <1>9, OrderIsUnique
  <2>2. c = d
    <3>1. c = [i \in DOMAIN s.policies |-> c[i]] /\ d = [i \in DOMAIN t.policies |-> d[i]]
      BY Zenon DEF Contributions
    <3> HIDE DEF s, t, c, d
    <3> QED BY Zenon, <1>6, <2>1, <3>1
  <2>3. Decide(old, Requests[k]) = Decide(new, Requests[k])
    BY Zenon, <1>4, <1>7, <2>2
  <2> QED
    BY Zenon, <1>9, <2>3
<1>10. CASE candidate.algorithm \in {"DenyOverrides", "AllowOverrides"}
  <2> SUFFICES ASSUME Compose(s.algorithm, c).err = "none", Compose(t.algorithm, d).err = "none"
               PROVE  Compose(s.algorithm, c).outcome = Compose(t.algorithm, d).outcome
    BY Zenon, <1>7, <1>10
  <2>1. {c[i].outcome : i \in DOMAIN c} = {d[i].outcome : i \in DOMAIN d}
    <3> HIDE DEF c, d, s, t
    <3>1. \A i \in DOMAIN c : \E j \in DOMAIN d : c[i] = d[j]
      BY Zenon, <1>4, <1>5, <1>6
    <3>2. \A j \in DOMAIN d : \E i \in DOMAIN c : c[i] = d[j]
      BY <1>4, <1>5, <1>6
    <3> QED BY <3>1, <3>2
  <2> HIDE DEF c, d, s, t
  <2>2. s.algorithm \in {"DenyOverrides", "AllowOverrides"} /\ t.algorithm = s.algorithm
    BY Zenon, <1>3, <1>4, <1>10
  <2>3. Compose(s.algorithm, c).outcome = Overriding(s.algorithm, {c[i].outcome : i \in DOMAIN c})
    BY Zenon, <1>8, <2>2, OverridingOutcome
  <2>4. Compose(t.algorithm, d).outcome = Overriding(s.algorithm, {d[i].outcome : i \in DOMAIN d})
    BY Zenon, <1>8, <2>2, OverridingOutcome
  <2> QED
    BY Zenon, <2>1, <2>3, <2>4
<1>11. CASE candidate.algorithm \notin {"PriorityOrder", "DenyOverrides", "AllowOverrides"}
  BY Zenon, <1>11
<1> QED
  BY Zenon, <1>9, <1>10, <1>11

(* A dry run with no error and no flag asked both views everything.        *)
LEMMA QuietDryRun ==
    ASSUME NEW old, NEW new, NEW alive \in 0..(2 * Len(Requests)),
           Quiet(DryRun(old, new, Requests, alive))
    PROVE  /\ old # NilView /\ new # NilView /\ alive = 2 * Len(Requests)
           /\ \A i \in DOMAIN Requests : Decide(old, Requests[i]) = Decide(new, Requests[i])
<1> DEFINE n == Len(Requests)
           before == DecideBatch(old, Requests, alive)
           after == DecideBatch(new, Requests, alive - n)
           report == DryRun(old, new, Requests, alive)
           errs == {before[i].err : i \in 1..n} \cup {after[i].err : i \in 1..n}
<1>1. n \in Nat /\ DOMAIN Requests = 1..n /\ alive \in Nat /\ alive <= 2 * n
  BY RolloutAssumption
<1>2. /\ DryRunError(old, new, Requests) = "none"
      /\ report.err = {} /\ \A i \in DOMAIN report.decisions : ~report.decisions[i].changed
  <2>1. report.err = {} /\ \A i \in DOMAIN report.decisions : ~report.decisions[i].changed
    BY Zenon DEF Quiet
  <2>2. DryRunError(old, new, Requests) # "none" => report.err = {DryRunError(old, new, Requests)}
    BY Zenon DEF DryRun
  <2> QED BY Zenon, <2>1, <2>2
<1>11. old # NilView /\ new # NilView
  BY Zenon, <1>2 DEF DryRunError
<1>3. /\ report.err = errs \ {"none"} /\ DOMAIN report.decisions = 1..n
      /\ \A i \in 1..n : report.decisions[i].changed = DecisionsDiffer(before[i], after[i])
  BY Zenon, <1>2 DEF DryRun
<1>4. \A i \in 1..n : before[i].err = "none" /\ after[i].err = "none"
  <2> HIDE DEF before, after, n, report
  <2> QED BY Zenon, <1>2, <1>3
<1>5. \A i \in 1..n : ~DecisionsDiffer(before[i], after[i])
  <2> HIDE DEF before, after, n, report
  <2> QED BY Zenon, <1>2, <1>3
<1>6. \A i \in 1..n :
        /\ i <= alive => before[i] = Decide(old, Requests[i])
        /\ ~(i <= alive) => before[i] = Failure("ContextCanceled", "ContextError")
        /\ i <= alive - n => after[i] = Decide(new, Requests[i])
        /\ ~(i <= alive - n) => after[i] = Failure("ContextCanceled", "ContextError")
  BY Zenon, <1>1 DEF DecideBatch
<1>7. Failure("ContextCanceled", "ContextError").err # "none"
  BY Zenon DEF Failure
<1> HIDE DEF before, after
<1>8. \A i \in 1..n : i <= alive - n
  BY Zenon, <1>4, <1>6, <1>7
<1>9. alive = 2 * n
  <2>1. CASE n = 0
    BY <1>1, <2>1
  <2>2. CASE n # 0
    <3>1. n \in 1..n
      BY <1>1, <2>2
    <3> QED BY <1>1, <1>8, <3>1
  <2> QED BY Zenon, <2>1, <2>2
<1>10. ASSUME NEW i \in 1..n PROVE Decide(old, Requests[i]) = Decide(new, Requests[i])
  <2>1. i <= alive /\ i <= alive - n
    BY <1>1, <1>8
  <2>2. before[i] = Decide(old, Requests[i]) /\ after[i] = Decide(new, Requests[i])
    BY Zenon, <1>6, <2>1
  <2>3. /\ before[i] = Compose(old.snapshot.algorithm, Contributions(old, Requests[i]))
        /\ after[i] = Compose(new.snapshot.algorithm, Contributions(new, Requests[i]))
    BY Zenon, <2>2, DecideComposes
  <2>4. /\ before[i].outcome = after[i].outcome /\ before[i].reason = after[i].reason
        /\ before[i].matched = after[i].matched
        /\ before[i].matchedTruncated = after[i].matchedTruncated
        /\ before[i].err = after[i].err
    BY Zenon, <1>4, <1>5 DEF DecisionsDiffer
  <2>5. before[i] = after[i]
    BY <2>3, <2>4, DecisionParts
  <2> QED
    BY Zenon, <2>2, <2>5
<1> QED
  BY Zenon, <1>1, <1>9, <1>10, <1>11

(* Nothing reported means nothing changed: an empty Diff leaves decisions  *)
(* (under PriorityOrder) or outcomes (under the overriding algorithms) as  *)
(* they are, and a dry run without error or flag compared two complete     *)
(* evaluations (Diff and DryRun of policy/policy.go).                      *)
THEOREM ReviewTrue == Spec => []ReviewTellsTheTruth
<1>1. ASSUME RolloutInv PROVE ReviewTellsTheTruth
  <2> SUFFICES ASSUME Compiled.err = "none",
                      NEW old \in {NilView, View(current)}, NEW new \in {NilView, View(candidate)}
               PROVE  /\ Unchanged(Diff(old, new)) =>
                           \A i \in DOMAIN Requests :
                               LET before == Decide(old, Requests[i])
                                   after == Decide(new, Requests[i]) IN
                               /\ candidate.algorithm = "PriorityOrder" => before = after
                               /\ /\ candidate.algorithm \in {"DenyOverrides", "AllowOverrides"}
                                  /\ before.err = "none" /\ after.err = "none"
                                  => before.outcome = after.outcome
                      /\ \A alive \in 0..(2 * Len(Requests)) :
                           Quiet(DryRun(old, new, Requests, alive)) =>
                               /\ NilView \notin {old, new} /\ alive = 2 * Len(Requests)
                               /\ \A i \in DOMAIN Requests :
                                    Decide(old, Requests[i]) = Decide(new, Requests[i])
    BY Zenon DEF ReviewTellsTheTruth
  <2>1. ASSUME Unchanged(Diff(old, new)), NEW i \in DOMAIN Requests
        PROVE  LET before == Decide(old, Requests[i])
                   after == Decide(new, Requests[i]) IN
               /\ candidate.algorithm = "PriorityOrder" => before = after
               /\ /\ candidate.algorithm \in {"DenyOverrides", "AllowOverrides"}
                  /\ before.err = "none" /\ after.err = "none"
                  => before.outcome = after.outcome
    <3>1. old = View(current) /\ new = View(candidate)
      BY Zenon, <2>1, UnchangedViews
    <3> QED
      BY Zenon, <1>1, <2>1, <3>1, SameDecisions
  <2>2. ASSUME NEW alive \in 0..(2 * Len(Requests)), Quiet(DryRun(old, new, Requests, alive))
        PROVE  /\ NilView \notin {old, new} /\ alive = 2 * Len(Requests)
               /\ \A i \in DOMAIN Requests : Decide(old, Requests[i]) = Decide(new, Requests[i])
    BY Zenon, <2>2, QuietDryRun
  <2> QED
    BY Zenon, <2>1, <2>2
<1> QED
  BY <1>1, RolloutInvariant, PTL

-----------------------------------------------------------------------------
(* What decoders are called on                                             *)

LEMMA CallsArePrefix ==
    ASSUME NEW m, NEW n \in Nat, DOMAIN m.policies = 1..n, NEW k \in DecoderCalls(m),
           \A j \in DecoderCalls(m) : j <= k
    PROVE  DecoderCalls(m) = 1..k
<1> DEFINE calls == DecoderCalls(m)
<1>1. calls = {i \in 1..n : /\ AdmissionError(m, i) = "none"
                            /\ \A j \in 1..(i-1) : CompileRecordError(m, j) = "none"}
  BY Zenon DEF DecoderCalls
<1>2. k \in 1..n /\ \A j \in 1..(k-1) : CompileRecordError(m, j) = "none"
  BY Zenon, <1>1
<1>3. ASSUME NEW j \in 1..k, j # k PROVE j \in calls
  <2>1. j \in 1..n /\ j \in 1..(k-1) /\ \A i \in 1..(j-1) : i \in 1..(k-1)
    BY <1>2, <1>3
  <2>2. AdmissionError(m, j) = "none"
    BY Zenon, <1>2, <2>1, CompileRecordChecks
  <2> QED
    BY Zenon, <1>1, <1>2, <2>1, <2>2
<1>4. calls \subseteq 1..k
  BY <1>1
<1> HIDE DEF calls
<1>5. 1..k \subseteq calls
  BY Zenon, <1>3 DEF calls
<1> QED
  BY Zenon, <1>4, <1>5 DEF calls

LEMMA BudgetKept ==
    ASSUME NEW m \in ManifestRecord
    PROVE  LET calls == DecoderCalls(m)
               bytes == [i \in DOMAIN m.policies |-> m.policies[i].document.bytes] IN
           /\ Cardinality(calls) <= MaxPolicies
           /\ \A i \in calls : bytes[i] <= MaxDocumentBytes /\ m.policies[i].document.object
           /\ FoldFunctionOnSet(+, 0, bytes, calls) <= MaxTotalDocumentBytes
<1> DEFINE calls == DecoderCalls(m)
           n == Len(m.policies)
           bytes == [i \in DOMAIN m.policies |-> m.policies[i].document.bytes]
           sum == FoldFunctionOnSet(+, 0, bytes, calls)
<1>1. m.policies \in Seq(Record) /\ DOMAIN m.policies = 1..n /\ n \in Nat
  BY Zenon, ManifestFields
<1>2. calls \subseteq 1..n
  BY Zenon, <1>1 DEF DecoderCalls
<1>3. \A i \in 1..n : bytes[i] = m.policies[i].document.bytes /\ bytes[i] \in Nat
  <2> SUFFICES ASSUME NEW i \in 1..n PROVE bytes[i] = m.policies[i].document.bytes /\ bytes[i] \in Nat
    BY Zenon
  <2>1. m.policies[i] \in Record
    BY <1>1
  <2>2. m.policies[i].document \in Document
    BY Zenon, <2>1, RecordFields
  <2> QED
    BY Zenon, <1>1, <2>2, DocumentFields
<1>4. IsFiniteSet(1..n) /\ Cardinality(1..n) = n
  BY <1>1, FS_Interval
<1>5. IsFiniteSet(calls) /\ Cardinality(calls) <= n
  BY Zenon, <1>2, <1>4, FS_Subset
<1>6. MaxPolicies \in Nat /\ MaxDocumentBytes \in Nat /\ MaxTotalDocumentBytes \in Nat
  BY Zenon, RolloutAssumption
<1>7. PICK g : IsSum(g, bytes, calls) /\ sum = g[calls]
  <2>1. \A i \in calls : bytes[i] \in Nat
    BY Zenon, <1>2, <1>3
  <2> HIDE DEF calls, bytes
  <2> QED BY Zenon, <1>5, <2>1, FoldSums
<1> HIDE DEF sum
<1>8. CASE calls = {}
  <2>1. Cardinality(calls) = 0
    BY Zenon, <1>8, FS_EmptySet
  <2>2. g[calls] = 0
    BY Zenon, <1>7, <1>8 DEF IsSum
  <2> HIDE DEF calls, bytes
  <2>3. /\ Cardinality(calls) <= MaxPolicies
        /\ sum <= MaxTotalDocumentBytes
    BY <1>6, <1>7, <2>1, <2>2
  <2> QED
    BY Zenon, <1>8, <2>3 DEF calls, bytes, sum
<1>9. CASE calls # {}
  <2>1. /\ Validate(m) = "none" /\ ~(n > MaxPolicies)
        /\ \A i \in calls : AdmissionError(m, i) = "none"
    BY Zenon, <1>9 DEF DecoderCalls
  <2>2. Cardinality(calls) <= MaxPolicies
    <3>1. Cardinality(calls) \in Nat
      BY Zenon, <1>5, FS_CardinalityType
    <3> QED BY <1>1, <1>5, <1>6, <2>1, <3>1
  <2>3. ASSUME NEW i \in calls
        PROVE  bytes[i] <= MaxDocumentBytes /\ m.policies[i].document.object
    <3>1. i \in 1..n /\ i \in DOMAIN m.policies
      BY Zenon, <1>1, <1>2
    <3>2. RecordError(m, i) = "none"
      BY Zenon, <2>1, <3>1, ValidateChecks
    <3>3. m.policies[i].document.object
      BY Zenon, <3>1, <3>2, RecordChecks
    <3>4. ~(m.policies[i].document.bytes > MaxDocumentBytes)
      BY Zenon, <2>1, AdmissionChecks
    <3>5. bytes[i] = m.policies[i].document.bytes /\ bytes[i] \in Nat
      BY Zenon, <1>3, <3>1
    <3>6. ~(bytes[i] > MaxDocumentBytes)
      BY Zenon, <3>4, <3>5
    <3> HIDE DEF bytes
    <3> QED
      BY <1>6, <3>3, <3>5, <3>6
  <2>4. PICK k \in calls : \A j \in calls : j <= k
    <3> HIDE DEF calls, n
    <3>1. Max(calls) \in calls /\ \A j \in calls : Max(calls) >= j
      BY Zenon, <1>1, <1>2, <1>9, MaxOfRange
    <3> QED BY Zenon, <1>2, <3>1
  <2>5. calls = 1..k
    BY Zenon, <1>1, <2>4, CallsArePrefix
  <2>6. k \in 1..n
    BY Zenon, <1>2
  <2> DEFINE before == [j \in 1..(k-1) |-> m.policies[j].document.bytes]
  <2>7. BytesBefore(m, k) = FoldFunctionOnSet(+, 0, before, 1..(k-1))
    BY Zenon DEF BytesBefore, Total, FoldFunction
  <2>8. \A j \in 1..(k-1) : before[j] = bytes[j] /\ before[j] \in Nat
    <3> SUFFICES ASSUME NEW j \in 1..(k-1) PROVE before[j] = bytes[j] /\ before[j] \in Nat
      BY Zenon
    <3>1. j \in 1..n
      BY <1>1, <2>6
    <3>2. bytes[j] = m.policies[j].document.bytes /\ bytes[j] \in Nat
      BY Zenon, <1>3, <3>1
    <3>3. before[j] = m.policies[j].document.bytes
      BY Zenon
    <3> HIDE DEF before, bytes
    <3> QED BY Zenon, <3>2, <3>3
  <2>9. IsFiniteSet(1..(k-1))
    BY <2>6, FS_Interval
  <2> HIDE DEF calls, bytes, before
  <2>10. PICK h : IsSum(h, before, 1..(k-1)) /\ BytesBefore(m, k) = h[1..(k-1)]
    BY Zenon, <2>7, <2>8, <2>9, FoldSums
  <2>11. 1..(k-1) \subseteq calls /\ calls \ {k} = 1..(k-1)
    BY <2>5, <2>6
  <2>12. \A i \in calls : bytes[i] \in Nat
    BY Zenon, <1>2, <1>3
  <2> DEFINE part == 1..(k-1)
  <2>13. h[part] = g[part]
    <3>1. IsSum(h, before, part) /\ part \subseteq calls /\ \A x \in part : before[x] = bytes[x]
      BY Zenon, <2>8, <2>10, <2>11
    <3> HIDE DEF part
    <3> QED BY <1>7, <3>1, SumsAgree
  <2>14. g[calls] = bytes[k] + g[calls \ {k}] /\ g[part] \in Nat
    <3>1. part \in SUBSET calls
      BY Zenon, <2>11
    <3> HIDE DEF part
    <3>2. g[part] \in Nat
      BY Zenon, <1>7, <3>1, SumPeels
    <3>3. calls \in SUBSET calls /\ k \in calls
      BY Zenon
    <3>4. g[calls] = bytes[k] + g[calls \ {k}]
      BY <1>7, <3>3, SumPeels
    <3> QED BY Zenon, <3>2, <3>4
  <2>15. ~(bytes[k] > MaxTotalDocumentBytes - BytesBefore(m, k))
    <3>1. AdmissionError(m, k) = "none"
      BY Zenon, <2>1, <2>4
    <3>2. ~(m.policies[k].document.bytes > MaxTotalDocumentBytes - BytesBefore(m, k))
      BY Zenon, <3>1, AdmissionChecks
    <3> QED BY Zenon, <1>3, <2>6, <3>2
  <2>16. sum <= MaxTotalDocumentBytes
    <3> DEFINE a == bytes[k]
               b == g[part]
    <3>1. a \in Nat /\ b \in Nat /\ ~(a > MaxTotalDocumentBytes - b) /\ sum = a + b
      BY Zenon, <1>7, <2>4, <2>10, <2>11, <2>12, <2>13, <2>14, <2>15
    <3> HIDE DEF a, b
    <3> QED BY <1>6, <3>1
  <2> QED
    BY Zenon, <2>2, <2>3, <2>16 DEF calls, bytes, sum
<1> QED
  BY Zenon, <1>8, <1>9

(* Whatever is drafted, decoders are called on no more documents and bytes *)
(* than CompilerLimits allow (Compile of policy/compiler.go).              *)
THEOREM BudgetHolds == Spec => []DecodingStaysInBudget
<1>1. ASSUME RolloutInv PROVE DecodingStaysInBudget
  BY Zenon, <1>1, BudgetKept DEF RolloutInv, DecodingStaysInBudget
<1> QED
  BY <1>1, RolloutInvariant, PTL

=============================================================================
