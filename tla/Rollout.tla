-------------------------------- MODULE Rollout --------------------------------
(***************************************************************************)
(* A policy change from draft to activation, as docs/policy-lifecycle.md   *)
(* orders it: a candidate manifest is drafted record by record, encoded,   *)
(* decoded, compiled, compared with the current one, and becomes current.  *)
(***************************************************************************)
EXTENDS Manifest, Review

CONSTANTS
    SoundRecords,      \* records that compile, each document named by ID and revision
    FlawedRecords,     \* records some check refuses
    DraftAlgorithms,   \* the algorithms drafts name
    Requests,          \* the requests of the dry run
    MaxDraft           \* bound on the records of a draft

(* What the code's types allow of a record and of a manifest.              *)
Instant == [at: Nat, written: Nat, writable: BOOLEAN]
Pointer == {p \in Seq(Instant) : Len(p) <= 1}
Evaluation == [outcome: ValidOutcomes \cup {"error"}, reason: STRING,
               matched: Seq(Nat), matchedTruncated: BOOLEAN]
DecoderResult == {"evaluator", "error", "nil"}
Document == [object: BOOLEAN, writable: BOOLEAN, bytes: Nat, laidOut: Nat,
             decodes: DecoderResult, relaid: DecoderResult,
             says: [{Requests[i].name : i \in DOMAIN Requests} -> Evaluation]]
Record == [id: Nat, revision: Nat, model: Models \cup {"unknown"}, priority: Int,
           from: Pointer, until: Pointer, document: Document]
ManifestRecord == [formatV1: BOOLEAN, revision: Nat, algorithm: Algorithms \cup {"unknown"},
                   policies: Seq(Record)]

(* WithCompilerLimits and WithLimits ignore limits that are not positive.  *)
(* Replacement characters are UTF-8 and no ID becomes empty.  Publishers   *)
(* assign a revision of a policy to one document.                          *)
ASSUME RolloutAssumption ==
    /\ MaxPolicies \in Nat /\ MaxDocumentBytes \in Nat /\ MaxTotalDocumentBytes \in Nat
    /\ MaxEncodedManifestBytes \in Nat /\ RecordOverhead \in Nat /\ EscapeBytes \in Nat
    /\ MaxEnginePolicies \in Nat /\ MaxBatchSize \in Nat /\ MaxMatchedPolicyIDs \in Nat
    /\ DraftAlgorithms \subseteq Algorithms \cup {"unknown"}
    /\ Requests \in Seq([name: Nat, time: Nat])
    /\ SoundRecords \cup FlawedRecords \subseteq Record
    /\ \A r \in SoundRecords \cup FlawedRecords :
         /\ UTF8[r.id] \in Nat /\ (UTF8[r.id] = 0 => r.id = 0)
         /\ UTF8[UTF8[r.id]] = UTF8[r.id]
    /\ \A r, s \in SoundRecords \cup FlawedRecords :
         r.id = s.id /\ r.revision = s.revision => r.document.says = s.document.says

VARIABLES
    current,    \* the manifest that is active
    candidate   \* the manifest under review

vars == <<current, candidate>>

Draft(revision, algorithm, formatV1) ==
    [formatV1 |-> formatV1, revision |-> revision, algorithm |-> algorithm, policies |-> <<>>]

Init ==
    /\ current = Draft(1, "DenyOverrides", TRUE)
    /\ candidate \in {Draft(2, algorithm, TRUE) : algorithm \in DraftAlgorithms}
                       \cup {Draft(0, "PriorityOrder", TRUE), Draft(2, "PriorityOrder", FALSE)}

(* Flawed and oversize drafts are all made over the empty first manifest.  *)
AddRecord ==
    LET first == current.revision = 1 IN
    /\ Len(candidate.policies) < IF first THEN MaxDraft ELSE MaxPolicies
    /\ \E r \in SoundRecords \cup (IF first THEN FlawedRecords ELSE {}) :
         candidate' = [candidate EXCEPT !.policies = Append(@, r)]
    /\ UNCHANGED current

(* ReplaceSnapshot: the candidate compiles and has a greater revision.     *)
(* Bounds: one activation, of a draft of sound records.                    *)
Activate ==
    /\ current.revision = 1
    /\ Range(candidate.policies) \subseteq SoundRecords
    /\ Compile(candidate).err = "none"
    /\ candidate.revision > current.revision
    /\ current' = candidate
    /\ \E algorithm \in DraftAlgorithms \cap Algorithms :
         candidate' = Draft(candidate.revision + 1, algorithm, TRUE)

Next == AddRecord \/ Activate

Spec == Init /\ [][Next]_vars

-----------------------------------------------------------------------------
(* Properties                                                              *)

Compiled == Compile(candidate)

View(m) ==
    [snapshot |-> Compile(m).snapshot,
     says |-> [id \in {m.policies[i].id : i \in DOMAIN m.policies} |->
        (CHOOSE r \in Range(m.policies) : r.id = id).document.says]]

(* Validate is as strict as NewSnapshot, although they are written apart   *)
(* and see windows as pointers and as instants: once every record of a     *)
(* valid manifest decodes, the snapshot is built.  And what is built can   *)
(* be told apart and can apply: no two policies share an ID, each has a    *)
(* positive revision and each is active once its window opens.             *)
CompiledManifestsAreUsable ==
    /\ LoopError(candidate) = "none" => Compiled.err = "none"
    /\ Compiled.err = "none" =>
         LET policies == Compiled.snapshot.policies IN
         /\ Len(policies) = Len(candidate.policies)
         /\ \A i, j \in DOMAIN policies : policies[i].id = policies[j].id => i = j
         /\ \A i \in DOMAIN policies :
              /\ policies[i].revision > 0
              /\ ActiveAt(policies[i], policies[i].activeFrom)

(* Decoders, which have no limits of their own to rely on, are called by   *)
(* Compile on no more documents and bytes than CompilerLimits allow, in    *)
(* sum as well as one by one, whether or not the compilation succeeds.     *)
DecodingStaysInBudget ==
    LET calls == DecoderCalls(candidate)
        bytes == [i \in DOMAIN candidate.policies |-> candidate.policies[i].document.bytes] IN
    /\ Cardinality(calls) <= MaxPolicies
    /\ \A i \in calls : bytes[i] <= MaxDocumentBytes /\ candidate.policies[i].document.object
    /\ FoldFunctionOnSet(+, 0, bytes, calls) <= MaxTotalDocumentBytes

(* What MarshalIndent does to IDs and instants merges no two records,      *)
(* closes no window, or does nothing at all.                               *)
StaysDistinct(m) ==
    \A i, j \in DOMAIN m.policies : UTF8[m.policies[i].id] = UTF8[m.policies[j].id] => i = j
StaysOpen(m) ==
    \A r \in Range(m.policies) :
        r.from = <<>> \/ r.until = <<>> \/ r.until[1].written > r.from[1].written
WrittenAsIs(m) ==
    \A r \in Range(m.policies) :
        UTF8[r.id] = r.id /\ \A t \in Range(r.from) \cup Range(r.until) : t.written = t.at

(* What Encode emits, Decode never refuses for its size, and refuses only  *)
(* where writing it merged two IDs or closed a window.  What it decodes to *)
(* is settled: encoding that succeeds again and decodes to the same.  It   *)
(* compiles if the manifest did, unless its documents' new layout is       *)
(* refused; to the same snapshot if IDs and instants were written as is.   *)
EncodedManifestsDecode ==
    Encode(candidate).err = "none" =>
        LET decoded == Decode(Encode(candidate).wire)
            again == Encode(decoded.manifest)
            recompiled == Compile(decoded.manifest) IN
        /\ decoded.err # "ErrManifestLimitExceeded"
        /\ decoded.err = "none" <=> StaysDistinct(candidate) /\ StaysOpen(candidate)
        /\ decoded.err = "none" => again.err = "none" /\ Decode(again.wire) = decoded
        /\ decoded.err = "none" /\ Compiled.err = "none" =>
             /\ recompiled.err \in {"none", "ErrDocumentLimitExceeded",
                    "ErrTotalDocumentLimitExceeded", "DecoderError", "ErrNilEvaluator"}
             /\ recompiled.err = "none" /\ WrittenAsIs(candidate) => recompiled = Compiled

Unchanged(diff) ==
    /\ diff.err = "none" /\ ~diff.algorithmChanged
    /\ diff.added \cup diff.removed \cup diff.changed = {}

Quiet(report) ==
    report.err = {} /\ \A i \in DOMAIN report.decisions : ~report.decisions[i].changed

(* What a reviewer is told is true.  An empty Diff means the decisions     *)
(* stand, given that publishers assign a revision to a document once: the  *)
(* same decisions, diagnostics included, under PriorityOrder, in whatever  *)
(* order the records are listed; the same outcomes under the overriding    *)
(* algorithms while no evaluator fails.  (Diff says it does not see order, *)
(* which FirstApplicable depends on.)  And wherever the context ended and  *)
(* whichever view was missing, a dry run that has no error and flags no    *)
(* decision was made of two complete evaluations, of which every request   *)
(* gets the same outcome, reason, matched IDs and truncation.              *)
ReviewTellsTheTruth ==
    Compiled.err = "none" =>
        \A old \in {NilView, View(current)}, new \in {NilView, View(candidate)} :
            /\ Unchanged(Diff(old, new)) =>
                 \A i \in DOMAIN Requests :
                     LET before == Decide(old, Requests[i])
                         after == Decide(new, Requests[i]) IN
                     /\ candidate.algorithm = "PriorityOrder" => before = after
                     /\ /\ candidate.algorithm \in {"DenyOverrides", "AllowOverrides"}
                        /\ before.err = "none" /\ after.err = "none"
                        => before.outcome = after.outcome
            /\ \A alive \in 0..(2 * Len(Requests)) :
                 Quiet(DryRun(old, new, Requests, alive)) =>
                     /\ NilView \notin {old, new} /\ alive = 2 * Len(Requests)
                     /\ \A i \in DOMAIN Requests :
                          Decide(old, Requests[i]) = Decide(new, Requests[i])

=============================================================================
