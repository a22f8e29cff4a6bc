------------------------------- MODULE Manifest -------------------------------
(***************************************************************************)
(* Portable manifests and their compilation: policy/manifest.go and        *)
(* policy/compiler.go.                                                     *)
(*                                                                         *)
(* json.MarshalIndent does not keep what it writes.  An ID that is not     *)
(* UTF-8 gets replacement characters (UTF8).  An instant [at, written,     *)
(* writable] is written in RFC 3339, which drops the seconds of its zone   *)
(* and cannot express every year; the nil pointer to one is <<>>.  A       *)
(* document is laid out anew, which may fail; its decoder is then given    *)
(* other bytes (laidOut many) and may find (relaid) otherwise than before. *)
(***************************************************************************)
EXTENDS Snapshot

CONSTANTS
    MaxPolicies, MaxDocumentBytes, MaxTotalDocumentBytes,  \* CompilerLimits
    MaxEncodedManifestBytes,  \* maxEncodedManifestBytes
    RecordOverhead,           \* encoded bytes of a record besides its document
    UTF8,                     \* an ID as encoding/json writes and reads it
    EscapeBytes,              \* more bytes to escape what is no UTF-8 than to write it after
    Decoders                  \* the models with a registered decoder

Models == {"acl", "rbac", "abac", "composite"}

(* Variant with a mistake: duplicates are left to NewSnapshot.             *)
RecordErrorRepeating(m, i) ==
    LET r == m.policies[i] IN
    FirstError(<<
        <<r.id = 0 \/ r.revision = 0 \/ r.model \notin Models \/ ~r.document.object,
          "ErrInvalidManifest">>,
        <<IF r.from = <<>> \/ r.until = <<>> THEN FALSE ELSE ~(r.until[1].at > r.from[1].at),
          "ErrInvalidManifest">> >>)

(* What Manifest.Validate finds at record i.                               *)
RecordError(m, i) ==
    LET r == m.policies[i] IN
    FirstError(<<
        <<r.id = 0 \/ r.revision = 0 \/ r.model \notin Models \/ ~r.document.object,
          "ErrInvalidManifest">>,
        <<\E j \in 1..(i-1) : m.policies[j].id = r.id, "ErrDuplicateRecord">>,
        <<IF r.from = <<>> \/ r.until = <<>> THEN FALSE ELSE ~(r.until[1].at > r.from[1].at),
          "ErrInvalidManifest">> >>)

Validate(m) ==
    IF ~m.formatV1 \/ m.revision = 0 \/ m.algorithm \notin Algorithms
    THEN "ErrInvalidManifest"
    ELSE FirstFailure(Len(m.policies), LAMBDA i : RecordError(m, i))

-----------------------------------------------------------------------------
(* Encode and Decode                                                       *)

Total(numbers) == FoldFunction(+, 0, numbers)

WrittenPointer(p) == [i \in DOMAIN p |-> [p[i] EXCEPT !.at = p[i].written]]

LaidOut(d) == [d EXCEPT !.bytes = d.laidOut, !.decodes = d.relaid]

(* A record as a reader of what MarshalIndent wrote finds it.              *)
WrittenRecord(r) ==
    [r EXCEPT !.id = UTF8[r.id], !.from = WrittenPointer(r.from),
              !.until = WrittenPointer(r.until), !.document = LaidOut(r.document)]

Written(m) == [m EXCEPT !.policies = [i \in DOMAIN m.policies |-> WrittenRecord(m.policies[i])]]

(* Where MarshalIndent returns no error.                                   *)
Writable(m) ==
    \A r \in Range(m.policies) :
        r.document.writable /\ \A t \in Range(r.from) \cup Range(r.until) : t.writable

RecordBytes(r) ==
    RecordOverhead + r.document.laidOut + IF UTF8[r.id] = r.id THEN 0 ELSE EscapeBytes

MarshaledBytes(m) == Total([i \in DOMAIN m.policies |-> RecordBytes(m.policies[i])])

Wire(m) == [bytes |-> MarshaledBytes(m) + 1, syntax |-> "value", manifest |-> Written(m)]

(* Variant with a mistake: the final newline is not counted.               *)
EncodeUncounted(m) ==
    [err |-> FirstError(<<
        <<Validate(m) # "none", Validate(m)>>, <<~Writable(m), "MarshalError">>,
        <<MarshaledBytes(m) > MaxEncodedManifestBytes, "ErrManifestLimitExceeded">> >>),
     wire |-> Wire(m)]

Encode(m) ==
    [err |-> FirstError(<<
        <<Validate(m) # "none", Validate(m)>>, <<~Writable(m), "MarshalError">>,
        <<MarshaledBytes(m) + 1 > MaxEncodedManifestBytes, "ErrManifestLimitExceeded">> >>),
     wire |-> Wire(m)]

Decode(wire) ==
    LET err == FirstError(<<
            <<wire.bytes > MaxEncodedManifestBytes, "ErrManifestLimitExceeded">>,
            <<wire.syntax # "value", "ErrInvalidManifest">>,
            <<Validate(wire.manifest) # "none", Validate(wire.manifest)>> >>)
    IN  [err |-> err, manifest |-> wire.manifest]

-----------------------------------------------------------------------------
(* Compile                                                                 *)

BytesBefore(m, i) == Total([j \in 1..(i-1) |-> m.policies[j].document.bytes])

(* Variant with a mistake: each document is compared with the whole.       *)
AdmissionErrorUnsummed(m, i) ==
    LET bytes == m.policies[i].document.bytes IN
    FirstError(<<
        <<bytes > MaxDocumentBytes, "ErrDocumentLimitExceeded">>,
        <<bytes > MaxTotalDocumentBytes, "ErrTotalDocumentLimitExceeded">>,
        <<m.policies[i].model \notin Decoders, "ErrMissingDecoder">> >>)

(* What Compile checks of record i before its decoder is called.           *)
AdmissionError(m, i) ==
    LET bytes == m.policies[i].document.bytes IN
    FirstError(<<
        <<bytes > MaxDocumentBytes, "ErrDocumentLimitExceeded">>,
        <<bytes > MaxTotalDocumentBytes - BytesBefore(m, i), "ErrTotalDocumentLimitExceeded">>,
        <<m.policies[i].model \notin Decoders, "ErrMissingDecoder">> >>)

CompileRecordError(m, i) ==
    LET decoded == m.policies[i].document.decodes IN
    FirstError(<<
        <<AdmissionError(m, i) # "none", AdmissionError(m, i)>>,
        <<decoded = "error", "DecoderError">>,
        <<decoded = "nil", "ErrNilEvaluator">> >>)

Deref(pointer) == IF pointer = <<>> THEN 0 ELSE pointer[1].at

Definition(r) ==
    [id |-> r.id, evaluator |-> TRUE, revision |-> r.revision, priority |-> r.priority,
     activeFrom |-> Deref(r.from), activeUntil |-> Deref(r.until)]

(* Everything Compile may return before it builds the snapshot.            *)
LoopError(m) ==
    IF Validate(m) # "none" THEN Validate(m)
    ELSE IF Len(m.policies) > MaxPolicies THEN "ErrPolicyLimitExceeded"
    ELSE FirstFailure(Len(m.policies), LAMBDA i : CompileRecordError(m, i))

Compile(m) ==
    LET built == NewSnapshot(m.revision, m.algorithm,
                             [i \in DOMAIN m.policies |-> Definition(m.policies[i])])
    IN  [err |-> IF LoopError(m) # "none" THEN LoopError(m) ELSE built.err,
         snapshot |-> built.snapshot]

(* The records whose decoder Compile calls, in order.                      *)
DecoderCalls(m) ==
    IF Validate(m) # "none" \/ Len(m.policies) > MaxPolicies THEN {}
    ELSE {i \in DOMAIN m.policies :
            /\ AdmissionError(m, i) = "none"
            /\ \A j \in 1..(i-1) : CompileRecordError(m, j) = "none"}

=============================================================================
