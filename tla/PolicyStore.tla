----------------------------- MODULE PolicyStore -----------------------------
(***************************************************************************)
(* The authoritative manifest: postgres/store.go.  The content of a        *)
(* manifest is the sequence of changes behind it, one per publisher.  A    *)
(* publisher follows docs/postgres.md: Load, add its change, Update with   *)
(* the loaded revision, Load again after a conflict or an error.  An error *)
(* of the driver says nothing about the statement: it may never run, may   *)
(* have run, or may still run later on the server.                         *)
(***************************************************************************)
EXTENDS Naturals, Sequences, Functions

CONSTANTS
    Publishers,
    MaxStoredRevision,   \* bound on the revisions publishers choose
    MaxAttempts    \* bound on the Update statements of one publisher

ASSUME StoreAssumption ==
    /\ MaxStoredRevision \in Nat \ {0}
    /\ MaxAttempts \in Nat \ {0}

Revision == 1..MaxStoredRevision

VARIABLES
    row,         \* the singleton row of authorization_policy_manifests
    statements,  \* Update statements that the server has not executed yet
    publisher    \* per publisher: where it is in Load and Update

storeVars == <<row, statements, publisher>>

Manifest == [revision: Revision, changes: Seq(Publishers)]
Row == [revision: Revision, manifest: Manifest]

(* The table is empty.                                                     *)
NoRow == [revision |-> 0, manifest |-> [revision |-> 0, changes |-> <<>>]]

Statement == [by: Publishers, attempt: 1..MaxAttempts, expected: 0..MaxStoredRevision,
              next: Manifest]

PublisherRecord ==
    [pc: {"load", "update", "sent", "answered", "acked", "gone"},
     expected: 0..MaxStoredRevision, base: Seq(Publishers), next: 0..MaxStoredRevision,
     attempt: 0..MaxAttempts, found: BOOLEAN,
     err: {"none", "ErrNotInitialized", "ErrInvalidManifest", "ErrRevisionNotMonotonic",
           "ErrRevisionConflict", "DriverError"}]

NewPublisher == [pc |-> "load", expected |-> 0, base |-> <<>>, next |-> 0, attempt |-> 0,
                 found |-> FALSE, err |-> "none"]

StoreInit ==
    /\ row = NoRow
    /\ statements = {}
    /\ publisher = [p \in Publishers |-> NewPublisher]

-----------------------------------------------------------------------------
(* Load                                                                    *)

(* The manifest decoded from the row, its own revision included.  Finding  *)
(* its change there tells a publisher that an earlier Update took effect.  *)
Load(p) ==
    /\ publisher[p].pc = "load"
    /\ publisher' = [publisher EXCEPT ![p] =
         IF row = NoRow
         THEN [@ EXCEPT !.pc = "update", !.expected = 0, !.base = <<>>,
                        !.err = "ErrNotInitialized"]
         ELSE [@ EXCEPT !.pc = IF p \in Range(row.manifest.changes) THEN "acked" ELSE "update",
                        !.expected = row.manifest.revision,
                        !.next = row.manifest.revision,
                        !.base = row.manifest.changes,
                        !.err = "none"]]
    /\ UNCHANGED <<row, statements>>

(* Load fails, or the publisher gives up for now.                          *)
LoadFails(p) ==
    /\ publisher[p].pc = "load"
    /\ publisher' = [publisher EXCEPT ![p].err = "DriverError"]
    /\ UNCHANGED <<row, statements>>

-----------------------------------------------------------------------------
(* Update                                                                  *)

(* What Update refuses before it reaches the database.                     *)
UpdateError(expected, next, valid) ==
    IF ~valid THEN "ErrInvalidManifest"
    ELSE IF next <= expected THEN "ErrRevisionNotMonotonic" ELSE "none"

RefuseUpdate(p) ==
    /\ publisher[p].pc = "update"
    /\ \E next \in Revision, valid \in BOOLEAN :
         LET err == UpdateError(publisher[p].expected, next, valid) IN
         /\ err # "none"
         /\ publisher' = [publisher EXCEPT ![p].pc = "load", ![p].err = err]
    /\ UNCHANGED <<row, statements>>

SendUpdate(p) ==
    /\ publisher[p].pc = "update"
    /\ publisher[p].attempt < MaxAttempts
    /\ \E next \in Revision :
         /\ UpdateError(publisher[p].expected, next, TRUE) = "none"
         /\ statements' = statements \cup
              {[by |-> p, attempt |-> publisher[p].attempt + 1,
                expected |-> publisher[p].expected,
                next |-> [revision |-> next, changes |-> Append(publisher[p].base, p)]]}
         /\ publisher' = [publisher EXCEPT ![p].pc = "sent", ![p].next = next,
                                           ![p].attempt = @ + 1]
    /\ UNCHANGED row

(* Variant with a mistake: the row is not required to be the expected one. *)
MatchesAny(st) ==
    IF row = NoRow THEN st.expected = 0 ELSE st.next.revision > row.revision

(* The WHERE clauses of updateManifestSQL: the row has the expected        *)
(* revision and a smaller one than the next, or 0 is expected and there is *)
(* no row.                                                                 *)
Matches(st) ==
    IF row = NoRow THEN st.expected = 0
    ELSE row.revision = st.expected /\ st.next.revision > row.revision

(* External: the server executes a statement, whether or not its publisher *)
(* still waits for the answer.  Concurrent statements on the row are       *)
(* serialized by its lock, and the WHERE clause sees the committed row.    *)
Execute(st) ==
    /\ st \in statements
    /\ statements' = statements \ {st}
    /\ row' = IF Matches(st) THEN [revision |-> st.next.revision, manifest |-> st.next] ELSE row
    /\ publisher' = IF /\ publisher[st.by].pc = "sent"
                       /\ publisher[st.by].attempt = st.attempt
                    THEN [publisher EXCEPT ![st.by].pc = "answered", ![st.by].found = Matches(st)]
                    ELSE publisher

(* Variant with a mistake: no returned row is taken for success.           *)
AnswerAlways(p) ==
    /\ publisher[p].pc = "answered"
    /\ publisher' = [publisher EXCEPT ![p].pc = "acked", ![p].err = "none"]
    /\ UNCHANGED <<row, statements>>

(* Scan finds the returned manifest, or no row: a conflict.                *)
Answer(p) ==
    /\ publisher[p].pc = "answered"
    /\ publisher' = [publisher EXCEPT
         ![p].pc = IF publisher[p].found THEN "acked" ELSE "load",
         ![p].err = IF publisher[p].found THEN "none" ELSE "ErrRevisionConflict"]
    /\ UNCHANGED <<row, statements>>

(* Any other error: the deadline passes, the connection breaks, or the     *)
(* returned manifest does not decode.                                      *)
LoseAnswer(p) ==
    /\ publisher[p].pc \in {"sent", "answered"}
    /\ publisher' = [publisher EXCEPT ![p].pc = "load", ![p].err = "DriverError"]
    /\ UNCHANGED <<row, statements>>

(* The publisher's process ends, before or after it published its hint.    *)
Crash(p) ==
    /\ publisher[p].pc # "gone"
    /\ publisher' = [publisher EXCEPT ![p].pc = "gone"]
    /\ UNCHANGED <<row, statements>>

PublisherStep(p) ==
    Load(p) \/ LoadFails(p) \/ RefuseUpdate(p) \/ SendUpdate(p) \/ Answer(p) \/ LoseAnswer(p)

StoreNext ==
    \/ \E p \in Publishers : PublisherStep(p) \/ Crash(p)
    \/ \E st \in statements : Execute(st)

-----------------------------------------------------------------------------
(* Properties                                                              *)

StoreSpec == StoreInit /\ [][StoreNext]_storeVars

(* Types: the row, the statements under way and the publishers.            *)
StoreTypeOK ==
    /\ row \in Row \cup {NoRow}
    /\ statements \subseteq Statement
    /\ publisher \in [Publishers -> PublisherRecord]

Changes == row.manifest.changes

(* Optimistic concurrency loses and repeats nothing: a change that Update  *)
(* acknowledged, or that a later Load found, stays in the manifest, and no *)
(* change is there twice, although answers are lost and statements run     *)
(* late.                                                                   *)
ChangesAreKeptOnce ==
    /\ \A p \in Publishers : publisher[p].pc = "acked" => p \in Range(Changes)
    /\ \A i, j \in DOMAIN Changes : Changes[i] = Changes[j] => i = j

(* What the rest of the system sees of the store.                          *)
Stored == INSTANCE StoredPolicy WITH
    MaxRevision <- MaxStoredRevision,
    stored <- row.revision,
    acked <- {publisher[p].next : p \in {q \in Publishers : publisher[q].pc = "acked"}}

(* The store implements StoredPolicy: the stored revision only advances,   *)
(* and a publisher is told of a revision only once it is stored.           *)
ImplementsStoredPolicy == Stored!StoredSpec

=============================================================================
