------------------------- MODULE DistributionProofs -------------------------
(***************************************************************************)
(* How policy is stored and reaches the nodes: the store, for any number   *)
(* of publishers, attempts and revisions; hints, for any number of nodes,  *)
(* revisions and hints and under every fault of the hint backend; and the  *)
(* manifest cache, for any nodes, limits, contents and revisions.  Last,   *)
(* the authority epochs that fence effects decided with that policy, for   *)
(* any number of transactions and any largest epoch.                       *)
(***************************************************************************)
EXTENDS PolicyStore, PolicyLifecycle, PolicyCache, Authority, TLAPS

-----------------------------------------------------------------------------
(* Types                                                                   *)

LEMMA RowFields ==
    ASSUME StoreTypeOK
    PROVE  /\ row.revision \in 0..MaxStoredRevision
           /\ row.manifest.revision \in 0..MaxStoredRevision
           /\ Changes \in Seq(Publishers)
           /\ row = NoRow <=> row.revision = 0
<1>1. CASE row \in Row
  BY <1>1, StoreAssumption DEF Row, Manifest, Revision, Changes, NoRow
<1>2. CASE row = NoRow
  <2>1. <<>> \in Seq(Publishers)
    OBVIOUS
  <2>2. row.revision = 0 /\ row.manifest.revision = 0 /\ row.manifest.changes = <<>>
    BY Zenon, <1>2 DEF NoRow
  <2>3. 0 \in 0..MaxStoredRevision
    BY StoreAssumption
  <2> QED
    BY Zenon, <1>2, <2>1, <2>2, <2>3 DEF Changes
<1> QED
  BY Zenon, <1>1, <1>2 DEF StoreTypeOK

LEMMA NewPublisherType == NewPublisher \in PublisherRecord
<1>1. <<>> \in Seq(Publishers)
  OBVIOUS
<1> QED
  BY <1>1, StoreAssumption DEF NewPublisher, PublisherRecord

(* One publisher's record is replaced.                                     *)
LEMMA UpdateType ==
    ASSUME StoreTypeOK, NEW p \in Publishers, NEW r \in PublisherRecord,
           publisher' = [publisher EXCEPT ![p] = r]
    PROVE  /\ publisher' \in [Publishers -> PublisherRecord]
           /\ publisher'[p] = r
           /\ \A q \in Publishers \ {p} : publisher'[q] = publisher[q]
BY Zenon DEF StoreTypeOK

-----------------------------------------------------------------------------
(* What each step makes of its publisher's record                          *)

Others(p) == \A q \in Publishers \ {p} : publisher'[q] = publisher[q]

LEMMA LoadFields ==
    ASSUME StoreTypeOK, NEW p \in Publishers, Load(p)
    PROVE  /\ publisher' \in [Publishers -> PublisherRecord]
           /\ Others(p)
           /\ publisher'[p].attempt = publisher[p].attempt
           /\ row = NoRow => /\ publisher'[p].pc = "update"
                             /\ publisher'[p].expected = 0
                             /\ publisher'[p].base = <<>>
           /\ row # NoRow =>
                /\ publisher'[p].pc = IF p \in Range(Changes) THEN "acked" ELSE "update"
                /\ publisher'[p].expected = row.manifest.revision
                /\ publisher'[p].next = row.manifest.revision
                /\ publisher'[p].base = Changes
<1> DEFINE old == publisher[p]
           none == [old EXCEPT !.pc = "update", !.expected = 0, !.base = <<>>,
                               !.err = "ErrNotInitialized"]
           some == [old EXCEPT !.pc = IF p \in Range(Changes) THEN "acked" ELSE "update",
                               !.expected = row.manifest.revision,
                               !.next = row.manifest.revision,
                               !.base = Changes, !.err = "none"]
<1>1. old \in PublisherRecord
  BY Zenon DEF StoreTypeOK
<1>2. <<>> \in Seq(Publishers) /\ 0 \in 0..MaxStoredRevision
  BY StoreAssumption
<1>3. row.manifest.revision \in 0..MaxStoredRevision /\ Changes \in Seq(Publishers)
  BY Zenon, RowFields
<1>4. publisher' = [publisher EXCEPT ![p] = IF row = NoRow THEN none ELSE some]
  BY Zenon DEF Load, Changes
<1> HIDE DEF old
<1>5. /\ none \in PublisherRecord
      /\ none.pc = "update" /\ none.expected = 0 /\ none.base = <<>> /\ none.attempt = old.attempt
  BY Zenon, <1>1, <1>2 DEF PublisherRecord
<1>6. /\ some \in PublisherRecord
      /\ some.pc = IF p \in Range(Changes) THEN "acked" ELSE "update"
      /\ some.expected = row.manifest.revision /\ some.next = row.manifest.revision
      /\ some.base = Changes /\ some.attempt = old.attempt
  BY Zenon, <1>1, <1>3 DEF PublisherRecord
<1> HIDE DEF none, some
<1>7. (IF row = NoRow THEN none ELSE some) \in PublisherRecord
  BY Zenon, <1>5, <1>6
<1>8. /\ publisher' \in [Publishers -> PublisherRecord] /\ Others(p)
      /\ publisher'[p] = IF row = NoRow THEN none ELSE some
  BY Zenon, <1>4, <1>7, UpdateType DEF Others
<1> QED
  BY Zenon, <1>5, <1>6, <1>8 DEF old

(* Steps after which the publisher only loads again, or ends.              *)
Resets(p) ==
    /\ publisher' \in [Publishers -> PublisherRecord]
    /\ Others(p)
    /\ publisher'[p].pc \in {"load", "gone"}
    /\ publisher'[p].attempt = publisher[p].attempt

LEMMA ResetFields ==
    ASSUME StoreTypeOK, NEW p \in Publishers,
           LoadFails(p) \/ RefuseUpdate(p) \/ LoseAnswer(p) \/ Crash(p)
    PROVE  Resets(p) /\ row' = row /\ statements' = statements
<1> DEFINE old == publisher[p]
<1>1. old \in PublisherRecord
  BY Zenon DEF StoreTypeOK
<1>2. PICK pc \in {"load", "gone"},
           err \in {"none", "ErrNotInitialized", "ErrInvalidManifest",
                    "ErrRevisionNotMonotonic", "ErrRevisionConflict", "DriverError"} :
        publisher' = [publisher EXCEPT ![p] = [old EXCEPT !.pc = pc, !.err = err]]
  <2>1. CASE LoadFails(p)
    <3>1. [old EXCEPT !.err = "DriverError"] = [old EXCEPT !.pc = "load", !.err = "DriverError"]
      BY Zenon, <1>1, <2>1 DEF LoadFails, PublisherRecord
    <3> QED
      BY Zenon, <2>1, <3>1 DEF LoadFails
  <2>2. CASE RefuseUpdate(p)
    BY Zenon, <2>2 DEF RefuseUpdate, UpdateError
  <2>3. CASE LoseAnswer(p)
    BY Zenon, <2>3 DEF LoseAnswer
  <2>4. CASE Crash(p)
    <3>1. [old EXCEPT !.pc = "gone"] = [old EXCEPT !.pc = "gone", !.err = old.err]
      BY Zenon, <1>1 DEF PublisherRecord
    <3>2. old.err \in {"none", "ErrNotInitialized", "ErrInvalidManifest",
                       "ErrRevisionNotMonotonic", "ErrRevisionConflict", "DriverError"}
      BY Zenon, <1>1 DEF PublisherRecord
    <3> QED
      BY Zenon, <2>4, <3>1, <3>2 DEF Crash
  <2> QED
    BY Zenon, <2>1, <2>2, <2>3, <2>4
<1> DEFINE new == [old EXCEPT !.pc = pc, !.err = err]
<1> HIDE DEF old
<1>3. new \in PublisherRecord /\ new.pc = pc /\ new.attempt = old.attempt
  BY Zenon, <1>1 DEF PublisherRecord
<1>4. publisher' = [publisher EXCEPT ![p] = new]
  BY Zenon, <1>2
<1> HIDE DEF new
<1>5. publisher' \in [Publishers -> PublisherRecord] /\ Others(p) /\ publisher'[p] = new
  BY Zenon, <1>3, <1>4, UpdateType DEF Others
<1>6. row' = row /\ statements' = statements
  BY Zenon DEF LoadFails, RefuseUpdate, LoseAnswer, Crash
<1> QED
  BY Zenon, <1>3, <1>5, <1>6 DEF Resets, old

NewStatement(p, next) ==
    [by |-> p, attempt |-> publisher[p].attempt + 1, expected |-> publisher[p].expected,
     next |-> [revision |-> next, changes |-> Append(publisher[p].base, p)]]

LEMMA SendFields ==
    ASSUME StoreTypeOK, NEW p \in Publishers, SendUpdate(p)
    PROVE  \E next \in Revision :
             /\ next > publisher[p].expected
             /\ statements' = statements \cup {NewStatement(p, next)}
             /\ NewStatement(p, next) \in Statement
             /\ publisher' \in [Publishers -> PublisherRecord]
             /\ Others(p)
             /\ publisher'[p].pc = "sent"
             /\ publisher'[p].next = next
             /\ publisher'[p].attempt = publisher[p].attempt + 1
             /\ row' = row
<1> DEFINE old == publisher[p]
<1>1. PICK next \in Revision :
        /\ UpdateError(old.expected, next, TRUE) = "none"
        /\ statements' = statements \cup {NewStatement(p, next)}
        /\ publisher' = [publisher EXCEPT ![p].pc = "sent", ![p].next = next,
                                          ![p].attempt = @ + 1]
  BY Zenon DEF SendUpdate, NewStatement
<1> DEFINE attempt == old.attempt + 1
           new == [old EXCEPT !.pc = "sent", !.next = next, !.attempt = attempt]
<1>2. /\ old \in PublisherRecord /\ old.attempt \in 0..MaxAttempts
      /\ old.expected \in 0..MaxStoredRevision /\ old.base \in Seq(Publishers)
  BY Zenon DEF StoreTypeOK, PublisherRecord
<1>3. old.attempt + 1 \in 1..MaxAttempts /\ next \in 0..MaxStoredRevision
  BY <1>2, StoreAssumption DEF SendUpdate, Revision
<1>4. next > old.expected
  BY <1>1, <1>2 DEF UpdateError, Revision
<1>5. NewStatement(p, next) \in Statement
  <2>1. Append(old.base, p) \in Seq(Publishers)
    BY <1>2
  <2> QED
    BY Zenon, <1>2, <1>3, <2>1 DEF NewStatement, Statement, Manifest
<1>6. publisher' = [publisher EXCEPT ![p] = new]
  BY Zenon, <1>1
<1>7. row' = row
  BY Zenon DEF SendUpdate
<1>10. attempt \in 0..MaxAttempts
  BY <1>3
<1> HIDE DEF old, attempt
<1>8. /\ new \in PublisherRecord /\ new.pc = "sent" /\ new.next = next
      /\ new.attempt = attempt
  BY Zenon, <1>2, <1>3, <1>10 DEF PublisherRecord
<1> HIDE DEF new
<1>9. publisher' \in [Publishers -> PublisherRecord] /\ Others(p) /\ publisher'[p] = new
  BY Zenon, <1>6, <1>8, UpdateType DEF Others
<1> QED
  BY Zenon, <1>1, <1>4, <1>5, <1>7, <1>8, <1>9 DEF old, attempt

LEMMA AnswerFields ==
    ASSUME StoreTypeOK, NEW p \in Publishers, Answer(p)
    PROVE  /\ publisher' \in [Publishers -> PublisherRecord]
           /\ Others(p)
           /\ publisher[p].pc = "answered"
           /\ publisher'[p].pc = IF publisher[p].found THEN "acked" ELSE "load"
           /\ publisher'[p].next = publisher[p].next
           /\ publisher'[p].attempt = publisher[p].attempt
           /\ row' = row /\ statements' = statements
<1> DEFINE old == publisher[p]
           pc == IF old.found THEN "acked" ELSE "load"
           err == IF old.found THEN "none" ELSE "ErrRevisionConflict"
           new == [old EXCEPT !.pc = pc, !.err = err]
<1>1. old \in PublisherRecord
  BY Zenon DEF StoreTypeOK
<1>2. /\ publisher' = [publisher EXCEPT ![p] = new]
      /\ row' = row /\ statements' = statements /\ old.pc = "answered"
  BY Zenon DEF Answer
<1> HIDE DEF old
<1>3. new \in PublisherRecord /\ new.pc = pc /\ new.next = old.next /\ new.attempt = old.attempt
  BY Zenon, <1>1 DEF PublisherRecord
<1> HIDE DEF new
<1>4. publisher' \in [Publishers -> PublisherRecord] /\ Others(p) /\ publisher'[p] = new
  BY Zenon, <1>2, <1>3, UpdateType DEF Others
<1> QED
  BY Zenon, <1>2, <1>3, <1>4 DEF old

LEMMA ExecuteFields ==
    ASSUME StoreTypeOK, NEW st \in statements, Execute(st)
    PROVE  LET p == st.by
               waits == publisher[p].pc = "sent" /\ publisher[p].attempt = st.attempt IN
           /\ p \in Publishers
           /\ publisher' \in [Publishers -> PublisherRecord]
           /\ Others(p)
           /\ publisher'[p].next = publisher[p].next
           /\ publisher'[p].attempt = publisher[p].attempt
           /\ ~waits => publisher'[p] = publisher[p]
           /\ waits => publisher'[p].pc = "answered" /\ publisher'[p].found = Matches(st)
<1> DEFINE p == st.by
           old == publisher[p]
           new == [old EXCEPT !.pc = "answered", !.found = Matches(st)]
           waits == old.pc = "sent" /\ old.attempt = st.attempt
<1>1. p \in Publishers
  BY Zenon DEF StoreTypeOK, Statement
<1>2. old \in PublisherRecord
  BY Zenon, <1>1 DEF StoreTypeOK
<1>3. Matches(st) \in BOOLEAN
  BY Zenon DEF Matches
<1>4. /\ waits => publisher' = [publisher EXCEPT ![p] = new]
      /\ ~waits => publisher' = publisher
  BY Zenon DEF Execute
<1>5. /\ new \in PublisherRecord /\ new.pc = "answered" /\ new.found = Matches(st)
      /\ new.next = old.next /\ new.attempt = old.attempt
  <2> HIDE DEF old
  <2> QED
    BY Zenon, <1>2, <1>3 DEF PublisherRecord
<1>6. CASE waits
  <2> HIDE DEF new, p
  <2>1. publisher' \in [Publishers -> PublisherRecord] /\ Others(p) /\ publisher'[p] = new
    BY Zenon, <1>1, <1>4, <1>5, <1>6, UpdateType DEF Others
  <2> QED
    BY Zenon, <1>1, <1>5, <1>6, <2>1 DEF p
<1>7. CASE ~waits
  BY Zenon, <1>1, <1>4, <1>7 DEF StoreTypeOK, Others
<1> QED
  BY Zenon, <1>6, <1>7

-----------------------------------------------------------------------------
(* Type correctness                                                        *)

LEMMA StatementFields ==
    ASSUME StoreTypeOK, NEW st \in statements
    PROVE  /\ st.by \in Publishers /\ st.attempt \in 1..MaxAttempts
           /\ st.expected \in 0..MaxStoredRevision
           /\ st.next \in Manifest /\ st.next.revision \in Revision
           /\ st.next.changes \in Seq(Publishers)
BY Zenon DEF StoreTypeOK, Statement, Manifest

LEMMA TypeInit == StoreInit => StoreTypeOK
BY Zenon, NewPublisherType DEF StoreInit, StoreTypeOK

LEMMA TypeStep == StoreTypeOK /\ [StoreNext]_storeVars => StoreTypeOK'
<1> SUFFICES ASSUME StoreTypeOK, [StoreNext]_storeVars PROVE StoreTypeOK'
  BY Zenon
<1>1. ASSUME NEW p \in Publishers, Load(p) PROVE StoreTypeOK'
  BY Zenon, <1>1, LoadFields DEF StoreTypeOK, Load
<1>2. ASSUME NEW p \in Publishers,
             LoadFails(p) \/ RefuseUpdate(p) \/ LoseAnswer(p) \/ Crash(p)
      PROVE  StoreTypeOK'
  BY Zenon, <1>2, ResetFields DEF StoreTypeOK, Resets
<1>3. ASSUME NEW p \in Publishers, SendUpdate(p) PROVE StoreTypeOK'
  BY Zenon, <1>3, SendFields DEF StoreTypeOK
<1>4. ASSUME NEW p \in Publishers, Answer(p) PROVE StoreTypeOK'
  BY Zenon, <1>4, AnswerFields DEF StoreTypeOK
<1>5. ASSUME NEW st \in statements, Execute(st) PROVE StoreTypeOK'
  <2>1. publisher' \in [Publishers -> PublisherRecord]
    BY Zenon, <1>5, ExecuteFields
  <2>2. statements' \subseteq Statement
    BY Zenon, <1>5 DEF Execute, StoreTypeOK
  <2>3. [revision |-> st.next.revision, manifest |-> st.next] \in Row
    BY Zenon, StatementFields DEF Row
  <2>4. row' \in Row \cup {NoRow}
    BY Zenon, <1>5, <2>3 DEF Execute, StoreTypeOK
  <2> QED
    BY Zenon, <2>1, <2>2, <2>4 DEF StoreTypeOK
<1>6. CASE UNCHANGED storeVars
  BY Zenon, <1>6 DEF storeVars, StoreTypeOK
<1> QED
  BY Zenon, <1>1, <1>2, <1>3, <1>4, <1>5, <1>6 DEF StoreNext, PublisherStep

(* The row, the statements under way and the publishers keep their types.  *)
THEOREM TypeCorrect == StoreSpec => []StoreTypeOK
BY TypeInit, TypeStep, PTL DEF StoreSpec

-----------------------------------------------------------------------------
(* Optimistic concurrency                                                  *)

(* Whoever expects the stored revision knows the stored content and does   *)
(* not find its own change there.                                          *)
RowInv ==
    /\ row.manifest.revision = row.revision
    /\ \A i, j \in DOMAIN Changes : Changes[i] = Changes[j] => i = j

StatementInv ==
    \A st \in statements :
        /\ st.expected <= row.revision
        /\ st.expected < st.next.revision
        /\ st.expected = row.revision =>
             st.next.changes = Append(Changes, st.by) /\ st.by \notin Range(Changes)
        /\ st.attempt <= publisher[st.by].attempt
        /\ publisher[st.by].pc = "sent" /\ st.attempt = publisher[st.by].attempt =>
             st.next.revision = publisher[st.by].next

Told(p) == publisher[p].next \in 1..row.revision /\ p \in Range(Changes)

PublisherInv ==
    \A p \in Publishers :
        /\ publisher[p].pc = "update" =>
             /\ publisher[p].expected <= row.revision
             /\ publisher[p].expected = row.revision =>
                  publisher[p].base = Changes /\ p \notin Range(Changes)
        /\ publisher[p].pc = "answered" /\ publisher[p].found => Told(p)
        /\ publisher[p].pc = "acked" => Told(p)

StoreInv == RowInv /\ StatementInv /\ PublisherInv

LEMMA PublisherFields ==
    ASSUME StoreTypeOK
    PROVE  \A p \in Publishers :
             /\ publisher[p].expected \in 0..MaxStoredRevision /\ publisher[p].next \in 0..MaxStoredRevision
             /\ publisher[p].attempt \in 0..MaxAttempts
             /\ publisher[p].base \in Seq(Publishers)
BY Zenon DEF StoreTypeOK, PublisherRecord

LEMMA InvInit == StoreInit => StoreInv
<1> SUFFICES ASSUME StoreInit PROVE StoreInv
  BY Zenon
<1>1. row.manifest.revision = 0 /\ row.revision = 0 /\ Changes = <<>>
  BY Zenon DEF StoreInit, NoRow, Changes
<1>2. RowInv
  BY <1>1 DEF RowInv
<1>3. StatementInv
  BY Zenon DEF StoreInit, StatementInv
<1>4. PublisherInv
  BY Zenon DEF StoreInit, NewPublisher, PublisherInv
<1> QED
  BY Zenon, <1>2, <1>3, <1>4 DEF StoreInv

(* The steps that leave the row and the statements alone.                  *)
LEMMA InvQuiet ==
    ASSUME StoreTypeOK, StoreInv, NEW p \in Publishers,
           row' = row, statements' = statements, Others(p),
           publisher'[p].attempt = publisher[p].attempt,
           publisher'[p].pc # "sent",
           publisher'[p].pc = "update" =>
               /\ publisher'[p].expected <= row.revision
               /\ publisher'[p].expected = row.revision =>
                    publisher'[p].base = Changes /\ p \notin Range(Changes),
           publisher'[p].pc \in {"answered", "acked"} =>
               publisher'[p].next \in 1..row.revision /\ p \in Range(Changes)
    PROVE  StoreInv'
<1>1. Changes' = Changes
  BY Zenon DEF Changes
<1>2. RowInv'
  BY Zenon, <1>1 DEF StoreInv, RowInv
<1>3. StatementInv'
  <2> SUFFICES ASSUME NEW st \in statements
               PROVE  /\ st.attempt <= publisher'[st.by].attempt
                      /\ publisher'[st.by].pc = "sent" /\ st.attempt = publisher'[st.by].attempt =>
                           st.next.revision = publisher'[st.by].next
    BY Zenon, <1>1 DEF StoreInv, StatementInv
  <2>1. st.by \in Publishers
    BY Zenon, StatementFields
  <2>2. CASE st.by = p
    BY Zenon, <2>2 DEF StoreInv, StatementInv
  <2>3. CASE st.by # p
    BY Zenon, <2>1, <2>3 DEF StoreInv, StatementInv, Others
  <2> QED
    BY Zenon, <2>2, <2>3
<1>4. PublisherInv'
  BY Zenon, <1>1 DEF StoreInv, PublisherInv, Told, Others
<1> QED
  BY Zenon, <1>2, <1>3, <1>4 DEF StoreInv

LEMMA InvLoad ==
    ASSUME StoreTypeOK, StoreInv, NEW p \in Publishers, Load(p)
    PROVE  StoreInv'
<1>1. row' = row /\ statements' = statements /\ row.manifest.revision = row.revision
  BY Zenon DEF Load, StoreInv, RowInv
<1>2. row.revision \in 0..MaxStoredRevision /\ (row = NoRow <=> row.revision = 0)
  BY Zenon, RowFields
<1>3. CASE row = NoRow
  <2>1. Changes = <<>>
    BY Zenon, <1>3 DEF NoRow, Changes
  <2>2. p \notin Range(Changes)
    BY <2>1 DEF Range
  <2>3. publisher'[p].expected <= row.revision
    BY <1>2, <1>3, LoadFields
  <2> QED
    BY Zenon, <1>1, <1>3, <2>1, <2>2, <2>3, LoadFields, InvQuiet
<1>4. CASE row # NoRow
  <2>1. row.revision \in 1..row.revision /\ row.revision <= row.revision
    BY <1>2, <1>4
  <2> QED
    BY Zenon, <1>1, <1>4, <2>1, LoadFields, InvQuiet
<1> QED
  BY Zenon, <1>3, <1>4

LEMMA InvSend ==
    ASSUME StoreTypeOK, StoreInv, NEW p \in Publishers, SendUpdate(p)
    PROVE  StoreInv'
<1>1. PICK next \in Revision :
        /\ next > publisher[p].expected
        /\ statements' = statements \cup {NewStatement(p, next)}
        /\ Others(p)
        /\ publisher'[p].pc = "sent"
        /\ publisher'[p].next = next
        /\ publisher'[p].attempt = publisher[p].attempt + 1
        /\ row' = row
  BY Zenon, SendFields
<1>2. Changes' = Changes /\ publisher[p].pc = "update"
  BY Zenon, <1>1 DEF Changes, SendUpdate
<1>3. RowInv'
  BY Zenon, <1>1, <1>2 DEF StoreInv, RowInv
<1>4. PublisherInv'
  BY Zenon, <1>1, <1>2 DEF StoreInv, PublisherInv, Told, Others
<1>5. ASSUME NEW st \in statements
      PROVE  /\ st.attempt <= publisher'[st.by].attempt
             /\ publisher'[st.by].pc = "sent" /\ st.attempt = publisher'[st.by].attempt =>
                  st.next.revision = publisher'[st.by].next
  <2>1. st.by \in Publishers /\ st.attempt \in Nat /\ st.attempt <= publisher[st.by].attempt
    BY StatementFields DEF StoreInv, StatementInv
  <2>2. CASE st.by = p
    <3>1. publisher[p].attempt \in Nat
      BY PublisherFields
    <3>2. st.attempt < publisher'[p].attempt
      BY <1>1, <2>1, <2>2, <3>1
    <3> QED
      BY <1>1, <2>1, <2>2, <3>1, <3>2
  <2>3. CASE st.by # p
    BY Zenon, <1>1, <2>1, <2>3 DEF StoreInv, StatementInv, Others
  <2> QED
    BY Zenon, <2>2, <2>3
<1>6. StatementInv'
  <2> SUFFICES ASSUME NEW st \in statements'
               PROVE  /\ st.expected <= row.revision
                      /\ st.expected < st.next.revision
                      /\ st.expected = row.revision =>
                           st.next.changes = Append(Changes, st.by) /\ st.by \notin Range(Changes)
                      /\ st.attempt <= publisher'[st.by].attempt
                      /\ publisher'[st.by].pc = "sent" /\ st.attempt = publisher'[st.by].attempt =>
                           st.next.revision = publisher'[st.by].next
    BY Zenon, <1>1, <1>2 DEF StatementInv
  <2>1. CASE st \in statements
    BY Zenon, <1>5, <2>1 DEF StoreInv, StatementInv
  <2>2. CASE st = NewStatement(p, next)
    <3>1. /\ st.by = p /\ st.attempt = publisher[p].attempt + 1
          /\ st.expected = publisher[p].expected /\ st.next.revision = next
          /\ st.next.changes = Append(publisher[p].base, p)
      BY Zenon, <2>2 DEF NewStatement
    <3>2. /\ publisher[p].expected <= row.revision
          /\ publisher[p].expected = row.revision =>
               publisher[p].base = Changes /\ p \notin Range(Changes)
      BY Zenon, <1>2 DEF StoreInv, PublisherInv
    <3>3. publisher[p].attempt \in Nat /\ publisher[p].expected \in Nat /\ next \in Nat
      BY PublisherFields DEF Revision
    <3> QED
      BY <1>1, <3>1, <3>2, <3>3
  <2> QED
    BY Zenon, <1>1, <2>1, <2>2
<1> QED
  BY Zenon, <1>3, <1>4, <1>6 DEF StoreInv

LEMMA AppendNew ==
    ASSUME NEW s \in Seq(Publishers), NEW p \in Publishers, p \notin Range(s),
           \A i, j \in DOMAIN s : s[i] = s[j] => i = j
    PROVE  LET t == Append(s, p) IN
           /\ \A i, j \in DOMAIN t : t[i] = t[j] => i = j
           /\ p \in Range(t)
           /\ \A q : q \in Range(s) => q \in Range(t)
<1> DEFINE t == Append(s, p)
<1>1. /\ Len(s) \in Nat /\ DOMAIN s = 1..Len(s)
      /\ Len(t) = Len(s) + 1 /\ DOMAIN t = 1..Len(t)
      /\ \A i \in 1..Len(s) : t[i] = s[i]
      /\ t[Len(s) + 1] = p
  OBVIOUS
<1> HIDE DEF t
<1>2. \A i \in 1..Len(s) : s[i] # p
  BY DEF Range
<1>3. \A i \in 1..Len(t) : i \in 1..Len(s) \/ i = Len(s) + 1
  BY <1>1
<1>4. Len(s) + 1 \in 1..Len(t) /\ \A i \in 1..Len(s) : i \in 1..Len(t)
  BY <1>1
<1>5. \A i, j \in DOMAIN t : t[i] = t[j] => i = j
  BY Zenon, <1>1, <1>2, <1>3
<1>6. p \in Range(t)
  BY Zenon, <1>1, <1>4 DEF Range
<1>7. \A q : q \in Range(s) => q \in Range(t)
  BY Zenon, <1>1, <1>4 DEF Range
<1> QED
  BY Zenon, <1>5, <1>6, <1>7 DEF t

(* A statement that finds its row appends its change.                      *)
LEMMA ExecuteRow ==
    ASSUME StoreTypeOK, StoreInv, NEW st \in statements, Execute(st)
    PROVE  /\ statements' \subseteq statements
           /\ ~Matches(st) => row' = row /\ Changes' = Changes
           /\ Matches(st) =>
                /\ row'.revision = st.next.revision /\ row'.manifest.revision = st.next.revision
                /\ row'.revision > row.revision /\ row'.revision \in Nat
                /\ Changes' = Append(Changes, st.by)
                /\ st.by \notin Range(Changes)
<1>1. row.revision \in Nat /\ st.expected \in Nat /\ st.next.revision \in Nat
  BY RowFields, StatementFields DEF Revision
<1>2. Matches(st) => st.expected = row.revision
  BY Zenon, RowFields DEF Matches
<1>3. ~Matches(st) => row' = row /\ Changes' = Changes
  BY Zenon DEF Execute, Changes
<1>4. Matches(st) => row' = [revision |-> st.next.revision, manifest |-> st.next]
  BY Zenon DEF Execute
<1>5. /\ st.expected < st.next.revision
      /\ st.expected = row.revision =>
           st.next.changes = Append(Changes, st.by) /\ st.by \notin Range(Changes)
  BY Zenon DEF StoreInv, StatementInv
<1> QED
  BY Zenon, <1>1, <1>2, <1>3, <1>4, <1>5 DEF Execute, Changes

LEMMA InvExecute ==
    ASSUME StoreTypeOK, StoreInv, NEW st \in statements, Execute(st)
    PROVE  StoreInv'
<1> DEFINE p == st.by
<1>1. /\ p \in Publishers /\ row.revision \in Nat /\ Changes \in Seq(Publishers)
      /\ st.next.revision \in Nat /\ st.next.revision >= 1
  BY RowFields, StatementFields DEF Revision
<1>2. /\ row.revision <= row'.revision /\ row'.revision \in Nat
      /\ Matches(st) => row.revision < row'.revision
      /\ row'.manifest.revision = row'.revision
      /\ row'.revision = row.revision => Changes' = Changes
      /\ \A q : q \in Range(Changes) => q \in Range(Changes')
      /\ Matches(st) => p \in Range(Changes')
      /\ \A i, j \in DOMAIN Changes' : Changes'[i] = Changes'[j] => i = j
  <2>1. CASE ~Matches(st)
    BY <1>1, <2>1, ExecuteRow DEF StoreInv, RowInv
  <2>2. CASE Matches(st)
    <3>1. /\ row'.revision = row'.manifest.revision /\ row'.revision > row.revision
          /\ row'.revision \in Nat
          /\ Changes' = Append(Changes, p) /\ p \notin Range(Changes)
      BY Zenon, <2>2, ExecuteRow
    <3>2. \A i, j \in DOMAIN Changes : Changes[i] = Changes[j] => i = j
      BY Zenon DEF StoreInv, RowInv
    <3>3. /\ \A q : q \in Range(Changes) => q \in Range(Changes')
          /\ p \in Range(Changes')
          /\ \A i, j \in DOMAIN Changes' : Changes'[i] = Changes'[j] => i = j
      BY Zenon, <1>1, <3>1, <3>2, AppendNew
    <3> QED
      BY <1>1, <3>1, <3>3
  <2> QED
    BY Zenon, <2>1, <2>2
<1>3. RowInv'
  BY Zenon, <1>2 DEF RowInv
<1>4. ASSUME NEW q \in Publishers
      PROVE  /\ publisher'[q].attempt = publisher[q].attempt
             /\ publisher'[q].next = publisher[q].next
             /\ publisher'[q].pc \in {"update", "sent", "acked"} => publisher'[q] = publisher[q]
             /\ publisher'[q] # publisher[q] =>
                  /\ q = p /\ publisher[p].pc = "sent" /\ st.attempt = publisher[p].attempt
                  /\ publisher'[p].pc = "answered" /\ publisher'[p].found = Matches(st)
  BY Zenon, <1>1, ExecuteFields DEF Others
<1>5. StatementInv'
  <2> SUFFICES ASSUME NEW s \in statements'
               PROVE  /\ s.expected <= row'.revision
                      /\ s.expected < s.next.revision
                      /\ s.expected = row'.revision =>
                           s.next.changes = Append(Changes', s.by) /\ s.by \notin Range(Changes')
                      /\ s.attempt <= publisher'[s.by].attempt
                      /\ publisher'[s.by].pc = "sent" /\ s.attempt = publisher'[s.by].attempt =>
                           s.next.revision = publisher'[s.by].next
    BY Zenon DEF StatementInv
  <2>1. s \in statements
    BY Zenon, ExecuteRow
  <2>2. s.by \in Publishers /\ s.expected \in Nat
    BY <2>1, StatementFields
  <2>3. /\ s.expected <= row.revision
        /\ s.expected < s.next.revision
        /\ s.expected = row.revision =>
             s.next.changes = Append(Changes, s.by) /\ s.by \notin Range(Changes)
        /\ s.attempt <= publisher[s.by].attempt
        /\ publisher[s.by].pc = "sent" /\ s.attempt = publisher[s.by].attempt =>
             s.next.revision = publisher[s.by].next
    BY Zenon, <2>1 DEF StoreInv, StatementInv
  <2>4. s.expected <= row'.revision /\ (s.expected = row'.revision => row'.revision = row.revision)
    BY <1>1, <1>2, <2>2, <2>3
  <2> QED
    BY Zenon, <1>2, <1>4, <2>2, <2>3, <2>4
<1>6. PublisherInv'
  <2> SUFFICES ASSUME NEW q \in Publishers
               PROVE  /\ publisher'[q].pc = "update" =>
                           /\ publisher'[q].expected <= row'.revision
                           /\ publisher'[q].expected = row'.revision =>
                                publisher'[q].base = Changes' /\ q \notin Range(Changes')
                      /\ publisher'[q].pc = "answered" /\ publisher'[q].found =>
                           publisher'[q].next \in 1..row'.revision /\ q \in Range(Changes')
                      /\ publisher'[q].pc = "acked" =>
                           publisher'[q].next \in 1..row'.revision /\ q \in Range(Changes')
    BY Zenon DEF PublisherInv, Told
  <2>1. CASE publisher'[q] = publisher[q]
    <3>1. /\ publisher[q].pc = "update" =>
               /\ publisher[q].expected <= row.revision
               /\ publisher[q].expected = row.revision =>
                    publisher[q].base = Changes /\ q \notin Range(Changes)
          /\ publisher[q].pc = "answered" /\ publisher[q].found =>
               publisher[q].next \in 1..row.revision /\ q \in Range(Changes)
          /\ publisher[q].pc = "acked" =>
               publisher[q].next \in 1..row.revision /\ q \in Range(Changes)
      BY Zenon DEF StoreInv, PublisherInv, Told
    <3>2. publisher[q].expected \in Nat
      BY PublisherFields
    <3>3. \A n : n \in 1..row.revision => n \in 1..row'.revision
      BY <1>1, <1>2
    <3>4. publisher[q].expected <= row.revision =>
            /\ publisher[q].expected <= row'.revision
            /\ publisher[q].expected = row'.revision => row'.revision = row.revision
      BY <1>1, <1>2, <3>2
    <3> QED
      BY Zenon, <1>2, <2>1, <3>1, <3>3, <3>4
  <2>2. CASE publisher'[q] # publisher[q]
    <3>1. /\ q = p /\ publisher[p].pc = "sent" /\ st.attempt = publisher[p].attempt
          /\ publisher'[p].pc = "answered" /\ publisher'[p].found = Matches(st)
          /\ publisher'[p].next = publisher[p].next
      BY Zenon, <1>4, <2>2
    <3>2. publisher[p].next = st.next.revision
      BY Zenon, <3>1 DEF StoreInv, StatementInv
    <3>3. Matches(st) => row'.revision = st.next.revision
      BY Zenon, ExecuteRow
    <3>4. Matches(st) => publisher'[p].next \in 1..row'.revision
      BY <1>1, <3>1, <3>2, <3>3
    <3> QED
      BY Zenon, <1>2, <3>1, <3>4
  <2> QED
    BY Zenon, <2>1, <2>2
<1> QED
  BY Zenon, <1>3, <1>5, <1>6 DEF StoreInv

LEMMA InvStep == StoreTypeOK /\ StoreInv /\ [StoreNext]_storeVars => StoreInv'
<1> SUFFICES ASSUME StoreTypeOK, StoreInv, [StoreNext]_storeVars PROVE StoreInv'
  BY Zenon
<1>1. ASSUME NEW p \in Publishers,
             LoadFails(p) \/ RefuseUpdate(p) \/ LoseAnswer(p) \/ Crash(p)
      PROVE  StoreInv'
  BY Zenon, <1>1, ResetFields, InvQuiet DEF Resets
<1>2. ASSUME NEW p \in Publishers, Answer(p) PROVE StoreInv'
  <2>1. publisher[p].pc = "answered" /\ publisher[p].found =>
          publisher[p].next \in 1..row.revision /\ p \in Range(Changes)
    BY Zenon DEF StoreInv, PublisherInv, Told
  <2> QED
    BY Zenon, <1>2, <2>1, AnswerFields, InvQuiet
<1>3. CASE UNCHANGED storeVars
  BY Zenon, <1>3 DEF storeVars, StoreInv, RowInv, StatementInv, PublisherInv, Told, Changes
<1> QED
  BY Zenon, <1>1, <1>2, <1>3, InvLoad, InvSend, InvExecute DEF StoreNext, PublisherStep

(* The three invariants hold of every reachable state of the store.        *)
THEOREM StoreInvariant == StoreSpec => [](StoreTypeOK /\ StoreInv)
BY TypeInit, TypeStep, InvInit, InvStep, PTL DEF StoreSpec

(* No acknowledged change is lost and none is applied twice, for any       *)
(* number of publishers and attempts, lost answers and late statements.    *)
THEOREM KeptOnce == StoreSpec => []ChangesAreKeptOnce
<1>1. StoreInv => ChangesAreKeptOnce
  BY Zenon DEF StoreInv, RowInv, PublisherInv, Told, ChangesAreKeptOnce
<1> QED
  BY <1>1, StoreInvariant, PTL

-----------------------------------------------------------------------------
(* Refinement                                                              *)

Acked == {publisher[p].next : p \in {q \in Publishers : publisher[q].pc = "acked"}}

(* A step that changes one publisher's record.                             *)
LEMMA AckedStep ==
    ASSUME NEW p \in Publishers, Others(p)
    PROVE  /\ publisher[p].pc # "acked" /\ publisher'[p].pc # "acked" => Acked' = Acked
           /\ publisher[p].pc # "acked" /\ publisher'[p].pc = "acked" =>
                Acked' = Acked \cup {publisher'[p].next}
           /\ publisher'[p].pc # "acked" => Acked' \in {Acked, Acked \ {publisher[p].next}}
<1> DEFINE rest == {publisher[q].next : q \in {q \in Publishers \ {p} : publisher[q].pc = "acked"}}
           after == {publisher'[q].next : q \in {q \in Publishers \ {p} : publisher'[q].pc = "acked"}}
<1>1. rest = after
  BY Zenon DEF Others
<1>2. Acked = IF publisher[p].pc = "acked" THEN rest \cup {publisher[p].next} ELSE rest
  BY Zenon DEF Acked
<1>3. Acked' = IF publisher'[p].pc = "acked" THEN after \cup {publisher'[p].next} ELSE after
  BY Zenon DEF Acked
<1> HIDE DEF rest, after
<1> QED
  BY Zenon, <1>1, <1>2, <1>3

LEMMA RefinementStep ==
    StoreTypeOK /\ StoreInv /\ StoreInv' /\ [StoreNext]_storeVars
        => [Stored!StoredNext]_(Stored!storedVars)
<1> SUFFICES ASSUME StoreTypeOK, StoreInv, StoreInv', [StoreNext]_storeVars
             PROVE  \/ \E r \in 1..MaxStoredRevision :
                         \/ r > row.revision /\ row'.revision = r /\ Acked' = Acked
                         \/ r <= row.revision /\ Acked' = Acked \cup {r} /\ row'.revision = row.revision
                         \/ Acked' = Acked \ {r} /\ row'.revision = row.revision
                    \/ Acked' = Acked /\ row'.revision = row.revision
  BY Zenon DEF Stored!StoredNext, Stored!Advance, Stored!Acknowledge, Stored!Abandon,
         Stored!storedVars, Acked
<1> DEFINE Goal == \/ \E r \in 1..MaxStoredRevision :
                        \/ r > row.revision /\ row'.revision = r /\ Acked' = Acked
                        \/ r <= row.revision /\ Acked' = Acked \cup {r} /\ row'.revision = row.revision
                        \/ Acked' = Acked \ {r} /\ row'.revision = row.revision
                   \/ Acked' = Acked /\ row'.revision = row.revision
<1>1. row.revision \in 0..MaxStoredRevision
  BY Zenon, RowFields
<1>2. \A n : n \in 1..row.revision => n \in 1..MaxStoredRevision /\ n <= row.revision
  BY <1>1, StoreAssumption
<1>3. \A q \in Publishers : publisher[q].pc = "acked" => publisher[q].next \in 1..row.revision
  BY Zenon DEF StoreInv, PublisherInv, Told
<1>4. \A q \in Publishers : publisher'[q].pc = "acked" => publisher'[q].next \in 1..row'.revision
  BY Zenon DEF StoreInv, PublisherInv, Told
<1>5. ASSUME NEW p \in Publishers, Load(p) PROVE Goal
  <2>1. publisher[p].pc = "load" /\ row' = row
    BY Zenon, <1>5 DEF Load
  <2>2. Others(p)
    BY Zenon, <1>5, LoadFields
  <2> QED
    BY Zenon, <1>2, <1>4, <2>1, <2>2, AckedStep
<1>6. ASSUME NEW p \in Publishers,
             LoadFails(p) \/ RefuseUpdate(p) \/ LoseAnswer(p) \/ Crash(p)
      PROVE  Goal
  <2>1. Others(p) /\ publisher'[p].pc # "acked" /\ row' = row
    BY Zenon, <1>6, ResetFields DEF Resets
  <2>2. CASE publisher[p].pc = "acked"
    BY Zenon, <1>2, <1>3, <2>1, <2>2, AckedStep
  <2>3. CASE publisher[p].pc # "acked"
    BY Zenon, <2>1, <2>3, AckedStep
  <2> QED
    BY Zenon, <2>2, <2>3
<1>7. ASSUME NEW p \in Publishers, SendUpdate(p) PROVE Goal
  <2>1. publisher[p].pc # "acked" /\ publisher'[p].pc # "acked" /\ Others(p) /\ row' = row
    BY Zenon, <1>7, SendFields DEF SendUpdate
  <2> QED
    BY Zenon, <2>1, AckedStep
<1>8. ASSUME NEW p \in Publishers, Answer(p) PROVE Goal
  <2>1. publisher[p].pc # "acked" /\ Others(p) /\ row' = row
    BY Zenon, <1>8, AnswerFields
  <2> QED
    BY Zenon, <1>2, <1>4, <2>1, AckedStep
<1>9. ASSUME NEW st \in statements, Execute(st) PROVE Goal
  <2>1. st.by \in Publishers /\ st.next.revision \in 1..MaxStoredRevision
    BY Zenon, StatementFields DEF Revision
  <2>2. Others(st.by)
    BY Zenon, <1>9, ExecuteFields
  <2>3. Acked' = Acked
    <3>1. CASE publisher'[st.by] = publisher[st.by]
      <4>1. \A q \in Publishers : publisher'[q] = publisher[q]
        BY Zenon, <2>2, <3>1 DEF Others
      <4> QED
        BY Zenon, <4>1 DEF Acked
    <3>2. CASE publisher'[st.by] # publisher[st.by]
      <4>1. publisher[st.by].pc # "acked" /\ publisher'[st.by].pc # "acked"
        BY Zenon, <1>9, <3>2, ExecuteFields
      <4> QED
        BY Zenon, <2>1, <2>2, <4>1, AckedStep
    <3> QED
      BY Zenon, <3>1, <3>2
  <2> QED
    BY Zenon, <1>9, <2>1, <2>3, ExecuteRow
<1>10. CASE UNCHANGED storeVars
  BY Zenon, <1>10 DEF storeVars, Acked
<1> QED
  BY Zenon, <1>5, <1>6, <1>7, <1>8, <1>9, <1>10 DEF StoreNext, PublisherStep

(* The store implements StoredPolicy, on which PolicyLifecycle builds.     *)
THEOREM StoreImplementsStoredPolicy == StoreSpec => ImplementsStoredPolicy
<1>1. StoreInit => Stored!StoredInit
  BY DEF StoreInit, NewPublisher, NoRow, Stored!StoredInit
<1> QED
  BY <1>1, RefinementStep, StoreInvariant, PTL
     DEF StoreSpec, ImplementsStoredPolicy, Stored!StoredSpec

-----------------------------------------------------------------------------
(* Hints follow storage                                                    *)

(* A WatcherRecord without the bound on hints.                             *)
Watching ==
    [pc: {"off", "observe", "handle", "select", "joining"}, after: Nat, seen: Nat,
     receive: {"idle", "starting", "subscribed", "ended"}, wakeup: BOOLEAN,
     err: {"none", "ReadError", "HandlerError", "ContextError"}]

(* Types without the bounds.                                               *)
Numbers ==
    /\ stored \in Nat /\ key \in Nat /\ acked \subseteq Nat
    /\ engineRev \in [Watchers -> Nat] /\ loaded \in [Watchers -> Nat]
    /\ watcher \in [Watchers -> Watching]

(* What a publisher was told of, and so the key, is stored.                *)
Published == key <= stored /\ \A r \in acked : r <= stored

(* A node never runs ahead of the store; while its Observe holds a loaded  *)
(* revision, Watch is inside the handler and nothing else moves the node.  *)
Node(w) ==
    /\ engineRev[w] <= stored
    /\ watcher[w].pc = "handle" => watcher[w].seen <= stored
    /\ loaded[w] # 0 =>
         /\ watcher[w].pc = "handle"
         /\ watcher[w].seen <= loaded[w] /\ engineRev[w] <= loaded[w] /\ loaded[w] <= stored

Inv == Numbers /\ Published /\ \A w \in Watchers : Node(w)

(* Of node v nothing changes that Node looks at.                           *)
Same(v) ==
    /\ engineRev'[v] = engineRev[v] /\ loaded'[v] = loaded[v]
    /\ watcher'[v].pc = watcher[v].pc /\ watcher'[v].seen = watcher[v].seen

LEMMA InitInv == Init => Inv
BY DEF Init, StoredInit, HintInit, OffWatcher, Inv, Numbers, Watching, Published, Node

(* A node that nothing touches stays sound while the store advances.       *)
LEMMA SameKeeps ==
    ASSUME NEW v \in Watchers, Inv, Same(v), stored' \in Nat, stored <= stored'
    PROVE  Node(v)'
<1>1. /\ stored \in Nat /\ engineRev[v] \in Nat /\ loaded[v] \in Nat
      /\ watcher[v].seen \in Nat /\ Node(v)
  BY Zenon DEF Inv, Numbers, Watching
<1> QED
  BY <1>1 DEF Node, Same

(* The store moves: revisions advance, publishers are told or give up.     *)
LEMMA StoredKeeps ==
    ASSUME Inv, StoredNext, UNCHANGED <<hintVars, nodeVars>>
    PROVE  Inv'
<1>1. PICK r \in 1..MaxRevision : Advance(r) \/ Acknowledge(r) \/ Abandon(r)
  BY Zenon DEF StoredNext
<1>2. r \in Nat /\ stored \in Nat /\ key \in Nat /\ acked \subseteq Nat
  BY LifecycleAssumption DEF Inv, Numbers
<1>3. stored' \in Nat /\ stored <= stored'
  BY <1>1, <1>2 DEF Advance, Acknowledge, Abandon
<1>4. ASSUME NEW q \in acked' PROVE q \in Nat /\ q <= stored'
  <2>1. q \in acked \/ (q = r /\ r <= stored)
    BY Zenon, <1>1 DEF Advance, Acknowledge, Abandon
  <2>2. q \in Nat /\ q <= stored
    BY Zenon, <1>2, <2>1 DEF Inv, Published
  <2> QED
    BY <1>2, <1>3, <2>2
<1>5. UNCHANGED <<key, watcher, engineRev, loaded>>
  BY Zenon DEF hintVars, nodeVars
<1>6. Numbers' /\ Published'
  <2>1. key <= stored'
    BY <1>2, <1>3 DEF Inv, Published
  <2> QED
    BY Zenon, <1>3, <1>4, <1>5, <2>1 DEF Inv, Numbers, Published
<1>7. \A v \in Watchers : Node(v)'
  BY Zenon, <1>3, <1>5, SameKeeps DEF Same
<1> QED
  BY Zenon, <1>6, <1>7 DEF Inv

(* Publish announces what a publisher was told; watchers only wake up.     *)
LEMMA PublishKeeps ==
    ASSUME Inv, NEW r \in 1..MaxHint, Publish(r)
    PROVE  Inv'
<1>1. /\ r \in acked /\ acked' \in {acked, acked \ {r}}
      /\ UNCHANGED <<stored, engineRev, loaded>>
      /\ key' \in {key, r}
  BY Zenon DEF Publish, PublishHint, nodeVars
<1>2. /\ watcher' \in [Watchers -> Watching]
      /\ \A v \in Watchers : /\ watcher'[v].pc = watcher[v].pc
                             /\ watcher'[v].seen = watcher[v].seen
  <2>1. watcher \in [Watchers -> Watching]
    BY Zenon DEF Inv, Numbers
  <2> DEFINE woken(v) == watcher[v].wakeup \/ watcher[v].receive = "subscribed"
             next(v) == [watcher[v] EXCEPT !.wakeup = woken(v)]
  <2>2. watcher' = watcher \/ watcher' = [v \in Watchers |-> next(v)]
    BY Zenon DEF Publish, PublishHint
  <2>3. ASSUME NEW v \in Watchers
        PROVE  /\ next(v) \in Watching
               /\ next(v).pc = watcher[v].pc /\ next(v).seen = watcher[v].seen
    <3>1. watcher[v] \in Watching /\ woken(v) \in BOOLEAN
      BY Zenon, <2>1
    <3> HIDE DEF woken
    <3> QED
      BY Zenon, <3>1 DEF Watching
  <2> HIDE DEF next
  <2> QED
    BY Zenon, <2>1, <2>2, <2>3
<1>3. Numbers' /\ Published'
  BY Zenon, <1>1, <1>2 DEF Inv, Numbers, Published
<1>4. \A v \in Watchers : Node(v)'
  BY <1>1, <1>2, SameKeeps DEF Same, Inv, Numbers
<1> QED
  BY Zenon, <1>3, <1>4 DEF Inv

(* A step of one node that leaves the store and the key alone.             *)
LEMMA OneNode ==
    ASSUME Inv, NEW w \in Watchers, UNCHANGED <<storedVars, key>>, Numbers', Node(w)',
           \A v \in Watchers \ {w} : Same(v)
    PROVE  Inv'
<1>1. stored' = stored /\ acked' = acked /\ key' = key
  BY Zenon DEF storedVars
<1>2. Published'
  BY Zenon, <1>1 DEF Inv, Published
<1>3. ASSUME NEW v \in Watchers \ {w} PROVE Node(v)'
  BY <1>1, SameKeeps DEF Inv, Numbers
<1> QED
  BY Zenon, <1>2, <1>3 DEF Inv

(* Steps of Watch outside the handler; the key is what it hands on.        *)
LEMMA WatchKeeps ==
    ASSUME Inv, NEW w \in Watchers, Watch(w) \/ WatchStep(w)
    PROVE  Inv'
<1>1. UNCHANGED <<storedVars, key, engineRev, loaded>>
  BY Zenon DEF Watch, WatchStep, StartWatch, Subscribed, ReceiveEnds, Join, ReadKey, ReadFails,
         TickWatch, WakeWatch, CancelWatch, nodeVars
<1>2. /\ watcher \in [Watchers -> Watching] /\ watcher[w] \in Watching
      /\ engineRev[w] \in Nat /\ key \in Nat
  BY Zenon DEF Inv, Numbers
<1>3. PICK next \in Watching :
         /\ watcher' = [watcher EXCEPT ![w] = next]
         /\ \/ next.pc = watcher[w].pc /\ next.seen = watcher[w].seen
            \/ watcher[w].pc # "handle" /\ next.pc # "handle"
            \/ watcher[w].pc # "handle" /\ next.seen = key
  <2>1. CASE Watch(w)
    <3> DEFINE next == [OffWatcher EXCEPT !.pc = "observe", !.after = engineRev[w],
                                          !.receive = "starting"]
    <3>1. next \in Watching /\ next.pc = "observe"
      BY Zenon, <1>2 DEF OffWatcher, Watching
    <3>2. watcher' = [watcher EXCEPT ![w] = next] /\ watcher[w].pc # "handle"
      BY Zenon, <2>1 DEF Watch, StartWatch
    <3> QED
      BY Zenon, <3>1, <3>2
  <2>2. CASE Join(w)
    <3> DEFINE next == [OffWatcher EXCEPT !.err = watcher[w].err]
    <3>1. next \in Watching /\ next.pc = "off"
      BY Zenon, <1>2 DEF OffWatcher, Watching
    <3>2. watcher' = [watcher EXCEPT ![w] = next] /\ watcher[w].pc # "handle"
      BY Zenon, <2>2 DEF Join
    <3> QED
      BY Zenon, <3>1, <3>2
  <2>3. ASSUME NEW receive \in {"subscribed", "ended"},
               watcher' = [watcher EXCEPT ![w].receive = receive]
        PROVE  \E next \in Watching :
                  /\ watcher' = [watcher EXCEPT ![w] = next]
                  /\ next.pc = watcher[w].pc /\ next.seen = watcher[w].seen
    <3> DEFINE next == [watcher[w] EXCEPT !.receive = receive]
    <3>1. /\ next \in Watching
          /\ next.pc = watcher[w].pc /\ next.seen = watcher[w].seen
      BY Zenon, <1>2 DEF Watching
    <3>2. watcher' = [watcher EXCEPT ![w] = next]
      BY Zenon, <1>2, <2>3
    <3> QED
      BY Zenon, <3>1, <3>2
  <2>4. CASE ReadKey(w)
    <3>1. CASE key > watcher[w].after
      <4> DEFINE next == [watcher[w] EXCEPT !.pc = "handle", !.seen = key]
      <4>1. next \in Watching /\ next.seen = key
        BY Zenon, <1>2 DEF Watching
      <4>2. watcher' = [watcher EXCEPT ![w] = next] /\ watcher[w].pc # "handle"
        BY Zenon, <1>2, <2>4, <3>1 DEF ReadKey
      <4> QED
        BY Zenon, <4>1, <4>2
    <3>2. CASE ~(key > watcher[w].after)
      <4> DEFINE next == [watcher[w] EXCEPT !.pc = "select"]
      <4>1. next \in Watching /\ next.pc = "select"
        BY Zenon, <1>2 DEF Watching
      <4>2. watcher' = [watcher EXCEPT ![w] = next] /\ watcher[w].pc # "handle"
        BY Zenon, <1>2, <2>4, <3>2 DEF ReadKey
      <4> QED
        BY Zenon, <4>1, <4>2
    <3> QED
      BY Zenon, <3>1, <3>2
  <2>5. CASE ReadFails(w) \/ CancelWatch(w)
    <3>1. PICK err \in {"ReadError", "ContextError"} : LeaveWatch(w, err)
      BY Zenon, <2>5 DEF ReadFails, CancelWatch
    <3> DEFINE next == [watcher[w] EXCEPT !.pc = "joining", !.err = err]
    <3>2. next \in Watching /\ next.pc = "joining"
      BY Zenon, <1>2 DEF Watching
    <3>3. watcher' = [watcher EXCEPT ![w] = next] /\ watcher[w].pc # "handle"
      BY Zenon, <1>2, <2>5, <3>1 DEF ReadFails, CancelWatch, LeaveWatch
    <3> QED
      BY Zenon, <3>2, <3>3
  <2>6. CASE TickWatch(w)
    <3> DEFINE next == [watcher[w] EXCEPT !.pc = "observe"]
    <3>1. next \in Watching /\ next.pc = "observe"
      BY Zenon, <1>2 DEF Watching
    <3>2. watcher' = [watcher EXCEPT ![w] = next] /\ watcher[w].pc # "handle"
      BY Zenon, <1>2, <2>6 DEF TickWatch
    <3> QED
      BY Zenon, <3>1, <3>2
  <2>7. CASE WakeWatch(w)
    <3> DEFINE next == [watcher[w] EXCEPT !.pc = "observe", !.wakeup = FALSE]
    <3>1. next \in Watching /\ next.pc = "observe"
      BY Zenon, <1>2 DEF Watching
    <3>2. watcher' = [watcher EXCEPT ![w] = next] /\ watcher[w].pc # "handle"
      BY Zenon, <1>2, <2>7 DEF WakeWatch
    <3> QED
      BY Zenon, <3>1, <3>2
  <2> QED
    BY Zenon, <2>1, <2>2, <2>3, <2>4, <2>5, <2>6, <2>7 DEF WatchStep, Subscribed, ReceiveEnds
<1>4. watcher'[w] = next /\ \A v \in Watchers \ {w} : watcher'[v] = watcher[v]
  BY Zenon, <1>2, <1>3
<1>5. Numbers'
  BY Zenon, <1>1, <1>2, <1>3 DEF Inv, Numbers, storedVars
<1>6. Node(w)'
  BY Zenon, <1>1, <1>3, <1>4 DEF Inv, Numbers, Published, Node, storedVars
<1>7. \A v \in Watchers \ {w} : Same(v)
  BY Zenon, <1>1, <1>4 DEF Same
<1> QED
  BY Zenon, <1>1, <1>5, <1>6, <1>7, OneNode

(* The handler ends with or without an error: the hint is no longer in it. *)
LEMMA HandlerEnds ==
    ASSUME NEW w \in Watchers, watcher \in [Watchers -> Watching],
           HandlerSucceeds(w) \/ HandlerFails(w)
    PROVE  /\ watcher[w].pc = "handle" /\ key' = key
           /\ watcher' \in [Watchers -> Watching]
           /\ \A v \in Watchers \ {w} : watcher'[v] = watcher[v]
           /\ watcher'[w].pc # "handle" /\ watcher'[w].seen = watcher[w].seen
<1>1. watcher[w] \in Watching
  BY Zenon
<1>2. PICK next \in Watching : /\ watcher' = [watcher EXCEPT ![w] = next]
                               /\ next.pc # "handle" /\ next.seen = watcher[w].seen
  <2>1. CASE HandlerSucceeds(w)
    <3> DEFINE next == [watcher[w] EXCEPT !.pc = "select", !.after = watcher[w].seen]
    <3>1. next \in Watching /\ next.pc = "select" /\ next.seen = watcher[w].seen
      BY Zenon, <1>1 DEF Watching
    <3>2. watcher' = [watcher EXCEPT ![w] = next]
      BY Zenon, <2>1 DEF HandlerSucceeds
    <3> QED
      BY Zenon, <3>1, <3>2
  <2>2. CASE HandlerFails(w)
    <3> DEFINE next == [watcher[w] EXCEPT !.pc = "joining", !.err = "HandlerError"]
    <3>1. next \in Watching /\ next.pc = "joining" /\ next.seen = watcher[w].seen
      BY Zenon, <1>1 DEF Watching
    <3>2. watcher' = [watcher EXCEPT ![w] = next]
      BY Zenon, <2>2 DEF HandlerFails, LeaveWatch
    <3> QED
      BY Zenon, <3>1, <3>2
  <2> QED
    BY Zenon, <2>1, <2>2
<1> QED
  BY Zenon, <1>2 DEF HandlerSucceeds, HandlerFails

(* Observe inside the handler, and the poll of Run.                        *)
LEMMA ReloadKeeps ==
    ASSUME Inv, NEW w \in Watchers, Observe(w) \/ PollRepository(w)
    PROVE  Inv'
<1>1. /\ stored \in Nat /\ engineRev[w] \in Nat /\ loaded[w] \in Nat /\ watcher[w].seen \in Nat
      /\ watcher \in [Watchers -> Watching] /\ Node(w) /\ Numbers
  BY Zenon DEF Inv, Numbers, Watching
<1>2. ASSUME ObserveKnown(w) \/ ObserveFails(w) PROVE Inv'
  <2>1. /\ UNCHANGED <<storedVars, engineRev, loaded>> /\ loaded[w] = 0
        /\ HandlerSucceeds(w) \/ HandlerFails(w)
    BY Zenon, <1>2 DEF ObserveKnown, ObserveFails, nodeVars
  <2>2. Numbers'
    BY Zenon, <1>1, <2>1, HandlerEnds DEF Numbers, storedVars
  <2>3. Node(w)'
    BY Zenon, <1>1, <2>1, HandlerEnds DEF Node, storedVars
  <2>4. \A v \in Watchers \ {w} : Same(v)
    BY Zenon, <1>1, <2>1, HandlerEnds DEF Same
  <2> QED
    BY Zenon, <1>1, <2>1, <2>2, <2>3, <2>4, HandlerEnds, OneNode
<1>3. ASSUME ObserveLoads(w) PROVE Inv'
  <2>1. /\ UNCHANGED <<storedVars, key, watcher, engineRev>>
        /\ watcher[w].pc = "handle" /\ loaded' = [loaded EXCEPT ![w] = stored]
    BY Zenon, <1>3 DEF ObserveLoads, hintVars
  <2>2. loaded' \in [Watchers -> Nat] /\ loaded'[w] = stored
        /\ \A v \in Watchers \ {w} : loaded'[v] = loaded[v]
    BY Zenon, <1>1, <2>1 DEF Numbers
  <2>3. Numbers' /\ Node(w)'
    BY <1>1, <2>1, <2>2 DEF Numbers, Node, storedVars
  <2>4. \A v \in Watchers \ {w} : Same(v)
    BY Zenon, <2>1, <2>2 DEF Same
  <2> QED
    BY Zenon, <2>1, <2>3, <2>4, OneNode
<1>4. ASSUME ObserveActivates(w) PROVE Inv'
  <2>1. /\ UNCHANGED storedVars /\ loaded[w] # 0
        /\ HandlerSucceeds(w) \/ HandlerFails(w)
        /\ loaded' = [loaded EXCEPT ![w] = 0]
        /\ engineRev' = [engineRev EXCEPT ![w] =
                           IF loaded[w] > engineRev[w] THEN loaded[w] ELSE engineRev[w]]
    BY Zenon, <1>4 DEF ObserveActivates
  <2>2. /\ loaded' \in [Watchers -> Nat] /\ loaded'[w] = 0
        /\ engineRev' \in [Watchers -> Nat] /\ engineRev'[w] \in {loaded[w], engineRev[w]}
        /\ \A v \in Watchers \ {w} : loaded'[v] = loaded[v] /\ engineRev'[v] = engineRev[v]
    BY Zenon, <1>1, <2>1 DEF Numbers
  <2>3. Numbers'
    BY Zenon, <1>1, <2>1, <2>2, HandlerEnds DEF Numbers, storedVars
  <2>4. Node(w)'
    BY Zenon, <1>1, <2>1, <2>2, HandlerEnds DEF Node, storedVars
  <2>5. \A v \in Watchers \ {w} : Same(v)
    BY Zenon, <1>1, <2>1, <2>2, HandlerEnds DEF Same
  <2> QED
    BY Zenon, <1>1, <2>1, <2>3, <2>4, <2>5, HandlerEnds, OneNode
<1>5. ASSUME PollRepository(w) PROVE Inv'
  <2>1. /\ UNCHANGED <<storedVars, key, watcher, loaded>> /\ loaded[w] = 0
        /\ engineRev' = [engineRev EXCEPT ![w] = stored]
    BY Zenon, <1>5 DEF PollRepository, hintVars
  <2>2. /\ engineRev' \in [Watchers -> Nat] /\ engineRev'[w] = stored
        /\ \A v \in Watchers \ {w} : engineRev'[v] = engineRev[v]
    BY Zenon, <1>1, <2>1 DEF Numbers
  <2>3. Numbers' /\ Node(w)'
    BY <1>1, <2>1, <2>2 DEF Numbers, Node, storedVars
  <2>4. \A v \in Watchers \ {w} : Same(v)
    BY Zenon, <2>1, <2>2 DEF Same
  <2> QED
    BY Zenon, <2>1, <2>3, <2>4, OneNode
<1> QED
  BY Zenon, <1>2, <1>3, <1>4, <1>5 DEF Observe

LEMMA EvictKeeps ==
    ASSUME Inv, EvictKey, UNCHANGED <<storedVars, nodeVars>>
    PROVE  Inv'
<1>1. key' = 0 /\ UNCHANGED <<stored, acked, watcher, engineRev, loaded>>
  BY Zenon DEF EvictKey, storedVars, nodeVars
<1> QED
  BY <1>1 DEF Inv, Numbers, Published, Node

LEMMA StutterKeeps == ASSUME Inv, UNCHANGED vars PROVE Inv'
<1>1. UNCHANGED <<stored, acked, key, watcher, engineRev, loaded>>
  BY Zenon DEF vars, storedVars, hintVars, nodeVars
<1> QED
  BY Zenon, <1>1 DEF Inv, Numbers, Published, Node

LEMMA NextInv == Inv /\ [Next]_vars => Inv'
BY Zenon, StoredKeeps, PublishKeeps, EvictKeeps, WatchKeeps, ReloadKeeps, StutterKeeps DEF Next

(* The key only changes to a greater revision, or disappears.              *)
LEMMA KeyAdvances == Inv /\ [Next]_vars => key' >= key \/ key' = 0
<1> SUFFICES ASSUME Inv, [Next]_vars
             PROVE  key' >= key \/ key' = 0
  OBVIOUS
<1>1. key \in Nat
  BY Zenon DEF Inv, Numbers
<1>2. ASSUME NEW r \in 1..MaxHint, Publish(r) PROVE key' >= key
  BY <1>1, <1>2 DEF Publish, PublishHint
<1>3. ASSUME NEW w \in Watchers, Watch(w) \/ WatchStep(w) \/ Observe(w) \/ PollRepository(w)
      PROVE  key' = key
  <2>1. CASE Watch(w) \/ WatchStep(w)
    BY Zenon, <2>1 DEF Watch, WatchStep, StartWatch, Subscribed, ReceiveEnds, Join, ReadKey,
                       ReadFails, TickWatch, WakeWatch, CancelWatch
  <2>2. CASE Observe(w) \/ PollRepository(w)
    BY Zenon, <2>2 DEF Observe, ObserveKnown, ObserveLoads, ObserveFails, ObserveActivates,
                       PollRepository, HandlerSucceeds, HandlerFails, hintVars
  <2> QED
    BY Zenon, <1>3, <2>1, <2>2
<1>4. \/ key' = key \/ key' = 0
      \/ \E r \in 1..MaxHint : Publish(r)
  BY Zenon, <1>3 DEF Next, EvictKey, vars, hintVars
<1> QED
  BY <1>1, <1>2, <1>4

(* For any nodes, bounds and hint faults: neither the advisory key nor a   *)
(* hint inside Watch's handler names a revision that is not stored, a      *)
(* reload that Observe starts for a hint loads at least that revision, and *)
(* publishers in any order never take the key back.                        *)
THEOREM HintsAreStored == Spec => HintsFollowStorage
<1> DEFINE Follows ==
      /\ key <= stored
      /\ \A w \in Watchers :
           /\ watcher[w].pc = "handle" => watcher[w].seen <= stored
           /\ loaded[w] # 0 => watcher[w].seen <= loaded[w] /\ engineRev[w] <= loaded[w]
<1>1. Inv => Follows
  BY Zenon DEF Inv, Published, Node
<1>2. Inv /\ [Next]_vars => [key' >= key \/ key' = 0]_vars
  BY KeyAdvances
<1> HIDE DEF Follows
<1>3. Spec => []Follows /\ [][key' >= key \/ key' = 0]_vars
  BY InitInv, NextInv, <1>1, <1>2, PTL DEF Spec
<1> QED
  BY <1>3 DEF HintsFollowStorage, Follows

-----------------------------------------------------------------------------
(* Cached manifests are exact                                              *)

(* m is what was stored under revision r.                                  *)
Is(m, r) == m \in history /\ m.revision = r

(* Revisions are stored once and in order.                                 *)
Ordered ==
    /\ repository # NoManifest => repository \in history
    /\ \A m \in history : m.revision <= repository.revision
    /\ \A m, k \in history : m.revision = k.revision => m = k

(* Whatever is held under a key was stored under that revision.            *)
Entry(r) == entries[r] # NoManifest => Is(entries[r], r)
Loading(n, r) == load[n][r].pc = "found" => Is(load[n][r].manifest, r)
Caller(n) ==
    /\ caller[n].pc # "idle" => caller[n].key \in Revisions
    /\ caller[n].pc = "got" => Is(caller[n].manifest, caller[n].key)

Exact ==
    /\ \A r \in Revisions : Entry(r)
    /\ \A n \in Nodes, r \in Revisions : Loading(n, r)
    /\ \A n \in Nodes : Caller(n)

CacheInv == CacheTypeOK /\ Ordered /\ Exact

-----------------------------------------------------------------------------

LEMMA CacheInitInv == CacheInit => CacheInv
<1> SUFFICES ASSUME CacheInit PROVE CacheInv
  BY Zenon
<1> USE CacheAssumption DEF CacheInit, NoManifest, NoLoad, NoCall
<1>1. CacheTypeOK
  BY DEF CacheTypeOK, Loads, Calls
<1>2. Ordered /\ Exact
  BY Zenon DEF Ordered, Exact, Entry, Loading, Caller
<1> QED BY Zenon, <1>1, <1>2 DEF CacheInv

LEMMA StoredRevision ==
    ASSUME CacheTypeOK
    PROVE  /\ repository.revision \in Nat
           /\ \A m \in history : m.revision \in Revisions /\ m.revision \in Nat
BY CacheAssumption DEF CacheTypeOK, Manifests, NoManifest, Revisions

(* A publisher cannot store a revision twice.                              *)
LEMMA UpdateKeeps ==
    ASSUME CacheInv, NEW r \in Revisions, NEW content \in Contents, Update(r, content)
    PROVE  CacheInv'
<1> DEFINE next == [revision |-> r, content |-> content]
<1>1. /\ repository' = next /\ history' = history \cup {next} /\ r > repository.revision
      /\ UNCHANGED <<entries, load, caller, active>>
  BY Zenon DEF Update
<1>2. next \in Manifests /\ next.revision = r
  BY Zenon DEF Manifests
<1> HIDE DEF next
<1>3. CacheTypeOK'
  BY Zenon, <1>1, <1>2 DEF CacheInv, CacheTypeOK
<1>4. Ordered'
  <2>1. r \in Nat /\ repository.revision \in Nat /\ \A m \in history : m.revision \in Nat
    BY StoredRevision, CacheAssumption DEF CacheInv, Revisions
  <2>2. \A m \in history : m.revision < r
    BY <1>1, <2>1 DEF CacheInv, Ordered
  <2> QED BY <1>1, <1>2, <2>1, <2>2 DEF CacheInv, Ordered
<1>5. Exact'
  BY Zenon, <1>1 DEF CacheInv, Exact, Entry, Loading, Caller, Is
<1> QED BY Zenon, <1>3, <1>4, <1>5 DEF CacheInv

LEMMA ExpireKeeps == ASSUME CacheInv, NEW r \in Revisions, Expire(r) PROVE CacheInv'
<1> USE DEF Expire, CacheInv
<1>1. CacheTypeOK'
  BY Zenon DEF CacheTypeOK
<1>2. Ordered'
  BY Zenon DEF Ordered
<1>3. Exact'
  BY DEF Exact, Entry, Loading, Caller, Is, CacheTypeOK
<1> QED BY Zenon, <1>1, <1>2, <1>3

(* A step that changes only calls: the new call of n is in order.          *)
LEMMA CallerKeeps ==
    ASSUME CacheInv, NEW n \in Nodes, NEW next \in Calls, caller' = [caller EXCEPT ![n] = next],
           next.pc # "idle" => next.key \in Revisions,
           next.pc = "got" => Is(next.manifest, next.key)
    PROVE  /\ caller' \in [Nodes -> Calls]
           /\ UNCHANGED history => \A m \in Nodes : Caller(m)'
<1>1. caller \in [Nodes -> Calls] /\ \A m \in Nodes : Caller(m)
  BY Zenon DEF CacheInv, CacheTypeOK, Exact
<1>2. caller' \in [Nodes -> Calls]
  BY Zenon, <1>1
<1>3. ASSUME UNCHANGED history, NEW m \in Nodes PROVE Caller(m)'
  <2>1. CASE m = n
    <3>1. caller'[m] = next
      BY Zenon, <1>1, <2>1
    <3> QED BY <1>3, <3>1 DEF Caller, Is
  <2>2. CASE m # n
    <3>1. caller'[m] = caller[m]
      BY Zenon, <1>1, <2>2
    <3> QED BY Zenon, <1>1, <1>3, <3>1 DEF Caller, Is
  <2> QED BY Zenon, <2>1, <2>2
<1> QED BY Zenon, <1>2, <1>3

LEMMA CallStep ==
    ASSUME CacheInv, NEW n \in Nodes, NEW next \in Calls, caller' = [caller EXCEPT ![n] = next],
           next.pc # "idle" => next.key \in Revisions,
           next.pc = "got" => Is(next.manifest, next.key),
           UNCHANGED <<repository, history, entries, load>>,
           active' \in [Nodes -> Manifests \cup {NoManifest}]
    PROVE  CacheInv'
<1>1. caller' \in [Nodes -> Calls] /\ \A m \in Nodes : Caller(m)'
  BY Zenon, CallerKeeps
<1>2. CacheTypeOK'
  BY Zenon, <1>1 DEF CacheInv, CacheTypeOK
<1>3. Ordered'
  BY Zenon DEF CacheInv, Ordered
<1>4. Exact'
  BY Zenon, <1>1 DEF CacheInv, Exact, Entry, Loading, Is
<1> QED BY Zenon, <1>2, <1>3, <1>4 DEF CacheInv

(* The calls that hold nothing.                                            *)
LEMMA NoCallTypes ==
    /\ NoCall \in Calls /\ NoCall.pc = "idle"
    /\ \A err \in {"ErrInvalidRevision", "ErrManifestTooLarge", "ErrNotInitialized",
                   "NotFound", "RepositoryError", "ContextError"} :
         /\ [NoCall EXCEPT !.err = err] \in Calls
         /\ [NoCall EXCEPT !.err = err].pc = "idle"
    /\ \A r \in Revisions :
         /\ [NoCall EXCEPT !.pc = "lookup", !.key = r] \in Calls
         /\ [NoCall EXCEPT !.pc = "lookup", !.key = r].pc = "lookup"
         /\ [NoCall EXCEPT !.pc = "lookup", !.key = r].key = r
<1>1. NoCall \in Calls /\ NoCall.pc = "idle"
  BY CacheAssumption DEF NoCall, Calls, NoManifest
<1>2. Revisions \subseteq 0..MaxCachedRevision
  BY CacheAssumption DEF Revisions
<1> QED BY Zenon, <1>1, <1>2 DEF Calls

LEMMA GetOrLoadKeeps ==
    ASSUME CacheInv, NEW n \in Nodes, NEW r \in 0..MaxCachedRevision, GetOrLoad(n, r)
    PROVE  CacheInv'
<1> DEFINE next == IF r = 0 THEN [NoCall EXCEPT !.err = "ErrInvalidRevision"]
                   ELSE [NoCall EXCEPT !.pc = "lookup", !.key = r]
<1>1. next \in Calls /\ (next.pc # "idle" => next.key \in Revisions) /\ next.pc # "got"
  <2>1. CASE r = 0
    <3> DEFINE refused == [NoCall EXCEPT !.err = "ErrInvalidRevision"]
    <3>1. refused \in Calls /\ refused.pc = "idle"
      BY Zenon, NoCallTypes
    <3> HIDE DEF refused
    <3>2. next = refused
      BY Zenon, <2>1 DEF refused
    <3> QED BY Zenon, <3>1, <3>2
  <2>2. CASE r # 0
    <3> DEFINE begun == [NoCall EXCEPT !.pc = "lookup", !.key = r]
    <3>1. r \in Revisions
      BY <2>2, CacheAssumption DEF Revisions
    <3>2. begun \in Calls /\ begun.pc = "lookup" /\ begun.key = r
      BY Zenon, <3>1, NoCallTypes
    <3> HIDE DEF begun
    <3>3. next = begun
      BY Zenon, <2>2 DEF begun
    <3> QED BY Zenon, <3>1, <3>2, <3>3
  <2> QED BY Zenon, <2>1, <2>2
<1>2. /\ caller' = [caller EXCEPT ![n] = next]
      /\ UNCHANGED <<repository, history, entries, load, active>>
  BY Zenon DEF GetOrLoad
<1>3. active' \in [Nodes -> Manifests \cup {NoManifest}]
  BY Zenon, <1>2 DEF CacheInv, CacheTypeOK
<1> HIDE DEF next
<1> QED BY Zenon, <1>1, <1>2, <1>3, CallStep

(* A call is answered with what was stored under its key, or fails.        *)
LEMMA AnswerTypes ==
    ASSUME CacheInv, NEW n \in Nodes, caller[n].pc # "idle",
           NEW manifest \in Manifests \cup {NoManifest},
           NEW err \in {"none", "ErrManifestTooLarge", "ErrNotInitialized", "NotFound",
                        "RepositoryError"},
           err = "none" => Is(manifest, caller[n].key)
    PROVE  /\ Returned(n, manifest, err) \in Calls
           /\ Returned(n, manifest, err).pc # "idle" =>
                Returned(n, manifest, err).key \in Revisions
           /\ Returned(n, manifest, err).pc = "got" =>
                Is(Returned(n, manifest, err).manifest, Returned(n, manifest, err).key)
<1>1. caller[n] \in Calls /\ caller[n].key \in Revisions
  BY Zenon DEF CacheInv, CacheTypeOK, Exact, Caller
<1>2. CASE err = "none"
  <2> DEFINE next == [caller[n] EXCEPT !.pc = "got", !.manifest = manifest]
  <2>1. /\ next \in Calls /\ next.key = caller[n].key /\ next.manifest = manifest
    BY Zenon, <1>1 DEF Calls
  <2>2. Returned(n, manifest, err) = next
    BY Zenon, <1>2 DEF Returned
  <2> HIDE DEF next
  <2> QED BY Zenon, <1>1, <1>2, <2>1, <2>2
<1>3. CASE err # "none"
  <2> DEFINE failed == [NoCall EXCEPT !.err = err]
  <2>1. failed \in Calls /\ failed.pc = "idle"
    BY Zenon, <1>3, NoCallTypes
  <2>2. Returned(n, manifest, err) = failed
    BY Zenon, <1>3 DEF Returned
  <2> HIDE DEF failed
  <2> QED BY Zenon, <2>1, <2>2
<1> QED BY Zenon, <1>2, <1>3

LEMMA HitKeeps == ASSUME CacheInv, NEW n \in Nodes, Hit(n) PROVE CacheInv'
<1> DEFINE entry == entries[caller[n].key]
           next == Returned(n, entry, CodecError(n, entry))
<1>1. caller[n].pc = "lookup" /\ caller[n].key \in Revisions /\ entry # NoManifest
  BY Zenon DEF Hit, CacheInv, Exact, Caller
<1>2. entry \in Manifests \cup {NoManifest} /\ Is(entry, caller[n].key)
  BY Zenon, <1>1 DEF CacheInv, CacheTypeOK, Exact, Entry
<1>3. CodecError(n, entry) \in {"none", "ErrManifestTooLarge"}
  BY Zenon DEF CodecError
<1>4. /\ caller' = [caller EXCEPT ![n] = next]
      /\ UNCHANGED <<repository, history, entries, load, active>>
  BY Zenon DEF Hit
<1> HIDE DEF entry
<1>5. /\ next \in Calls /\ (next.pc # "idle" => next.key \in Revisions)
      /\ next.pc = "got" => Is(next.manifest, next.key)
  BY Zenon, <1>1, <1>2, <1>3, AnswerTypes
<1>6. active' \in [Nodes -> Manifests \cup {NoManifest}]
  BY Zenon, <1>4 DEF CacheInv, CacheTypeOK
<1> HIDE DEF next
<1> QED BY Zenon, <1>4, <1>5, <1>6, CallStep

(* A load in flight holds what was stored under its key.                   *)
LEMMA LoadStep ==
    ASSUME CacheInv, NEW n \in Nodes, NEW r \in Revisions, NEW next \in Loads,
           load' = [load EXCEPT ![n][r] = next], UNCHANGED history,
           next.pc = "found" => Is(next.manifest, r)
    PROVE  /\ load' \in [Nodes -> [Revisions -> Loads]]
           /\ \A m \in Nodes, k \in Revisions : Loading(m, k)'
<1>1. load \in [Nodes -> [Revisions -> Loads]] /\ load[n] \in [Revisions -> Loads]
  BY Zenon DEF CacheInv, CacheTypeOK
<1>2. load' \in [Nodes -> [Revisions -> Loads]]
  BY Zenon, <1>1
<1>3. ASSUME NEW m \in Nodes, NEW k \in Revisions PROVE Loading(m, k)'
  <2>1. load'[m][k] = IF m = n /\ k = r THEN next ELSE load[m][k]
    BY Zenon, <1>1
  <2>2. Loading(m, k)
    BY Zenon DEF CacheInv, Exact
  <2> QED BY <2>1, <2>2 DEF Loading, Is
<1> QED BY Zenon, <1>2, <1>3

LEMMA EndLoadKeeps ==
    ASSUME CacheInv, NEW n \in Nodes, NEW r \in Revisions,
           NEW manifest \in Manifests \cup {NoManifest},
           NEW err \in {"none", "ErrManifestTooLarge", "ErrNotInitialized", "NotFound",
                        "RepositoryError"},
           err = "none" => Is(manifest, r), EndLoad(n, r, manifest, err), UNCHANGED history
    PROVE  /\ load' \in [Nodes -> [Revisions -> Loads]]
           /\ \A m \in Nodes, k \in Revisions : Loading(m, k)'
           /\ caller' \in [Nodes -> Calls] /\ \A m \in Nodes : Caller(m)'
<1>1. NoLoad \in Loads /\ NoLoad.pc # "found"
  BY Zenon DEF NoLoad, Loads
<1>2. load' = [load EXCEPT ![n][r] = NoLoad]
  BY Zenon DEF EndLoad
<1>3. /\ load' \in [Nodes -> [Revisions -> Loads]]
      /\ \A m \in Nodes, k \in Revisions : Loading(m, k)'
  BY Zenon, <1>1, <1>2, LoadStep
<1>4. CASE caller[n].pc = "wait" /\ caller[n].key = r
  <2> DEFINE next == Returned(n, manifest, err)
  <2>1. /\ next \in Calls /\ (next.pc # "idle" => next.key \in Revisions)
        /\ next.pc = "got" => Is(next.manifest, next.key)
    BY Zenon, <1>4, AnswerTypes
  <2>2. caller' = [caller EXCEPT ![n] = next]
    BY Zenon, <1>4 DEF EndLoad
  <2> HIDE DEF next
  <2> QED BY Zenon, <1>3, <2>1, <2>2, CallerKeeps
<1>5. CASE ~(caller[n].pc = "wait" /\ caller[n].key = r)
  <2>1. caller' = caller
    BY Zenon, <1>5 DEF EndLoad
  <2> QED BY Zenon, <1>3, <2>1 DEF CacheInv, CacheTypeOK, Exact, Caller, Is
<1> QED BY Zenon, <1>4, <1>5

(* The loader finds the latest manifest only if it is the one asked for.   *)
LEMMA LoaderKeeps ==
    ASSUME CacheInv, NEW n \in Nodes, NEW r \in Revisions,
           RepositoryLoader(n, r) \/ LoaderFails(n, r)
    PROVE  CacheInv'
<1>1. UNCHANGED <<repository, history, entries, active>>
  BY Zenon DEF RepositoryLoader, LoaderFails
<1> DEFINE Kept == /\ load' \in [Nodes -> [Revisions -> Loads]]
                   /\ \A m \in Nodes, k \in Revisions : Loading(m, k)'
                   /\ caller' \in [Nodes -> Calls] /\ \A m \in Nodes : Caller(m)'
<1>2. ASSUME NEW err \in {"ErrNotInitialized", "NotFound", "RepositoryError"},
             EndLoad(n, r, NoManifest, err)
      PROVE  Kept
  BY Zenon, <1>1, <1>2, EndLoadKeeps
<1>3. ASSUME RepositoryLoader(n, r), LoaderResult(r).found PROVE Kept
  <2> DEFINE next == [pc |-> "found", manifest |-> repository]
  <2>1. repository # NoManifest /\ repository.revision = r /\ LoaderResult(r).manifest = repository
    BY Zenon, <1>3 DEF LoaderResult
  <2>2. load' = [load EXCEPT ![n][r] = next] /\ UNCHANGED caller
    BY Zenon, <1>3, <2>1 DEF RepositoryLoader
  <2>3. Is(repository, r)
    BY Zenon, <2>1 DEF CacheInv, Ordered, Is
  <2>4. next \in Loads /\ next.manifest = repository
    BY Zenon DEF CacheInv, CacheTypeOK, Loads
  <2> HIDE DEF next
  <2>5. /\ load' \in [Nodes -> [Revisions -> Loads]]
        /\ \A m \in Nodes, k \in Revisions : Loading(m, k)'
    BY Zenon, <1>1, <2>2, <2>3, <2>4, LoadStep
  <2> QED BY Zenon, <1>1, <2>2, <2>5 DEF CacheInv, CacheTypeOK, Exact, Caller, Is
<1>4. Kept
  <2>1. LoaderFails(n, r) => EndLoad(n, r, NoManifest, "RepositoryError")
    BY Zenon DEF LoaderFails
  <2>2. RepositoryLoader(n, r) /\ ~LoaderResult(r).found =>
          \E err \in {"ErrNotInitialized", "NotFound"} : EndLoad(n, r, NoManifest, err)
    BY Zenon DEF RepositoryLoader, LoaderResult
  <2> HIDE DEF Kept
  <2> QED BY Zenon, <1>2, <1>3, <2>1, <2>2
<1>5. CacheTypeOK'
  BY Zenon, <1>1, <1>4 DEF CacheInv, CacheTypeOK
<1>6. Ordered'
  BY Zenon, <1>1 DEF CacheInv, Ordered
<1>7. Exact'
  BY Zenon, <1>1, <1>4 DEF CacheInv, Exact, Entry, Is
<1> QED BY Zenon, <1>5, <1>6, <1>7 DEF CacheInv

LEMMA FillKeeps == ASSUME CacheInv, NEW n \in Nodes, NEW r \in Revisions, Fill(n, r) PROVE CacheInv'
<1> DEFINE manifest == load[n][r].manifest
           err == CodecError(n, manifest)
<1>1. /\ load[n][r].pc = "found" /\ UNCHANGED <<repository, history, active>>
      /\ EndLoad(n, r, manifest, err)
      /\ entries' = IF err = "none" THEN [entries EXCEPT ![r] = manifest] ELSE entries
  BY Zenon DEF Fill
<1>2. manifest \in Manifests \cup {NoManifest} /\ Is(manifest, r)
  <2>1. load[n][r] \in Loads /\ Loading(n, r)
    BY Zenon DEF CacheInv, CacheTypeOK, Exact
  <2> QED BY Zenon, <1>1, <2>1 DEF Loads, Loading
<1>3. err \in {"none", "ErrManifestTooLarge"}
  BY Zenon DEF CodecError
<1> HIDE DEF manifest, err
<1>4. /\ load' \in [Nodes -> [Revisions -> Loads]]
      /\ \A m \in Nodes, k \in Revisions : Loading(m, k)'
      /\ caller' \in [Nodes -> Calls] /\ \A m \in Nodes : Caller(m)'
  BY Zenon, <1>1, <1>2, <1>3, EndLoadKeeps
<1>5. entries' \in [Revisions -> Manifests \cup {NoManifest}]
  BY Zenon, <1>1, <1>2 DEF CacheInv, CacheTypeOK
<1>6. \A k \in Revisions : Entry(k)'
  <2>1. \A k \in Revisions : entries'[k] = entries[k] \/ (k = r /\ entries'[k] = manifest)
    BY Zenon, <1>1 DEF CacheInv, CacheTypeOK
  <2> SUFFICES ASSUME NEW k \in Revisions PROVE Entry(k)'
    BY Zenon
  <2>2. Entry(k) /\ history' = history
    BY Zenon, <1>1 DEF CacheInv, Exact
  <2>3. CASE entries'[k] = entries[k]
    BY Zenon, <2>2, <2>3 DEF Entry, Is
  <2>4. CASE k = r /\ entries'[k] = manifest
    BY Zenon, <1>2, <2>2, <2>4 DEF Entry, Is
  <2> QED BY Zenon, <2>1, <2>3, <2>4
<1>7. CacheTypeOK'
  BY Zenon, <1>1, <1>4, <1>5 DEF CacheInv, CacheTypeOK
<1>8. Ordered'
  BY Zenon, <1>1 DEF CacheInv, Ordered
<1> QED BY Zenon, <1>4, <1>6, <1>7, <1>8 DEF CacheInv, Exact

LEMMA MissKeeps == ASSUME CacheInv, NEW n \in Nodes, Miss(n) PROVE CacheInv'
<1> DEFINE asked == caller[n].key
           next == [caller[n] EXCEPT !.pc = "wait"]
<1>1. caller[n] \in Calls /\ asked \in Revisions
  BY Zenon DEF Miss, CacheInv, CacheTypeOK, Exact, Caller
<1>2. next \in Calls /\ next.pc = "wait" /\ next.key = asked
  BY Zenon, <1>1 DEF Calls
<1>3. caller' = [caller EXCEPT ![n] = next] /\ UNCHANGED <<repository, history, entries, active>>
  BY Zenon, <1>1 DEF Miss, CacheInv, CacheTypeOK
<1>4. caller' \in [Nodes -> Calls] /\ \A m \in Nodes : Caller(m)'
  <2> HIDE DEF next
  <2> QED BY Zenon, <1>1, <1>2, <1>3, CallerKeeps
<1>5. /\ load' \in [Nodes -> [Revisions -> Loads]]
      /\ \A m \in Nodes, k \in Revisions : Loading(m, k)'
  <2>1. CASE load' = load
    BY Zenon, <1>3, <2>1 DEF CacheInv, CacheTypeOK, Exact, Loading, Is
  <2>2. CASE load' = [load EXCEPT ![n][asked].pc = "started"]
    <3> DEFINE begun == [load[n][asked] EXCEPT !.pc = "started"]
    <3>1. load[n][asked] \in Loads /\ load \in [Nodes -> [Revisions -> Loads]]
      BY Zenon, <1>1 DEF CacheInv, CacheTypeOK
    <3>2. begun \in Loads /\ begun.pc = "started"
      BY Zenon, <3>1 DEF Loads
    <3>3. load' = [load EXCEPT ![n][asked] = begun]
      BY Zenon, <2>2, <3>1
    <3> HIDE DEF begun, asked
    <3> QED BY Zenon, <1>1, <1>3, <3>2, <3>3, LoadStep
  <2> QED BY Zenon, <2>1, <2>2 DEF Miss
<1>6. CacheTypeOK'
  BY Zenon, <1>3, <1>4, <1>5 DEF CacheInv, CacheTypeOK
<1>7. Ordered'
  BY Zenon, <1>3 DEF CacheInv, Ordered
<1>8. Exact'
  BY Zenon, <1>3, <1>4, <1>5 DEF CacheInv, Exact, Entry, Is
<1> QED BY Zenon, <1>6, <1>7, <1>8 DEF CacheInv

LEMMA LeaveKeeps == ASSUME CacheInv, NEW n \in Nodes, Leave(n) PROVE CacheInv'
<1> DEFINE next == [NoCall EXCEPT !.err = "ContextError"]
<1>1. next \in Calls /\ next.pc = "idle"
  BY Zenon, NoCallTypes
<1>2. /\ caller' = [caller EXCEPT ![n] = next]
      /\ UNCHANGED <<repository, history, entries, load, active>>
  BY Zenon DEF Leave
<1>3. active' \in [Nodes -> Manifests \cup {NoManifest}]
  BY Zenon, <1>2 DEF CacheInv, CacheTypeOK
<1> HIDE DEF next
<1> QED BY Zenon, <1>1, <1>2, <1>3, CallStep

(* An engine moves forward only, to what it is offered.                    *)
LEMMA OfferMoves ==
    ASSUME CacheTypeOK, NEW n \in Nodes, NEW manifest \in Manifests, Offer(n, manifest)
    PROVE  /\ active' \in [Nodes -> Manifests \cup {NoManifest}]
           /\ \A m \in Nodes : active'[m] # active[m] =>
                active'[m] = manifest /\ active'[m].revision > active[m].revision
BY Zenon DEF Offer, CacheTypeOK

LEMMA UseAnswerKeeps ==
    ASSUME CacheInv, NEW n \in Nodes, UseAnswer(n)
    PROVE  CacheInv' /\ caller[n].manifest \in history
<1>1. caller[n].manifest \in history /\ caller[n].manifest \in Manifests
  BY Zenon DEF UseAnswer, CacheInv, Exact, Caller, Is, CacheTypeOK
<1>2. active' \in [Nodes -> Manifests \cup {NoManifest}]
  BY Zenon, <1>1, OfferMoves DEF UseAnswer, CacheInv
<1>3. caller' = [caller EXCEPT ![n] = NoCall] /\ UNCHANGED <<repository, history, entries, load>>
  BY Zenon DEF UseAnswer
<1>4. CacheInv'
  BY Zenon, <1>2, <1>3, NoCallTypes, CallStep
<1> QED BY Zenon, <1>1, <1>4

LEMMA PollKeeps ==
    ASSUME CacheInv, NEW n \in Nodes, Poll(n)
    PROVE  CacheInv' /\ repository \in history
<1>1. repository \in history /\ repository \in Manifests
  BY Zenon DEF Poll, CacheInv, Ordered, CacheTypeOK
<1>2. active' \in [Nodes -> Manifests \cup {NoManifest}]
  BY Zenon, <1>1, OfferMoves DEF Poll, CacheInv
<1>3. UNCHANGED <<repository, history, entries, load, caller>>
  BY Zenon DEF Poll
<1>4. CacheInv'
  BY Zenon, <1>2, <1>3 DEF CacheInv, CacheTypeOK, Ordered, Exact, Entry, Loading, Caller, Is
<1> QED BY Zenon, <1>1, <1>4

LEMMA NextKeeps == CacheInv /\ [CacheNext]_cacheVars => CacheInv'
<1> SUFFICES ASSUME CacheInv, [CacheNext]_cacheVars PROVE CacheInv'
  BY Zenon
<1>1. CASE UNCHANGED cacheVars
  BY Zenon, <1>1 DEF cacheVars, CacheInv, CacheTypeOK, Ordered, Exact, Entry, Loading, Caller, Is
<1>2. ASSUME NEW n \in Nodes, NEW r \in Revisions,
             RepositoryLoader(n, r) \/ LoaderFails(n, r) \/ Fill(n, r)
      PROVE  CacheInv'
  BY Zenon, <1>2, LoaderKeeps, FillKeeps
<1>3. ASSUME NEW n \in Nodes,
             \/ \E r \in 0..MaxCachedRevision : GetOrLoad(n, r)
             \/ Hit(n) \/ Miss(n) \/ Leave(n) \/ UseAnswer(n) \/ Poll(n)
      PROVE  CacheInv'
  BY Zenon, <1>3, GetOrLoadKeeps, HitKeeps, MissKeeps, LeaveKeeps, UseAnswerKeeps, PollKeeps
<1> QED BY Zenon, <1>1, <1>2, <1>3, UpdateKeeps, ExpireKeeps DEF CacheNext

THEOREM CacheInvariance == CacheSpec => []CacheInv
BY CacheInitInv, NextKeeps, PTL DEF CacheSpec

-----------------------------------------------------------------------------

LEMMA EnginesMoveForward ==
    ASSUME CacheInv, CacheNext, NEW n \in Nodes, active'[n] # active[n]
    PROVE  active'[n].revision > active[n].revision /\ active'[n] \in history
<1>1. CASE \E m \in Nodes : UseAnswer(m)
  <2>1. PICK m \in Nodes : UseAnswer(m)
    BY Zenon, <1>1
  <2>2. caller[m].manifest \in history /\ caller[m].manifest \in Manifests
    BY Zenon, <2>1, UseAnswerKeeps DEF CacheInv, CacheTypeOK
  <2>3. Offer(m, caller[m].manifest) /\ CacheTypeOK
    BY Zenon, <2>1 DEF UseAnswer, CacheInv
  <2> QED BY Zenon, <2>2, <2>3, OfferMoves
<1>2. CASE \E m \in Nodes : Poll(m)
  <2>1. PICK m \in Nodes : Poll(m)
    BY Zenon, <1>2
  <2>2. repository \in history /\ repository \in Manifests
    BY Zenon, <2>1, PollKeeps DEF CacheInv, CacheTypeOK
  <2>3. Offer(m, repository) /\ CacheTypeOK
    BY Zenon, <2>1 DEF Poll, CacheInv
  <2> QED BY Zenon, <2>2, <2>3, OfferMoves
<1>3. CASE active' = active
  BY Zenon, <1>3
<1> QED BY Zenon, <1>1, <1>2, <1>3 DEF CacheNext, Update, Expire, GetOrLoad, Hit, Miss, RepositoryLoader,
                                LoaderFails, Fill, Leave

(* RepositoryLoader never answers a key with another revision's manifest,  *)
(* whatever is stored, expires or is filled late, and no answer of the     *)
(* cache takes an engine to an older or an unknown manifest.               *)
THEOREM CacheIsExact == CacheSpec => CachedManifestsAreExact
<1> DEFINE Step(n) ==
        /\ caller'[n].pc = "got" =>
             {m \in history' : m.revision = caller'[n].key} = {caller'[n].manifest}
        /\ active'[n] # active[n] =>
             active'[n].revision > active[n].revision /\ active'[n] \in history
<1>1. ASSUME CacheInv, CacheInv', [CacheNext]_cacheVars PROVE [\A n \in Nodes : Step(n)]_cacheVars
  <2>1. ASSUME CacheNext, NEW n \in Nodes PROVE Step(n)
    <3>1. caller'[n].pc = "got" =>
            {m \in history' : m.revision = caller'[n].key} = {caller'[n].manifest}
      <4>1. Caller(n)' /\ Ordered'
        BY Zenon, <1>1 DEF CacheInv, Exact
      <4> QED
        BY Zenon, <4>1 DEF Ordered, Caller, Is
    <3>2. active'[n] # active[n] =>
            active'[n].revision > active[n].revision /\ active'[n] \in history
      BY Zenon, <1>1, <2>1, EnginesMoveForward
    <3> QED BY Zenon, <3>1, <3>2
  <2> HIDE DEF Step
  <2> QED BY Zenon, <1>1, <2>1
<1> QED BY CacheInvariance, <1>1, PTL DEF CacheSpec, CachedManifestsAreExact

-----------------------------------------------------------------------------
(* Authority epochs: what carries them is how row locks exclude each other *)

(* An uncommitted row is ahead of the committed one, and while there is    *)
(* one nobody but its writer holds a share lock; a scope without a row has *)
(* no locks on it.                                                         *)
Locks ==
    /\ writer # None => staged > version /\ share \subseteq {writer}
    /\ writer = None /\ version = 0 => share = {}

(* AdvanceAuthority refuses the largest epoch before it queries.           *)
Queries ==
    \A t \in Transactions :
        tx[t].pc = "query" /\ tx[t].call = "advance" => tx[t].expected < MaxEpoch

(* RequireAuthority leaves a share lock behind what it admitted.           *)
Admissions ==
    \A t \in Transactions :
        tx[t].admitted # 0 =>
            /\ t \in share
            /\ version = tx[t].admitted \/ (writer = t /\ tx[t].admitted <= staged)

AuthorityInv == AuthorityTypeOK /\ Locks /\ Queries /\ Admissions

-----------------------------------------------------------------------------

LEMMA AuthorityInitial == AuthorityInit => AuthorityInv
<1> SUFFICES ASSUME AuthorityInit PROVE AuthorityInv
  BY Zenon
<1> USE AuthorityAssumption DEF AuthorityInit, Fresh
<1>1. AuthorityTypeOK
  BY DEF AuthorityTypeOK, TxRecord
<1>2. Locks /\ Queries /\ Admissions
  BY Zenon DEF Locks, Queries, Admissions
<1> QED BY Zenon, <1>1, <1>2 DEF AuthorityInv

(* Finish changes nothing that the invariant looks at, except the pc.      *)
LEMMA FinishKeeps ==
    ASSUME AuthorityTypeOK, NEW t \in Transactions,
           NEW err \in {"none", "ErrAuthorityConflict", "ErrAuthorityDenied",
                        "ErrAuthorityUnavailable"},
           Finish(t, err)
    PROVE  /\ tx' \in [Transactions -> TxRecord]
           /\ \A u \in Transactions : tx'[u].admitted = tx[u].admitted
           /\ \A u \in Transactions : tx'[u].pc = "query" => tx'[u] = tx[u]
<1> DEFINE next == [tx[t] EXCEPT !.pc = IF err = "none" THEN "open" ELSE "failed", !.err = err]
<1>1. tx[t] \in TxRecord /\ tx \in [Transactions -> TxRecord]
  BY Zenon DEF AuthorityTypeOK
<1>2. next \in TxRecord /\ next.pc # "query" /\ next.admitted = tx[t].admitted
  BY Zenon, <1>1 DEF TxRecord
<1>3. tx' = [tx EXCEPT ![t] = next]
  BY Zenon, <1>1 DEF Finish
<1> QED BY Zenon, <1>1, <1>2, <1>3

LEMMA BeginKeeps ==
    ASSUME AuthorityInv, NEW t \in Transactions, Begin(t)
    PROVE  AuthorityInv'
<1> USE AuthorityAssumption DEF Begin, Fresh, AuthorityInv
<1>1. AuthorityTypeOK'
  BY DEF AuthorityTypeOK, TxRecord
<1>2. Locks'
  BY Zenon DEF Locks
<1>3. Queries' /\ Admissions'
  BY Zenon DEF Queries, Admissions, AuthorityTypeOK
<1> QED BY Zenon, <1>1, <1>2, <1>3

LEMMA CallKeeps ==
    ASSUME AuthorityInv, NEW t \in Transactions, NEW valid \in BOOLEAN,
           NEW name \in {"initialize", "advance", "require"},
           NEW expected \in 0..MaxEpoch, Call(t, name, expected, valid)
    PROVE  AuthorityInv'
<1> DEFINE err == CallError(name, expected, valid)
<1> USE AuthorityAssumption DEF AuthorityInv
<1>1. err \in {"none", "ErrInvalidAuthority", "ErrAuthorityOverflow"}
  BY Zenon DEF CallError
<1>2. tx' = [tx EXCEPT ![t].pc = IF err = "none" THEN "query" ELSE "failed",
                       ![t].call = name, ![t].expected = expected, ![t].err = err]
  BY Zenon DEF Call
<1>3. name = "advance" /\ err = "none" => expected < MaxEpoch
  BY DEF CallError
<1> HIDE DEF err
<1>4. AuthorityTypeOK'
  <2> DEFINE next == [tx[t] EXCEPT !.pc = IF err = "none" THEN "query" ELSE "failed",
                                   !.call = name, !.expected = expected, !.err = err]
  <2>1. tx[t] \in TxRecord /\ tx \in [Transactions -> TxRecord]
    BY Zenon DEF AuthorityTypeOK
  <2>2. next \in TxRecord
    BY Zenon, <1>1, <2>1 DEF TxRecord
  <2>3. tx' = [tx EXCEPT ![t] = next]
    BY Zenon, <1>2, <2>1
  <2>4. tx' \in [Transactions -> TxRecord]
    BY Zenon, <2>1, <2>2, <2>3
  <2>5. UNCHANGED <<version, writer, staged, share>>
    BY Zenon DEF Call
  <2> QED BY Zenon, <2>4, <2>5 DEF AuthorityTypeOK
<1>5. Locks'
  BY Zenon DEF Locks, Call
<1>6. Queries'
  BY <1>2, <1>3 DEF Queries, AuthorityTypeOK, TxRecord
<1>7. \A u \in Transactions : tx'[u].admitted = tx[u].admitted
  BY <1>2 DEF AuthorityTypeOK, TxRecord
<1>8. Admissions'
  BY Zenon, <1>7 DEF Admissions, Call
<1> QED BY Zenon, <1>4, <1>5, <1>6, <1>8

(* INSERT writes only where there is no row, which nobody has locked.      *)
LEMMA InitializeKeeps ==
    ASSUME AuthorityInv, NEW t \in Transactions, InitializeAuthority(t)
    PROVE  AuthorityInv'
<1> USE AuthorityAssumption DEF AuthorityInv
<1>1. PICK err \in {"none", "ErrAuthorityConflict"} : Finish(t, err)
  BY Zenon DEF InitializeAuthority
<1>2. /\ tx' \in [Transactions -> TxRecord]
      /\ \A u \in Transactions : tx'[u].admitted = tx[u].admitted
      /\ \A u \in Transactions : tx'[u].pc = "query" => tx'[u] = tx[u]
  BY Zenon, <1>1, FinishKeeps
<1>3. Queries'
  BY Zenon, <1>2 DEF Queries
<1>4. CASE Seen(t) = 0
  <2>1. version = 0 /\ writer = None /\ share = {}
    BY <1>4 DEF InitializeAuthority, Seen, Locks, AuthorityTypeOK
  <2>2. writer' = t /\ staged' = 1 /\ version' = 0 /\ share' = {}
    BY Zenon, <1>4, <2>1 DEF InitializeAuthority
  <2>3. AuthorityTypeOK' /\ Locks'
    BY <1>2, <2>2 DEF AuthorityTypeOK, Locks
  <2>4. Admissions'
    BY Zenon, <1>2, <2>1 DEF Admissions
  <2> QED BY Zenon, <1>3, <2>3, <2>4
<1>5. CASE Seen(t) # 0
  <2>1. UNCHANGED <<version, writer, staged, share>>
    BY Zenon, <1>5 DEF InitializeAuthority
  <2> QED BY Zenon, <1>2, <1>3, <2>1 DEF AuthorityTypeOK, Locks, Admissions
<1> QED BY Zenon, <1>4, <1>5

(* UPDATE writes only when nobody else holds a lock.                       *)
LEMMA AdvanceKeeps ==
    ASSUME AuthorityInv, NEW t \in Transactions, AdvanceAuthority(t)
    PROVE  AuthorityInv'
<1> USE AuthorityAssumption DEF AuthorityInv
<1>1. PICK err \in {"none", "ErrAuthorityConflict"} : Finish(t, err)
  BY Zenon DEF AdvanceAuthority
<1>2. /\ tx' \in [Transactions -> TxRecord]
      /\ \A u \in Transactions : tx'[u].admitted = tx[u].admitted
      /\ \A u \in Transactions : tx'[u].pc = "query" => tx'[u] = tx[u]
  BY Zenon, <1>1, FinishKeeps
<1>3. Queries'
  BY Zenon, <1>2 DEF Queries
<1>4. CASE Seen(t) = tx[t].expected
  <2>1. Alone(t) /\ Seen(t) < MaxEpoch /\ UNCHANGED <<version, share>>
    BY Zenon, <1>4 DEF AdvanceAuthority, Queries
  <2>2. writer' = t /\ staged' = Seen(t) + 1
    BY Zenon, <1>4 DEF AdvanceAuthority
  <2>3. Seen(t) \in 0..MaxEpoch /\ version <= Seen(t)
    BY DEF Seen, AuthorityTypeOK, Locks
  <2>4. AuthorityTypeOK'
    BY <1>2, <2>1, <2>2, <2>3 DEF AuthorityTypeOK
  <2>5. Locks'
    BY <2>1, <2>2, <2>3 DEF Locks, Alone, AuthorityTypeOK
  <2>6. ASSUME NEW u \in Transactions, tx'[u].admitted # 0
        PROVE  /\ u \in share'
               /\ version' = tx'[u].admitted \/ (writer' = u /\ tx'[u].admitted <= staged')
    <3>1. /\ u \in share /\ tx'[u].admitted = tx[u].admitted
          /\ version = tx[u].admitted \/ (writer = u /\ tx[u].admitted <= staged)
      BY Zenon, <1>2, <2>6 DEF Admissions
    <3>2. u = t
      BY Zenon, <2>1, <3>1 DEF Alone
    <3>3. tx[u].admitted <= Seen(t)
      BY Zenon, <2>3, <3>1, <3>2 DEF Seen, AuthorityTypeOK
    <3>4. tx[u].admitted \in 0..MaxEpoch
      BY Zenon DEF AuthorityTypeOK, TxRecord
    <3> QED BY <2>1, <2>2, <2>3, <3>1, <3>2, <3>3, <3>4
  <2>7. Admissions'
    BY Zenon, <2>6 DEF Admissions
  <2> QED BY Zenon, <1>3, <2>4, <2>5, <2>7
<1>5. CASE Seen(t) # tx[t].expected
  <2>1. UNCHANGED <<version, writer, staged, share>>
    BY Zenon, <1>5 DEF AdvanceAuthority
  <2> QED BY Zenon, <1>2, <1>3, <2>1 DEF AuthorityTypeOK, Locks, Admissions
<1> QED BY Zenon, <1>4, <1>5

(* FOR SHARE waits for the writer, and its lock outlives the answer.       *)
LEMMA RequireKeeps ==
    ASSUME AuthorityInv, NEW t \in Transactions, RequireAuthority(t)
    PROVE  AuthorityInv'
<1> USE AuthorityAssumption DEF AuthorityInv
<1>1. /\ share' = IF Seen(t) = 0 THEN share ELSE share \cup {t}
      /\ UNCHANGED <<version, writer, staged>>
      /\ Seen(t) # 0 => writer \in {None, t}
  BY Zenon DEF RequireAuthority
<1>2. Locks'
  BY Zenon, <1>1 DEF Locks, Seen, AuthorityTypeOK
<1>3. Seen(t) \in 0..MaxEpoch
  BY Zenon DEF Seen, AuthorityTypeOK
<1>4. share' \subseteq Transactions /\ share \subseteq share'
  BY Zenon, <1>1 DEF AuthorityTypeOK
<1>5. CASE Seen(t) = tx[t].expected
  <2> DEFINE next == [tx[t] EXCEPT !.pc = "open", !.admitted = Seen(t)]
  <2>1. tx[t] \in TxRecord /\ tx \in [Transactions -> TxRecord]
    BY Zenon DEF AuthorityTypeOK
  <2>2. next \in TxRecord /\ next.pc = "open" /\ next.admitted = Seen(t)
    BY Zenon, <1>3, <2>1 DEF TxRecord
  <2>3. tx' = [tx EXCEPT ![t] = next]
    BY Zenon, <1>5, <2>1 DEF RequireAuthority
  <2>4. AuthorityTypeOK'
    BY Zenon, <1>1, <1>4, <2>1, <2>2, <2>3 DEF AuthorityTypeOK
  <2>5. Queries'
    BY Zenon, <2>1, <2>2, <2>3 DEF Queries
  <2>6. Seen(t) # 0 => t \in share'
    BY Zenon, <1>1
  <2>7. Admissions'
    BY <1>1, <1>3, <1>4, <2>1, <2>2, <2>3, <2>6 DEF Admissions, Seen
  <2> QED BY Zenon, <1>2, <2>4, <2>5, <2>7
<1>6. CASE Seen(t) # tx[t].expected
  <2>1. Finish(t, "ErrAuthorityDenied")
    BY Zenon, <1>6 DEF RequireAuthority
  <2>2. /\ tx' \in [Transactions -> TxRecord]
        /\ \A u \in Transactions : tx'[u].admitted = tx[u].admitted
        /\ \A u \in Transactions : tx'[u].pc = "query" => tx'[u] = tx[u]
    BY Zenon, <2>1, FinishKeeps
  <2> QED BY Zenon, <1>1, <1>2, <1>4, <2>2 DEF AuthorityTypeOK, Queries, Admissions
<1> QED BY Zenon, <1>5, <1>6

LEMMA QueryFailsKeeps ==
    ASSUME AuthorityInv, NEW t \in Transactions, QueryFails(t)
    PROVE  AuthorityInv'
<1> USE DEF AuthorityInv
<1>1. Finish(t, "ErrAuthorityUnavailable") /\ UNCHANGED <<version, writer, staged, share>>
  BY Zenon DEF QueryFails
<1>2. /\ tx' \in [Transactions -> TxRecord]
      /\ \A u \in Transactions : tx'[u].admitted = tx[u].admitted
      /\ \A u \in Transactions : tx'[u].pc = "query" => tx'[u] = tx[u]
  BY Zenon, <1>1, FinishKeeps
<1> QED BY Zenon, <1>1, <1>2 DEF AuthorityTypeOK, Locks, Queries, Admissions

(* The end of a transaction that leaves the row at version'.  A row moved  *)
(* by its writer had no share lock of anybody else.                        *)
LEMMA ReleaseKeeps ==
    ASSUME AuthorityInv, NEW t \in Transactions, Release(t),
           version' = version \/ version' = Seen(t)
    PROVE  AuthorityInv'
<1> USE AuthorityAssumption DEF AuthorityInv, Release
<1>1. version' \in 0..MaxEpoch /\ version <= version'
  BY DEF Seen, AuthorityTypeOK, Locks
<1>2. version' = version \/ writer = t
  BY Zenon DEF Seen
<1>3. tx' \in [Transactions -> TxRecord]
  BY DEF AuthorityTypeOK, TxRecord, Fresh
<1>4. AuthorityTypeOK'
  BY <1>1, <1>3 DEF AuthorityTypeOK
<1>5. Locks'
  BY Zenon, <1>1, <1>2 DEF Locks, AuthorityTypeOK
<1>6. Queries'
  BY Zenon DEF Queries, Fresh, AuthorityTypeOK
<1>7. ASSUME NEW u \in Transactions, tx'[u].admitted # 0
      PROVE  /\ u \in share'
             /\ version' = tx'[u].admitted \/ (writer' = u /\ tx'[u].admitted <= staged')
  <2>1. u # t /\ tx'[u] = tx[u]
    BY Zenon, <1>7 DEF Fresh, AuthorityTypeOK
  <2>2. u \in share /\ (version = tx[u].admitted \/ (writer = u /\ tx[u].admitted <= staged))
    BY Zenon, <1>7, <2>1 DEF Admissions
  <2>3. writer # t
    BY Zenon, <2>1, <2>2 DEF Locks
  <2> QED BY Zenon, <1>2, <2>1, <2>2, <2>3
<1>8. Admissions'
  BY Zenon, <1>7 DEF Admissions
<1> QED BY Zenon, <1>4, <1>5, <1>6, <1>8

LEMMA AuthorityStep == AuthorityInv /\ [AuthorityNext]_authorityVars => AuthorityInv'
<1> SUFFICES ASSUME AuthorityInv, [AuthorityNext]_authorityVars PROVE AuthorityInv'
  BY Zenon
<1>1. CASE UNCHANGED authorityVars
  BY Zenon, <1>1 DEF AuthorityInv, authorityVars, AuthorityTypeOK, Locks, Queries, Admissions
<1>2. ASSUME NEW t \in Transactions, Begin(t) PROVE AuthorityInv'
  BY Zenon, <1>2, BeginKeeps
<1>3. ASSUME NEW t \in Transactions, NEW valid \in BOOLEAN,
             NEW name \in {"initialize", "advance", "require"},
             NEW expected \in 0..MaxEpoch, Call(t, name, expected, valid)
      PROVE  AuthorityInv'
  BY Zenon, <1>3, CallKeeps
<1>4. ASSUME NEW t \in Transactions, Query(t) PROVE AuthorityInv'
  BY Zenon, <1>4, InitializeKeeps, AdvanceKeeps, RequireKeeps, QueryFailsKeeps DEF Query
<1>5. ASSUME NEW t \in Transactions, Commit(t) PROVE AuthorityInv'
  BY Zenon, <1>5, ReleaseKeeps DEF Commit
<1>6. ASSUME NEW t \in Transactions, Abort(t) PROVE AuthorityInv'
  BY Zenon, <1>6, ReleaseKeeps DEF Abort
<1> QED BY Zenon, <1>1, <1>2, <1>3, <1>4, <1>5, <1>6 DEF AuthorityNext

THEOREM AuthorityInvariant == AuthoritySpec => []AuthorityInv
BY AuthorityInitial, AuthorityStep, PTL DEF AuthoritySpec

-----------------------------------------------------------------------------

(* Neither the committed epoch nor an uncommitted one leaves the uint64    *)
(* range, however often the scope is advanced: the refusal of the largest  *)
(* epoch comes before the query that would add one.                        *)
THEOREM EpochsTyped == AuthoritySpec => []AuthorityTypeOK
BY AuthorityInvariant, PTL DEF AuthorityInv

(* RequireAuthority's admission holds until its transaction ends: nobody   *)
(* else commits another epoch under the share lock.                        *)
THEOREM Admitted == AuthoritySpec => []AdmittedEpochIsCurrent
<1>1. AuthorityInv => AdmittedEpochIsCurrent
  BY Zenon DEF AuthorityInv, Admissions, AdmittedEpochIsCurrent
<1> QED BY AuthorityInvariant, <1>1, PTL

(* InitializeAuthority and AdvanceAuthority only ever move a committed     *)
(* epoch forward, whoever aborts and whoever races.                        *)
THEOREM Forward == AuthoritySpec => EpochsNeverGoBack
<1>1. AuthorityInv /\ [AuthorityNext]_authorityVars => [version' \in version..MaxEpoch]_authorityVars
  <2> SUFFICES ASSUME AuthorityInv, AuthorityNext PROVE version' \in version..MaxEpoch
    BY Zenon
  <2>1. version \in 0..MaxEpoch
    BY Zenon DEF AuthorityInv, AuthorityTypeOK
  <2>2. CASE version' = version
    BY <2>1, <2>2, AuthorityAssumption
  <2>3. CASE version' # version
    <3>1. \A t \in Transactions : ~Begin(t) /\ ~Query(t) /\ ~Abort(t)
      BY Zenon, <2>3 DEF Begin, Query, InitializeAuthority, AdvanceAuthority, RequireAuthority, QueryFails, Abort
    <3>2. \A t \in Transactions : \A name, expected, valid : ~Call(t, name, expected, valid)
      BY <2>3 DEF Call
    <3>3. PICK t \in Transactions : Commit(t)
      BY Zenon, <3>1, <3>2 DEF AuthorityNext
    <3>4. version' = Seen(t)
      BY Zenon, <3>3 DEF Commit
    <3> QED BY <2>1, <3>4, AuthorityAssumption DEF Seen, AuthorityInv, AuthorityTypeOK, Locks
  <2> QED BY Zenon, <2>2, <2>3
<1> QED BY AuthorityInvariant, <1>1, PTL DEF AuthoritySpec, EpochsNeverGoBack

(* What a transaction was told of its last call is staged and its own.     *)
Stages ==
    \A t \in Transactions : tx[t].pc = "open" =>
        /\ tx[t].call = "advance" => writer = t /\ staged = tx[t].expected + 1
        /\ tx[t].call = "initialize" => writer = t /\ staged = 1

(* What Finish leaves to the transaction and to the others.                *)
LEMMA FinishParts ==
    ASSUME AuthorityTypeOK, NEW t \in Transactions, NEW err, Finish(t, err)
    PROVE  /\ tx'[t].call = tx[t].call /\ tx'[t].expected = tx[t].expected
           /\ tx'[t].pc = "open" => err = "none"
           /\ \A u \in Transactions : u # t => tx'[u] = tx[u]
<1> DEFINE next == [tx[t] EXCEPT !.pc = IF err = "none" THEN "open" ELSE "failed", !.err = err]
<1>1. tx[t] \in TxRecord /\ tx \in [Transactions -> TxRecord]
  BY Zenon DEF AuthorityTypeOK
<1>2. /\ next.call = tx[t].call /\ next.expected = tx[t].expected
      /\ next.pc = IF err = "none" THEN "open" ELSE "failed"
  BY Zenon, <1>1 DEF TxRecord
<1>3. tx' = [tx EXCEPT ![t] = next]
  BY Zenon, <1>1 DEF Finish
<1> HIDE DEF next
<1> QED BY Zenon, <1>1, <1>2, <1>3

(* Nobody but its owner writes or releases a staged row.                   *)
LEMMA RowIsKept ==
    ASSUME AuthorityInv, NEW t \in Transactions, Query(t), NEW u \in Transactions,
           u # t, writer = u
    PROVE  writer' = writer /\ staged' = staged
<1>1. u # None /\ version \in Nat /\ staged \in Nat
  BY AuthorityAssumption DEF AuthorityInv, AuthorityTypeOK
<1>2. Seen(t) = version /\ writer \notin {None, t}
  BY Zenon, <1>1 DEF Seen
<1>3. CASE InitializeAuthority(t)
  BY Zenon, <1>2, <1>3 DEF InitializeAuthority
<1>4. CASE AdvanceAuthority(t)
  BY Zenon, <1>2, <1>4 DEF AdvanceAuthority, Alone
<1>5. CASE RequireAuthority(t) \/ QueryFails(t)
  BY Zenon, <1>5 DEF RequireAuthority, QueryFails
<1> QED BY Zenon, <1>3, <1>4, <1>5 DEF Query

LEMMA QueryStages ==
    ASSUME AuthorityInv, Stages, NEW t \in Transactions, Query(t)
    PROVE  Stages'
<1>1. AuthorityTypeOK
  BY Zenon DEF AuthorityInv
<1>2. tx[t].pc = "query" /\ tx[t] \in TxRecord /\ tx \in [Transactions -> TxRecord]
  BY Zenon, <1>1 DEF Query, InitializeAuthority, AdvanceAuthority, RequireAuthority, QueryFails,
                     AuthorityTypeOK
<1>3. /\ \A u \in Transactions : u # t => tx'[u] = tx[u]
      /\ tx'[t].pc = "open" =>
           /\ tx'[t].call = "advance" => writer' = t /\ staged' = tx'[t].expected + 1
           /\ tx'[t].call = "initialize" => writer' = t /\ staged' = 1
  <2>1. CASE InitializeAuthority(t)
    <3> DEFINE err == IF Seen(t) = 0 THEN "none" ELSE "ErrAuthorityConflict"
    <3>1. Finish(t, err) /\ (err = "none" => writer' = t /\ staged' = 1)
      BY Zenon, <2>1 DEF InitializeAuthority
    <3> HIDE DEF err
    <3>2. tx[t].call = "initialize"
      BY Zenon, <2>1 DEF InitializeAuthority
    <3>3. /\ tx'[t].call = tx[t].call /\ (tx'[t].pc = "open" => err = "none")
          /\ \A u \in Transactions : u # t => tx'[u] = tx[u]
      BY Zenon, <1>1, <3>1, FinishParts
    <3> QED BY Zenon, <3>1, <3>2, <3>3
  <2>2. CASE AdvanceAuthority(t)
    <3> DEFINE err == IF Seen(t) = tx[t].expected THEN "none" ELSE "ErrAuthorityConflict"
    <3>1. Finish(t, err) /\ (err = "none" => writer' = t /\ staged' = tx[t].expected + 1)
      BY Zenon, <2>2 DEF AdvanceAuthority
    <3> HIDE DEF err
    <3>2. tx[t].call = "advance"
      BY Zenon, <2>2 DEF AdvanceAuthority
    <3>3. /\ tx'[t].call = tx[t].call /\ tx'[t].expected = tx[t].expected
          /\ (tx'[t].pc = "open" => err = "none")
          /\ \A u \in Transactions : u # t => tx'[u] = tx[u]
      BY Zenon, <1>1, <3>1, FinishParts
    <3> QED BY Zenon, <3>1, <3>2, <3>3
  <2>3. CASE RequireAuthority(t)
    <3>1. tx[t].call = "require"
      BY Zenon, <2>3 DEF RequireAuthority
    <3>2. tx'[t].call = tx[t].call /\ \A u \in Transactions : u # t => tx'[u] = tx[u]
      <4>1. CASE Seen(t) = tx[t].expected
        <5> DEFINE next == [tx[t] EXCEPT !.pc = "open", !.admitted = Seen(t)]
        <5>1. next.call = tx[t].call
          BY Zenon, <1>2 DEF TxRecord
        <5>2. tx' = [tx EXCEPT ![t] = next]
          BY Zenon, <1>2, <2>3, <4>1 DEF RequireAuthority
        <5> HIDE DEF next
        <5> QED BY Zenon, <1>2, <5>1, <5>2
      <4>2. CASE Seen(t) # tx[t].expected
        BY Zenon, <1>1, <2>3, <4>2, FinishParts DEF RequireAuthority
      <4> QED BY Zenon, <4>1, <4>2
    <3> QED BY Zenon, <3>1, <3>2
  <2>4. CASE QueryFails(t)
    <3>1. Finish(t, "ErrAuthorityUnavailable")
      BY Zenon, <2>4 DEF QueryFails
    <3>2. /\ tx'[t].pc = "open" => "ErrAuthorityUnavailable" = "none"
          /\ \A u \in Transactions : u # t => tx'[u] = tx[u]
      BY Zenon, <1>1, <3>1, FinishParts
    <3> QED BY Zenon, <3>2
  <2> QED BY Zenon, <2>1, <2>2, <2>3, <2>4 DEF Query
<1>4. ASSUME NEW u \in Transactions, u # t, tx'[u].pc = "open"
      PROVE  /\ tx'[u].call = "advance" => writer' = u /\ staged' = tx'[u].expected + 1
             /\ tx'[u].call = "initialize" => writer' = u /\ staged' = 1
  <2>1. tx'[u] = tx[u]
    BY Zenon, <1>3, <1>4
  <2>2. /\ tx[u].call = "advance" => writer = u /\ staged = tx[u].expected + 1
        /\ tx[u].call = "initialize" => writer = u /\ staged = 1
    BY Zenon, <1>4, <2>1 DEF Stages
  <2>3. writer = u => writer' = writer /\ staged' = staged
    BY Zenon, <1>4, RowIsKept
  <2> QED BY Zenon, <2>1, <2>2, <2>3
<1> QED BY Zenon, <1>3, <1>4 DEF Stages

LEMMA StagesStep == AuthorityInv /\ Stages /\ [AuthorityNext]_authorityVars => Stages'
<1> SUFFICES ASSUME AuthorityInv, Stages, [AuthorityNext]_authorityVars PROVE Stages'
  BY Zenon
<1>0. tx \in [Transactions -> TxRecord]
  BY Zenon DEF AuthorityInv, AuthorityTypeOK
<1>1. CASE UNCHANGED authorityVars
  BY Zenon, <1>1 DEF authorityVars, Stages
<1>2. ASSUME NEW t \in Transactions, Begin(t) PROVE Stages'
  <2>1. tx'[t].call = "none" /\ \A u \in Transactions : u # t => tx'[u] = tx[u]
    BY Zenon, <1>0, <1>2 DEF Begin, Fresh
  <2> QED BY Zenon, <1>2, <2>1 DEF Begin, Stages
<1>3. ASSUME NEW t \in Transactions, NEW valid \in BOOLEAN,
             NEW name \in {"initialize", "advance", "require"},
             NEW expected \in 0..MaxEpoch, Call(t, name, expected, valid)
      PROVE  Stages'
  <2> DEFINE err == CallError(name, expected, valid)
             next == [tx[t] EXCEPT !.pc = IF err = "none" THEN "query" ELSE "failed",
                                   !.call = name, !.expected = expected, !.err = err]
  <2>1. next.pc # "open"
    BY Zenon, <1>0 DEF TxRecord
  <2>2. tx' = [tx EXCEPT ![t] = next]
    BY Zenon, <1>0, <1>3 DEF Call
  <2> HIDE DEF next
  <2>3. tx'[t].pc # "open" /\ \A u \in Transactions : u # t => tx'[u] = tx[u]
    BY Zenon, <1>0, <2>1, <2>2
  <2> QED BY Zenon, <1>3, <2>3 DEF Call, Stages
<1>4. ASSUME NEW t \in Transactions, Query(t) PROVE Stages'
  BY Zenon, <1>4, QueryStages
<1>5. ASSUME NEW t \in Transactions, Release(t) PROVE Stages'
  <2>1. tx'[t].pc = "closed" /\ \A u \in Transactions : u # t => tx'[u] = tx[u]
    BY Zenon, <1>0, <1>5 DEF Release, Fresh
  <2>2. writer # t => writer' = writer /\ staged' = staged
    BY Zenon, <1>5 DEF Release
  <2> QED BY Zenon, <2>1, <2>2 DEF Stages
<1> QED BY Zenon, <1>1, <1>2, <1>3, <1>4, <1>5 DEF AuthorityNext, Commit, Abort

(* What AdvanceAuthority and InitializeAuthority reported of a transaction *)
(* that commits is what becomes the committed epoch: of two that race from *)
(* one epoch never both commit.                                            *)
THEOREM NoneLost == AuthoritySpec => AdvancesAreNeverLost
<1> DEFINE Kept(t) ==
        /\ tx[t].call = "advance" => version < version' /\ version' = tx[t].expected + 1
        /\ tx[t].call = "initialize" => version = 0 /\ version' = 1
<1>1. AuthorityInit => Stages
  BY DEF AuthorityInit, Stages, Fresh
<1>2. AuthorityInv /\ Stages => (\A t \in Transactions : Commit(t) => Kept(t))
  <2> SUFFICES ASSUME AuthorityInv, Stages, NEW t \in Transactions, Commit(t) PROVE Kept(t)
    BY Zenon
  <2>1. tx[t].pc = "open" /\ version' = Seen(t)
    BY Zenon DEF Commit
  <2>2. version \in Nat /\ staged \in Nat /\ t # None
    BY AuthorityAssumption DEF AuthorityInv, AuthorityTypeOK
  <2>3. writer = t => version' = staged /\ staged > version
    BY Zenon, <2>1, <2>2 DEF Seen, AuthorityInv, Locks
  <2>4. CASE tx[t].call = "advance"
    <3>1. writer = t /\ staged = tx[t].expected + 1
      BY Zenon, <2>1, <2>4 DEF Stages
    <3> QED BY <2>2, <2>3, <2>4, <3>1
  <2>5. CASE tx[t].call = "initialize"
    <3>1. writer = t /\ staged = 1
      BY Zenon, <2>1, <2>5 DEF Stages
    <3> QED BY <2>2, <2>3, <2>5, <3>1
  <2>6. CASE tx[t].call \notin {"advance", "initialize"}
    BY Zenon, <2>6
  <2> QED BY Zenon, <2>4, <2>5, <2>6
<1> QED
  BY AuthorityInvariant, <1>1, <1>2, StagesStep, PTL DEF AuthoritySpec, AdvancesAreNeverLost

=============================================================================
