------------------------------ MODULE Authority ------------------------------
(***************************************************************************)
(* Lifecycle epochs of one scope: postgres/authority.go, inside the        *)
(* transactions that borrow it.  The owner of a transaction aborts it      *)
(* after any error, as the code demands.                                   *)
(*                                                                         *)
(* External: PostgreSQL's row locks under READ COMMITTED.  A staged row is *)
(* seen by its own transaction only; FOR SHARE, and an UPDATE whose WHERE  *)
(* clause holds, wait for locks of others and then see the committed row;  *)
(* INSERT waits for another uncommitted INSERT only.                       *)
(***************************************************************************)
EXTENDS Naturals

CONSTANTS
    Transactions,
    None,
    MaxEpoch      \* math.MaxUint64

ASSUME AuthorityAssumption ==
    /\ MaxEpoch \in Nat \ {0}
    /\ None \notin Transactions

Epoch == 1..MaxEpoch

VARIABLES
    version,  \* the committed epoch, 0 when the scope has no row
    writer,   \* the transaction with an uncommitted row, or None
    staged,   \* its uncommitted epoch
    share,    \* transactions with a share lock
    tx        \* per transaction: the call under way and what it was told

authorityVars == <<version, writer, staged, share, tx>>

(* admitted: the epoch of the last RequireAuthority that passed, 0 if none. *)
TxRecord ==
    [pc: {"closed", "open", "query", "failed"},
     call: {"none", "initialize", "advance", "require"},
     expected: 0..MaxEpoch, admitted: 0..MaxEpoch,
     err: {"none", "ErrInvalidAuthority", "ErrAuthorityOverflow", "ErrAuthorityConflict",
           "ErrAuthorityDenied", "ErrAuthorityUnavailable"}]

Fresh(pc) == [pc |-> pc, call |-> "none", expected |-> 0, admitted |-> 0, err |-> "none"]

AuthorityInit ==
    /\ version = 0
    /\ writer = None
    /\ staged = 0
    /\ share = {}
    /\ tx = [t \in Transactions |-> Fresh("closed")]

Begin(t) ==
    /\ tx[t].pc = "closed"
    /\ tx' = [tx EXCEPT ![t] = Fresh("open")]
    /\ UNCHANGED <<version, writer, staged, share>>

-----------------------------------------------------------------------------
(* Calls                                                                   *)

(* The checks that precede the query; valid: the scope, the duration, the  *)
(* context and the handle are.                                             *)
CallError(call, expected, valid) ==
    IF call = "advance" /\ expected = MaxEpoch THEN "ErrAuthorityOverflow"
    ELSE IF ~valid \/ (call # "initialize" /\ expected = 0) THEN "ErrInvalidAuthority"
    ELSE "none"

Call(t, call, expected, valid) ==
    /\ tx[t].pc = "open"
    /\ LET err == CallError(call, expected, valid) IN
       tx' = [tx EXCEPT ![t].pc = IF err = "none" THEN "query" ELSE "failed",
                        ![t].call = call, ![t].expected = expected, ![t].err = err]
    /\ UNCHANGED <<version, writer, staged, share>>

(* What the transaction sees of the row, 0 for no row.                     *)
Seen(t) == IF writer = t THEN staged ELSE version

Finish(t, err) ==
    tx' = [tx EXCEPT ![t].pc = IF err = "none" THEN "open" ELSE "failed", ![t].err = err]

(* Variant with a mistake: an existing row is overwritten.                 *)
InitializeUpsert(t) ==
    /\ tx[t].pc = "query" /\ tx[t].call = "initialize"
    /\ writer \in {None, t} /\ share \subseteq {t}
    /\ writer' = t
    /\ staged' = 1
    /\ Finish(t, "none")
    /\ UNCHANGED <<version, share>>

(* authorityInsert: ON CONFLICT DO NOTHING.                                *)
InitializeAuthority(t) ==
    /\ tx[t].pc = "query" /\ tx[t].call = "initialize"
    /\ version = 0 => writer \in {None, t}
    /\ IF Seen(t) = 0
       THEN writer' = t /\ staged' = 1 /\ Finish(t, "none")
       ELSE UNCHANGED <<writer, staged>> /\ Finish(t, "ErrAuthorityConflict")
    /\ UNCHANGED <<version, share>>

(* No other transaction holds a lock that UPDATE would wait for.           *)
Alone(t) == writer \in {None, t} /\ share \subseteq {t}

(* Variant with a mistake: the row is written as it was read, unlocked.    *)
AdvanceUnlocked(t) ==
    /\ tx[t].pc = "query" /\ tx[t].call = "advance"
    /\ IF Seen(t) = tx[t].expected
       THEN writer' = t /\ staged' = Seen(t) + 1 /\ Finish(t, "none")
       ELSE UNCHANGED <<writer, staged>> /\ Finish(t, "ErrAuthorityConflict")
    /\ UNCHANGED <<version, share>>

(* authorityAdvance: version + 1 where the version is the expected one.    *)
AdvanceAuthority(t) ==
    /\ tx[t].pc = "query" /\ tx[t].call = "advance"
    /\ Seen(t) = tx[t].expected => Alone(t)
    /\ IF Seen(t) = tx[t].expected
       THEN writer' = t /\ staged' = Seen(t) + 1 /\ Finish(t, "none")
       ELSE UNCHANGED <<writer, staged>> /\ Finish(t, "ErrAuthorityConflict")
    /\ UNCHANGED <<version, share>>

(* Variant with a mistake: authoritySelect without FOR SHARE.              *)
RequireUnlocked(t) ==
    /\ tx[t].pc = "query" /\ tx[t].call = "require"
    /\ IF Seen(t) = tx[t].expected
       THEN tx' = [tx EXCEPT ![t].pc = "open", ![t].admitted = Seen(t)]
       ELSE Finish(t, "ErrAuthorityDenied")
    /\ UNCHANGED <<version, writer, staged, share>>

(* authoritySelect FOR SHARE, then the comparison: the lock is kept also   *)
(* when the epochs differ.                                                 *)
RequireAuthority(t) ==
    /\ tx[t].pc = "query" /\ tx[t].call = "require"
    /\ Seen(t) # 0 => writer \in {None, t}
    /\ share' = IF Seen(t) = 0 THEN share ELSE share \cup {t}
    /\ IF Seen(t) = tx[t].expected
       THEN tx' = [tx EXCEPT ![t].pc = "open", ![t].admitted = Seen(t)]
       ELSE Finish(t, "ErrAuthorityDenied")
    /\ UNCHANGED <<version, writer, staged>>

(* The bounded context ends, the connection breaks, PostgreSQL breaks a    *)
(* deadlock, or the row does not decode.  If the statement ran all the     *)
(* same, the abort that must follow undoes it.                             *)
QueryFails(t) ==
    /\ tx[t].pc = "query"
    /\ Finish(t, "ErrAuthorityUnavailable")
    /\ UNCHANGED <<version, writer, staged, share>>

-----------------------------------------------------------------------------
(* The owner                                                               *)

Release(t) ==
    /\ writer' = IF writer = t THEN None ELSE writer
    /\ staged' = IF writer = t THEN 0 ELSE staged
    /\ share' = share \ {t}
    /\ tx' = [tx EXCEPT ![t] = Fresh("closed")]

(* The protected effect of an admitted transaction is part of its commit.  *)
Commit(t) ==
    /\ tx[t].pc = "open"
    /\ version' = Seen(t)
    /\ Release(t)

Abort(t) ==
    /\ tx[t].pc \in {"open", "failed"}
    /\ Release(t)
    /\ UNCHANGED version

Query(t) == InitializeAuthority(t) \/ AdvanceAuthority(t) \/ RequireAuthority(t) \/ QueryFails(t)

AuthorityNext == \E t \in Transactions :
    \/ Begin(t)
    \/ \E call \in {"initialize", "advance", "require"}, expected \in 0..MaxEpoch,
          valid \in BOOLEAN : Call(t, call, expected, valid)
    \/ Query(t)
    \/ Commit(t)
    \/ Abort(t)

AuthoritySpec == AuthorityInit /\ [][AuthorityNext]_authorityVars

-----------------------------------------------------------------------------
(* Properties                                                              *)

(* Types of the row, its locks and the transactions.                       *)
AuthorityTypeOK ==
    /\ version \in 0..MaxEpoch
    /\ writer \in Transactions \cup {None}
    /\ staged \in 0..MaxEpoch
    /\ share \subseteq Transactions
    /\ tx \in [Transactions -> TxRecord]

(* An admission lasts as long as its transaction: from RequireAuthority to *)
(* the commit of the protected effect nobody else advances the epoch.      *)
AdmittedEpochIsCurrent ==
    \A t \in Transactions :
        tx[t].admitted # 0 =>
            version = tx[t].admitted \/ (writer = t /\ tx[t].admitted <= staged)

(* Epochs are never reset, taken back or carried past the largest uint64,  *)
(* whatever transactions initialize, advance, abort and race.              *)
EpochsNeverGoBack == [][version' \in version..MaxEpoch]_authorityVars

(* What a transaction was told of its last call is what its commit makes   *)
(* true: an advance moves the committed epoch to the successor it staged,  *)
(* an initialization creates the row, so of two transactions that race     *)
(* from one epoch never both commit.                                       *)
AdvancesAreNeverLost ==
    [][\A t \in Transactions : Commit(t) =>
          /\ tx[t].call = "advance" => version < version' /\ version' = tx[t].expected + 1
          /\ tx[t].call = "initialize" => version = 0 /\ version' = 1]_authorityVars

=============================================================================
