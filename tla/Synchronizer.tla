----------------------------- MODULE Synchronizer -----------------------------
(***************************************************************************)
(* Keeping an engine converged with its repository: policy/synchronizer.go.*)
(* Pollers run Synchronizer.Run under a supervisor, observers call Observe *)
(* with revision hints, deciders call Synchronizer.Decide.  The engine is  *)
(* seen as DecisionPoint promises it: a revision that is read, and         *)
(* replaced, in one step.  The repository is external.                     *)
(***************************************************************************)
EXTENDS Integers

CONSTANTS
    Pollers, Observers, Deciders,
    NoProcess,      \* reloadMu is free
    MaxStaleness,   \* WithMaxStaleness
    MaxRevision,    \* bound on the revisions the repository takes
    MaxTime,        \* bound on the instants the clock takes
    Faults          \* which of FaultKinds the environment may show

(* "outage": Load fails.  "badManifest": what is stored does not validate, *)
(* compile or fit the engine.  "rollback": the repository is restored to   *)
(* an older revision.  "otherWriter": somebody else calls ReplaceSnapshot. *)
(* "clockBack": the clock is set back.  "aheadHint": a hint names a        *)
(* revision that was never stored.                                         *)
FaultKinds == {"outage", "badManifest", "rollback", "otherWriter", "clockBack", "aheadHint"}

ASSUME SynchronizerAssumption ==
    /\ Pollers \cap Observers = {}
    /\ NoProcess \notin Pollers \cup Observers
    /\ MaxStaleness \in Nat \ {0}
    /\ MaxRevision \in Nat \ {0}
    /\ MaxTime \in Nat \ {0}
    /\ Faults \subseteq FaultKinds

Processes == Pollers \cup Observers

VARIABLES
    stored,        \* external: the manifest of the repository
    up,            \* external: Load answers
    engineRev,     \* engine.Revision()
    verifiedAt,    \* when the repository was last verified, 0 for the zero time
    clock,         \* what synchronizer.clock() returns
    reloadMu,      \* the process inside Reload
    proc,          \* per process: where it is in Run, Observe and Reload
    decider,       \* per decider: where it is in Decide
    supersededAt,  \* history: when a revision stopped being the stored one
    verified       \* history: the revision behind verifiedAt, and how long its
                   \* reload took from the reading of the repository to markVerified

syncVars == <<engineRev, verifiedAt, reloadMu, verified>>
repoVars == <<stored, up, supersededAt>>
vars == <<syncVars, repoVars, clock, proc, decider>>

Revision == 1..MaxRevision
Manifest == [revision: Revision, kind: {"good", "invalid", "uncompilable", "oversize"}]

Good(revision) == [revision |-> revision, kind |-> "good"]

ProcessRecord ==
    [pc: {"stopped", "ticking", "idle", "lock", "load", "compare", "replace", "mark", "confirm"},
     ctxDone: BOOLEAN, hint: 0..MaxRevision, manifest: Manifest, loadedAt: Nat,
     current: Revision,
     err: {"none", "ContextError", "RepositoryError", "ErrInvalidManifest", "ErrStaleManifest",
           "CompileError", "ErrRevisionConflict", "ErrPolicyLimitExceeded"}]

Basis == [revision: 0..MaxRevision, lag: Int]

DeciderRecord ==
    [pc: {"idle", "clock", "admitted", "done"}, seen: Nat, now: Nat, revision: 0..MaxRevision,
     err: {"none", "ErrPolicyStale"}, basis: Basis]

Idle(pc) == [pc |-> pc, ctxDone |-> FALSE, hint |-> 0, manifest |-> Good(1), loadedAt |-> 0,
             current |-> 1, err |-> "none"]

NoBasis == [revision |-> 0, lag |-> 0]

IdleDecider == [pc |-> "idle", seen |-> 0, now |-> 0, revision |-> 0, err |-> "none",
                basis |-> NoBasis]

Init ==
    /\ stored = Good(1)
    /\ up = TRUE
    /\ engineRev = 1
    /\ verifiedAt = 0
    /\ clock = 1
    /\ reloadMu = NoProcess
    /\ proc = [p \in Processes |-> Idle(IF p \in Pollers THEN "stopped" ELSE "idle")]
    /\ decider = [d \in Deciders |-> IdleDecider]
    /\ supersededAt = [r \in Revision |-> 0]
    /\ verified = NoBasis

-----------------------------------------------------------------------------
(* Reload                                                                  *)

Goto(p, pc) == proc' = [proc EXCEPT ![p].pc = pc]

(* Reload returns err and unlocks.  Run goes back to its ticker or returns *)
(* the error; Observe returns the error or checks what is active now.      *)
Returned(p, err) ==
    LET pc == IF p \in Pollers THEN IF err = "none" THEN "ticking" ELSE "stopped"
                               ELSE IF err = "none" THEN "confirm" ELSE "idle"
    IN  [Idle(pc) EXCEPT !.err = err, !.hint = proc[p].hint, !.ctxDone = proc[p].ctxDone]

Return(p, err) ==
    /\ reloadMu' = NoProcess
    /\ proc' = [proc EXCEPT ![p] = Returned(p, err)]

(* Variant with a mistake: Reload does not take reloadMu.                  *)
LockReloadShared(p) ==
    /\ proc[p].pc = "lock"
    /\ Goto(p, "load")
    /\ UNCHANGED <<syncVars, repoVars, clock, decider>>

(* reloadMu.Lock() and the check of the context under the lock.            *)
LockReload(p) ==
    /\ proc[p].pc = "lock"
    /\ reloadMu = NoProcess
    /\ IF proc[p].ctxDone THEN Return(p, "ContextError")
                          ELSE Goto(p, "load") /\ reloadMu' = p
    /\ UNCHANGED <<engineRev, verifiedAt, verified, repoVars, clock, decider>>

(* Variant with a mistake: a failed Load counts as a verification.         *)
LoadFailsFresh(p) ==
    /\ proc[p].pc = "load"
    /\ ~up
    /\ verifiedAt' = clock
    /\ Return(p, "RepositoryError")
    /\ UNCHANGED <<engineRev, verified, repoVars, clock, decider>>

(* repository.Load, which fails in an outage or when ctx ends.             *)
LoadFails(p) ==
    /\ proc[p].pc = "load"
    /\ ~up \/ proc[p].ctxDone
    /\ Return(p, IF up THEN "ContextError" ELSE "RepositoryError")
    /\ UNCHANGED <<engineRev, verifiedAt, verified, repoVars, clock, decider>>

LoadManifest(p) ==
    /\ proc[p].pc = "load"
    /\ up
    /\ proc' = [proc EXCEPT ![p].pc = "compare", ![p].manifest = stored, ![p].loadedAt = clock]
    /\ UNCHANGED <<syncVars, repoVars, clock, decider>>

(* Variant with a mistake: an early return keeps the lock.                 *)
RefuseManifestLocked(p) ==
    /\ proc[p].pc = "compare"
    /\ proc[p].manifest.kind = "invalid"
    /\ proc' = [proc EXCEPT ![p] = Returned(p, "ErrInvalidManifest")]
    /\ UNCHANGED <<syncVars, repoVars, clock, decider>>

(* Validate, then the comparison with engine.Revision().                   *)
RefuseManifest(p) ==
    LET manifest == proc[p].manifest IN
    /\ proc[p].pc = "compare"
    /\ \/ manifest.kind = "invalid" /\ Return(p, "ErrInvalidManifest")
       \/ /\ manifest.kind # "invalid" /\ manifest.revision < engineRev
          /\ Return(p, "ErrStaleManifest")
    /\ UNCHANGED <<engineRev, verifiedAt, verified, repoVars, clock, decider>>

(* Variant with a mistake: a newer manifest is verified but not installed. *)
AcceptManifestUninstalled(p) ==
    /\ proc[p].pc = "compare"
    /\ proc[p].manifest.kind # "invalid"
    /\ proc[p].manifest.revision >= engineRev
    /\ Goto(p, "mark")
    /\ UNCHANGED <<syncVars, repoVars, clock, decider>>

AcceptManifest(p) ==
    LET manifest == proc[p].manifest IN
    /\ proc[p].pc = "compare"
    /\ manifest.kind # "invalid"
    /\ manifest.revision >= engineRev
    /\ proc' = [proc EXCEPT ![p].current = engineRev,
                            ![p].pc = IF manifest.revision = engineRev THEN "mark" ELSE "replace"]
    /\ UNCHANGED <<syncVars, repoVars, clock, decider>>

(* Compile fails, or ReplaceSnapshot refuses the snapshot.                 *)
RefuseSnapshot(p) ==
    LET manifest == proc[p].manifest IN
    /\ proc[p].pc = "replace"
    /\ \/ manifest.kind = "uncompilable" /\ Return(p, "CompileError")
       \/ manifest.kind = "oversize" /\ Return(p, "ErrPolicyLimitExceeded")
       \/ /\ manifest.kind = "good" /\ engineRev # proc[p].current
          /\ Return(p, "ErrRevisionConflict")
    /\ UNCHANGED <<engineRev, verifiedAt, verified, repoVars, clock, decider>>

(* Variant with a mistake: the expected revision is not compared.          *)
InstallSnapshotOver(p) ==
    /\ proc[p].pc = "replace"
    /\ proc[p].manifest.kind = "good"
    /\ engineRev' = proc[p].manifest.revision
    /\ Goto(p, "mark")
    /\ UNCHANGED <<verifiedAt, verified, reloadMu, repoVars, clock, decider>>

InstallSnapshot(p) ==
    /\ proc[p].pc = "replace"
    /\ proc[p].manifest.kind = "good"
    /\ engineRev = proc[p].current
    /\ engineRev' = proc[p].manifest.revision
    /\ Goto(p, "mark")
    /\ UNCHANGED <<verifiedAt, verified, reloadMu, repoVars, clock, decider>>

(* markVerified, and the successful return of Reload.                      *)
MarkVerified(p) ==
    /\ proc[p].pc = "mark"
    /\ verifiedAt' = clock
    /\ verified' = [revision |-> proc[p].manifest.revision, lag |-> clock - proc[p].loadedAt]
    /\ Return(p, "none")
    /\ UNCHANGED <<engineRev, repoVars, clock, decider>>

ReloadStep(p) ==
    \/ LockReload(p) \/ LoadFails(p) \/ LoadManifest(p) \/ RefuseManifest(p)
    \/ AcceptManifest(p) \/ RefuseSnapshot(p) \/ InstallSnapshot(p) \/ MarkVerified(p)

-----------------------------------------------------------------------------
(* Run                                                                     *)

(* The supervisor calls Run, again after every error, with a new context.  *)
StartRun(p) ==
    /\ proc[p].pc = "stopped"
    /\ proc' = [proc EXCEPT ![p] = Idle("lock")]
    /\ UNCHANGED <<syncVars, repoVars, clock, decider>>

(* The ticker fires, also after the context ended: select chooses freely.  *)
Tick(p) ==
    /\ proc[p].pc = "ticking"
    /\ Goto(p, "lock")
    /\ UNCHANGED <<syncVars, repoVars, clock, decider>>

RunCanceled(p) ==
    /\ proc[p].pc = "ticking"
    /\ proc[p].ctxDone
    /\ proc' = [proc EXCEPT ![p].pc = "stopped", ![p].err = "ContextError"]
    /\ UNCHANGED <<syncVars, repoVars, clock, decider>>

CancelContext(p) ==
    /\ ~proc[p].ctxDone
    /\ proc[p].pc \notin {"stopped", "idle"}
    /\ proc' = [proc EXCEPT ![p].ctxDone = TRUE]
    /\ UNCHANGED <<syncVars, repoVars, clock, decider>>

-----------------------------------------------------------------------------
(* Observe                                                                 *)

(* A hint at or below the active revision returns at once; another one     *)
(* reloads.  An honest hint names a revision that was stored.              *)
ObserveHint(p) ==
    /\ proc[p].pc = "idle"
    /\ \E hint \in Revision :
         /\ "aheadHint" \in Faults \/ hint <= stored.revision
         /\ proc' = [proc EXCEPT ![p] =
              [Idle(IF hint <= engineRev THEN "idle" ELSE "lock") EXCEPT !.hint = hint]]
    /\ UNCHANGED <<syncVars, repoVars, clock, decider>>

(* Variant with a mistake: a successful reload is taken for the answer.    *)
ConfirmHintUnchecked(p) ==
    /\ proc[p].pc = "confirm"
    /\ Goto(p, "idle")
    /\ UNCHANGED <<syncVars, repoVars, clock, decider>>

(* After a successful reload: is the hinted revision active?               *)
ConfirmHint(p) ==
    /\ proc[p].pc = "confirm"
    /\ proc' = [proc EXCEPT ![p].pc = "idle",
                            ![p].err = IF engineRev < proc[p].hint THEN "ErrStaleManifest"
                                                                   ELSE "none"]
    /\ UNCHANGED <<syncVars, repoVars, clock, decider>>

-----------------------------------------------------------------------------
(* Decide                                                                  *)

(* LastVerified(), under verifiedMu.  basis is what was verified then.     *)
ReadVerified(d) ==
    /\ decider[d].pc = "idle"
    /\ decider' = [decider EXCEPT ![d] =
         [IdleDecider EXCEPT !.pc = "clock", !.seen = verifiedAt, !.basis = verified]]
    /\ UNCHANGED <<syncVars, repoVars, clock, proc>>

(* clock() and the comparison; a stale verification denies.                *)
CheckFreshness(d) ==
    LET seen == decider[d].seen
        stale == seen = 0 \/ clock < seen \/ clock - seen > MaxStaleness IN
    /\ decider[d].pc = "clock"
    /\ decider' = [decider EXCEPT ![d].now = clock,
                                  ![d].pc = IF stale THEN "done" ELSE "admitted",
                                  ![d].err = IF stale THEN "ErrPolicyStale" ELSE "none",
                                  ![d].revision = IF stale THEN engineRev ELSE 0]
    /\ UNCHANGED <<syncVars, repoVars, clock, proc>>

(* engine.Decide answers from the snapshot it loads.                       *)
EngineDecides(d) ==
    /\ decider[d].pc = "admitted"
    /\ decider' = [decider EXCEPT ![d].pc = "done", ![d].revision = engineRev]
    /\ UNCHANGED <<syncVars, repoVars, clock, proc>>

NextDecision(d) ==
    /\ decider[d].pc = "done"
    /\ decider' = [decider EXCEPT ![d] = IdleDecider]
    /\ UNCHANGED <<syncVars, repoVars, clock, proc>>

DecideStep(d) == ReadVerified(d) \/ CheckFreshness(d) \/ EngineDecides(d) \/ NextDecision(d)

-----------------------------------------------------------------------------
(* The environment                                                         *)

(* External: a manifest with a greater revision is stored.                 *)
PublishManifest ==
    /\ \E m \in Manifest :
         /\ m.revision > stored.revision
         /\ "badManifest" \in Faults \/ m.kind = "good"
         /\ stored' = m
    /\ supersededAt' = [supersededAt EXCEPT ![stored.revision] = clock, ![stored'.revision] = 0]
    /\ UNCHANGED <<up, syncVars, clock, proc, decider>>

(* External: the repository is restored from an older backup.              *)
RollBackRepository ==
    /\ "rollback" \in Faults
    /\ \E r \in Revision : r < stored.revision /\ stored' = Good(r)
    /\ supersededAt' = [supersededAt EXCEPT ![stored.revision] = clock, ![stored'.revision] = 0]
    /\ UNCHANGED <<up, syncVars, clock, proc, decider>>

(* External: the repository becomes unreachable, or reachable again.       *)
ToggleRepository ==
    /\ "outage" \in Faults
    /\ up' = ~up
    /\ UNCHANGED <<stored, supersededAt, syncVars, clock, proc, decider>>

(* Another user of the engine installs a newer snapshot.  Assumed of that  *)
(* user: after a rollback it does not install what was rolled back, which  *)
(* the next reload of the older manifest could not undo.                   *)
ReplaceElsewhere ==
    /\ "otherWriter" \in Faults
    /\ \E r \in Revision :
         /\ r > engineRev
         /\ "rollback" \in Faults => supersededAt[r] = 0
         /\ engineRev' = r
    /\ UNCHANGED <<verifiedAt, reloadMu, verified, repoVars, clock, proc, decider>>

SetClock ==
    /\ clock' \in 1..MaxTime
    /\ "clockBack" \in Faults \/ clock' > clock
    /\ UNCHANGED <<syncVars, repoVars, proc, decider>>

Environment ==
    PublishManifest \/ RollBackRepository \/ ToggleRepository \/ ReplaceElsewhere \/ SetClock

Next ==
    \/ \E p \in Processes : ReloadStep(p) \/ CancelContext(p)
    \/ \E p \in Pollers : StartRun(p) \/ Tick(p) \/ RunCanceled(p)
    \/ \E p \in Observers : ObserveHint(p) \/ ConfirmHint(p)
    \/ \E d \in Deciders : DecideStep(d)
    \/ Environment

Spec == Init /\ [][Next]_vars

(* Goroutines are scheduled and repository calls return; the ticker fires  *)
(* and the supervisor restarts Run; reloadMu hands over to a waiter that   *)
(* has been passed over (starvation mode), hence strong fairness.          *)
FairSpec ==
    /\ Spec
    /\ \A p \in Processes : SF_vars(ReloadStep(p))
    /\ \A p \in Pollers : WF_vars(StartRun(p)) /\ WF_vars(Tick(p))
    /\ \A p \in Observers : WF_vars(ConfirmHint(p))

-----------------------------------------------------------------------------
(* Properties                                                              *)

(* Types; engineRev is a revision the repository can hold, so a failed     *)
(* Load is never taken for a manifest.                                     *)
TypeOK ==
    /\ stored \in Manifest
    /\ up \in BOOLEAN
    /\ engineRev \in Revision
    /\ verifiedAt \in Nat
    /\ clock \in Nat
    /\ reloadMu \in Processes \cup {NoProcess}
    /\ proc \in [Processes -> ProcessRecord]
    /\ decider \in [Deciders -> DeciderRecord]
    /\ supersededAt \in [Revision -> Nat]
    /\ verified \in Basis

(* Reloads of Run and Observe are serialized from the reading of the       *)
(* repository to the activation: they never see each other as a revision   *)
(* conflict or take each other's manifest for a stale one.  (Given that    *)
(* the repository is not rolled back, nobody else replaces snapshots, and  *)
(* hints follow storage.)                                                  *)
ReloadsNeverCollide ==
    \A p \in Processes : proc[p].err \notin {"ErrRevisionConflict", "ErrStaleManifest"}

(* The decision of d was admitted by Synchronizer.Decide.                  *)
Admitted(d) == decider[d].pc = "done" /\ decider[d].err = "none"

(* Synchronizer.Decide bounds the age of what it serves: an admitted       *)
(* decision uses a revision that is still stored or that was superseded,   *)
(* by a newer manifest or a rollback, at most MaxStaleness plus the        *)
(* duration of the verifying reload before the freshness check.            *)
AdmittedWithinBound ==
    \A d \in Deciders : Admitted(d) =>
        LET s == supersededAt[decider[d].revision] IN
        s # 0 => decider[d].now <= s + MaxStaleness + decider[d].basis.lag

(* What was verified is what is served: an admitted decision never uses an *)
(* older revision than the verification that admitted it, because nothing  *)
(* takes the engine back: a reload during which another writer installed a *)
(* newer snapshot ends in a conflict and leaves that one active.           *)
AdmittedServesVerified ==
    /\ [](\A d \in Deciders : Admitted(d) => decider[d].revision >= decider[d].basis.revision)
    /\ [][engineRev' >= engineRev]_vars

(* Observe acknowledges a hint only when the hinted revision, or a newer   *)
(* one, is active, whatever the hint says.                                 *)
AcknowledgedHintIsActive ==
    \A p \in Observers :
        proc[p].pc = "idle" /\ proc[p].err = "none" => engineRev >= proc[p].hint

(* Every Reload returns, also while others hold reloadMu and fail.         *)
EveryReloadReturns ==
    \A p \in Processes : (proc[p].pc = "lock") ~> (proc[p].pc \in {"stopped", "ticking", "idle"})

(* Polling is the correctness path: once the repository answers with good  *)
(* manifests and some Run is not canceled, the engine reaches the stored   *)
(* revision and stays there, without any hint.                             *)
ConvergesOnRepository ==
    <>[](up /\ stored.kind = "good" /\ \E p \in Pollers : ~proc[p].ctxDone)
        => <>[](engineRev = stored.revision)

=============================================================================
