-------------------------- MODULE SynchronizerProofs --------------------------
(***************************************************************************)
(* Proofs about Synchronizer, for any number of pollers, observers and     *)
(* deciders and any bound on revisions and time: types, what is verified   *)
(* is served, hints are acknowledged honestly, reloads do not collide, and *)
(* the age of what is served is bounded.                                   *)
(***************************************************************************)
EXTENDS Synchronizer, TLAPS

-----------------------------------------------------------------------------
(* Types                                                                   *)

LEMMA GoodType == \A r \in Revision : Good(r) \in Manifest
BY DEF Good, Manifest

LEMMA OneIsRevision == 1 \in Revision
BY SynchronizerAssumption DEF Revision

LEMMA IdleType ==
    ASSUME NEW step \in {"stopped", "ticking", "idle", "lock", "confirm"}
    PROVE  Idle(step) \in ProcessRecord
<1>1. Good(1) \in Manifest /\ 1 \in Revision
  BY GoodType, OneIsRevision
<1>2. 0 \in 0..MaxRevision
  BY SynchronizerAssumption
<1>3. FALSE \in BOOLEAN
  OBVIOUS
<1> QED
  BY <1>1, <1>2, <1>3 DEF Idle, ProcessRecord

Errors == {"none", "ContextError", "RepositoryError", "ErrInvalidManifest", "ErrStaleManifest",
           "CompileError", "ErrRevisionConflict", "ErrPolicyLimitExceeded"}

LEMMA ReturnedType ==
    ASSUME TypeOK, NEW p \in Processes, NEW err \in Errors
    PROVE  Returned(p, err) \in ProcessRecord
<1> DEFINE step == IF p \in Pollers THEN IF err = "none" THEN "ticking" ELSE "stopped"
                                  ELSE IF err = "none" THEN "confirm" ELSE "idle"
           r == Idle(step)
<1>1. step \in {"stopped", "ticking", "idle", "lock", "confirm"}
  OBVIOUS
<1> HIDE DEF step
<1>2. r \in ProcessRecord
  BY <1>1, IdleType
<1>3. proc[p].hint \in 0..MaxRevision /\ proc[p].ctxDone \in BOOLEAN
  BY DEF TypeOK, ProcessRecord
<1>4. Returned(p, err) = [r EXCEPT !.err = err, !.hint = proc[p].hint, !.ctxDone = proc[p].ctxDone]
  BY DEF Returned, step
<1> HIDE DEF r
<1> QED
  BY Zenon, <1>2, <1>3, <1>4 DEF ProcessRecord, Errors

LEMMA TypeOKInit == Init => TypeOK
<1> SUFFICES ASSUME Init PROVE TypeOK
  OBVIOUS
<1>1. Idle("stopped") \in ProcessRecord /\ Idle("idle") \in ProcessRecord
  BY IdleType
<1>2. NoBasis \in Basis
  BY SynchronizerAssumption DEF NoBasis, Basis
<1>3. IdleDecider \in DeciderRecord
  BY <1>2, SynchronizerAssumption DEF IdleDecider, DeciderRecord
<1>4. proc \in [Processes -> ProcessRecord] /\ decider \in [Deciders -> DeciderRecord]
  BY <1>1, <1>3 DEF Init
<1>5. supersededAt \in [Revision -> Nat]
  BY DEF Init
<1> QED
  BY <1>2, <1>4, <1>5, GoodType, OneIsRevision DEF Init, TypeOK

LEMMA UpdateType ==
    ASSUME TypeOK, NEW p \in Processes, NEW r \in ProcessRecord, proc' = [proc EXCEPT ![p] = r]
    PROVE  proc' \in [Processes -> ProcessRecord]
BY DEF TypeOK

LEMMA DeciderUpdateType ==
    ASSUME TypeOK, NEW d \in Deciders, NEW r \in DeciderRecord,
           decider' = [decider EXCEPT ![d] = r]
    PROVE  decider' \in [Deciders -> DeciderRecord]
BY DEF TypeOK

LEMMA AtProcess == TypeOK => \A p \in Processes : proc[p] \in ProcessRecord
BY DEF TypeOK

LEMMA AtDecider == TypeOK => \A d \in Deciders : decider[d] \in DeciderRecord
BY DEF TypeOK

(* A return from Reload touches reloadMu and the process alone.            *)
LEMMA ReturnType ==
    ASSUME TypeOK, NEW p \in Processes, NEW err \in Errors, Return(p, err)
    PROVE  proc' \in [Processes -> ProcessRecord] /\ reloadMu' \in Processes \cup {NoProcess}
BY ReturnedType DEF Return, TypeOK

LEMMA GotoType ==
    ASSUME TypeOK, NEW p \in Processes, Goto(p, "load") \/ Goto(p, "mark") \/ Goto(p, "lock")
    PROVE  proc' \in [Processes -> ProcessRecord]
BY DEF TypeOK, Goto, ProcessRecord

LEMMA TypeOKReload ==
    ASSUME TypeOK, NEW p \in Processes, ReloadStep(p)
    PROVE  TypeOK'
<1> USE DEF Errors
<1>1. CASE LockReload(p)
  <2>1. proc' \in [Processes -> ProcessRecord] /\ reloadMu' \in Processes \cup {NoProcess}
    BY <1>1, ReturnType, GotoType DEF LockReload
  <2> QED
    BY <1>1, <2>1 DEF LockReload, TypeOK, repoVars
<1>2. CASE LoadFails(p)
  <2>1. proc' \in [Processes -> ProcessRecord] /\ reloadMu' \in Processes \cup {NoProcess}
    BY <1>2, ReturnType DEF LoadFails
  <2> QED
    BY <1>2, <2>1 DEF LoadFails, TypeOK, repoVars
<1>3. CASE LoadManifest(p)
  <2> DEFINE r == [proc[p] EXCEPT !.pc = "compare", !.manifest = stored, !.loadedAt = clock]
  <2>a. r \in ProcessRecord
    BY Zenon, AtProcess DEF TypeOK, ProcessRecord
  <2>b. proc' = [proc EXCEPT ![p] = r]
    BY Zenon, <1>3 DEF LoadManifest
  <2> HIDE DEF r
  <2>1. proc' \in [Processes -> ProcessRecord]
    BY Zenon, <2>a, <2>b, UpdateType
  <2> QED
    BY <1>3, <2>1 DEF LoadManifest, TypeOK, repoVars, syncVars
<1>4. CASE RefuseManifest(p)
  <2>1. proc' \in [Processes -> ProcessRecord] /\ reloadMu' \in Processes \cup {NoProcess}
    BY <1>4, ReturnType DEF RefuseManifest
  <2> QED
    BY Zenon, <1>4, <2>1 DEF RefuseManifest, TypeOK, repoVars
<1>5. CASE AcceptManifest(p)
  <2>1. PICK next \in {"mark", "replace"} :
          proc' = [proc EXCEPT ![p].current = engineRev, ![p].pc = next]
    BY Zenon, <1>5 DEF AcceptManifest
  <2> DEFINE r == [proc[p] EXCEPT !.current = engineRev, !.pc = next]
  <2>a. r \in ProcessRecord
    BY Zenon, AtProcess DEF TypeOK, ProcessRecord
  <2>b. proc' = [proc EXCEPT ![p] = r]
    BY Zenon, <2>1
  <2> HIDE DEF r
  <2>2. proc' \in [Processes -> ProcessRecord]
    BY Zenon, <2>a, <2>b, UpdateType
  <2> QED
    BY <1>5, <2>2 DEF AcceptManifest, TypeOK, repoVars, syncVars
<1>6. CASE RefuseSnapshot(p)
  <2>1. proc' \in [Processes -> ProcessRecord] /\ reloadMu' \in Processes \cup {NoProcess}
    BY Zenon, <1>6, ReturnType DEF RefuseSnapshot
  <2> QED
    BY Zenon, <1>6, <2>1 DEF RefuseSnapshot, TypeOK, repoVars
<1>7. CASE InstallSnapshot(p)
  <2>1. proc' \in [Processes -> ProcessRecord]
    BY <1>7, GotoType DEF InstallSnapshot
  <2>2. engineRev' \in Revision
    BY <1>7 DEF InstallSnapshot, TypeOK, ProcessRecord, Manifest
  <2> QED
    BY <1>7, <2>1, <2>2 DEF InstallSnapshot, TypeOK, repoVars
<1>8. CASE MarkVerified(p)
  <2>1. proc' \in [Processes -> ProcessRecord] /\ reloadMu' \in Processes \cup {NoProcess}
    BY Zenon, <1>8, ReturnType DEF MarkVerified
  <2>2. proc[p].manifest \in Manifest /\ proc[p].loadedAt \in Nat
    BY DEF TypeOK, ProcessRecord
  <2>3. proc[p].manifest.revision \in 0..MaxRevision
    BY <2>2 DEF Manifest, Revision
  <2>4. verified' \in Basis
    BY <1>8, <2>2, <2>3 DEF MarkVerified, Basis, TypeOK
  <2> QED
    BY <1>8, <2>1, <2>4 DEF MarkVerified, TypeOK, repoVars
<1> QED
  BY <1>1, <1>2, <1>3, <1>4, <1>5, <1>6, <1>7, <1>8 DEF ReloadStep

LEMMA TypeOKProcess ==
    ASSUME TypeOK, NEW p \in Processes,
           \/ CancelContext(p) \/ StartRun(p) \/ Tick(p) \/ RunCanceled(p)
           \/ ObserveHint(p) \/ ConfirmHint(p)
    PROVE  TypeOK'
<1>1. UNCHANGED <<syncVars, repoVars, clock, decider>>
  BY DEF CancelContext, StartRun, Tick, RunCanceled, ObserveHint, ConfirmHint
<1>2. CASE CancelContext(p)
  <2> DEFINE r == [proc[p] EXCEPT !.ctxDone = TRUE]
  <2>a. r \in ProcessRecord
    BY Zenon, AtProcess DEF ProcessRecord
  <2>b. proc' = [proc EXCEPT ![p] = r]
    BY <1>2 DEF CancelContext
  <2> HIDE DEF r
  <2>1. proc' \in [Processes -> ProcessRecord]
    BY Zenon, <2>a, <2>b, UpdateType
  <2> QED
    BY <1>1, <2>1 DEF TypeOK, syncVars, repoVars
<1>3. CASE StartRun(p)
  <2>1. Idle("lock") \in ProcessRecord
    BY IdleType
  <2> QED
    BY <1>1, <1>3, <2>1 DEF StartRun, TypeOK, syncVars, repoVars
<1>4. CASE Tick(p)
  <2>1. proc' \in [Processes -> ProcessRecord]
    BY Zenon, <1>4, GotoType DEF Tick
  <2> QED
    BY <1>1, <2>1 DEF TypeOK, syncVars, repoVars
<1>5. CASE RunCanceled(p)
  <2> DEFINE r == [proc[p] EXCEPT !.pc = "stopped", !.err = "ContextError"]
  <2>a. r \in ProcessRecord
    BY Zenon, AtProcess DEF ProcessRecord
  <2>b. proc' = [proc EXCEPT ![p] = r]
    BY Zenon, <1>5 DEF RunCanceled
  <2> HIDE DEF r
  <2>1. proc' \in [Processes -> ProcessRecord]
    BY Zenon, <2>a, <2>b, UpdateType
  <2> QED
    BY <1>1, <2>1 DEF TypeOK, syncVars, repoVars
<1>6. CASE ObserveHint(p)
  <2>1. PICK hint \in Revision :
          proc' = [proc EXCEPT ![p] =
              [Idle(IF hint <= engineRev THEN "idle" ELSE "lock") EXCEPT !.hint = hint]]
    BY Zenon, <1>6 DEF ObserveHint
  <2>2. PICK r \in ProcessRecord : proc' = [proc EXCEPT ![p] = [r EXCEPT !.hint = hint]]
    BY Zenon, <2>1, IdleType
  <2>3. hint \in 0..MaxRevision
    BY DEF Revision
  <2>4. proc' \in [Processes -> ProcessRecord]
    BY <2>2, <2>3 DEF TypeOK, ProcessRecord
  <2> QED
    BY <1>1, <2>4 DEF TypeOK, syncVars, repoVars
<1>7. CASE ConfirmHint(p)
  <2>1. PICK err \in {"ErrStaleManifest", "none"} :
          proc' = [proc EXCEPT ![p].pc = "idle", ![p].err = err]
    BY Zenon, <1>7 DEF ConfirmHint
  <2> DEFINE r == [proc[p] EXCEPT !.pc = "idle", !.err = err]
  <2>a. r \in ProcessRecord
    BY Zenon, AtProcess DEF ProcessRecord
  <2>b. proc' = [proc EXCEPT ![p] = r]
    BY Zenon, <2>1
  <2> HIDE DEF r
  <2>2. proc' \in [Processes -> ProcessRecord]
    BY Zenon, <2>a, <2>b, UpdateType
  <2> QED
    BY <1>1, <2>2 DEF TypeOK, syncVars, repoVars
<1> QED
  BY <1>2, <1>3, <1>4, <1>5, <1>6, <1>7

LEMMA TypeOKDecide ==
    ASSUME TypeOK, NEW d \in Deciders, DecideStep(d)
    PROVE  TypeOK'
<1>1. UNCHANGED <<syncVars, repoVars, clock, proc>>
  BY DEF DecideStep, ReadVerified, CheckFreshness, EngineDecides, NextDecision
<1>2. NoBasis \in Basis
  BY SynchronizerAssumption DEF NoBasis, Basis
<1>3. IdleDecider \in DeciderRecord
  BY <1>2, SynchronizerAssumption DEF IdleDecider, DeciderRecord
<1>4. engineRev \in 0..MaxRevision /\ 0 \in 0..MaxRevision
  BY SynchronizerAssumption DEF TypeOK, Revision
<1>5. CASE ReadVerified(d)
  <2>1. PICK r \in DeciderRecord :
          decider' = [decider EXCEPT ![d] =
              [r EXCEPT !.pc = "clock", !.seen = verifiedAt, !.basis = verified]]
    BY Zenon, <1>3, <1>5 DEF ReadVerified
  <2>2. decider' \in [Deciders -> DeciderRecord]
    BY Zenon, <2>1 DEF TypeOK, DeciderRecord
  <2> QED
    BY <1>1, <2>2 DEF TypeOK, syncVars, repoVars
<1>6. CASE CheckFreshness(d)
  <2>1. PICK step \in {"done", "admitted"}, err \in {"ErrPolicyStale", "none"},
               revision \in {engineRev, 0} :
          decider' = [decider EXCEPT ![d].now = clock, ![d].pc = step, ![d].err = err,
                                     ![d].revision = revision]
    BY Zenon, <1>6 DEF CheckFreshness
  <2> DEFINE r == [decider[d] EXCEPT !.now = clock, !.pc = step, !.err = err,
                                     !.revision = revision]
  <2>a. r \in DeciderRecord
    BY Zenon, <1>4, AtDecider DEF TypeOK, DeciderRecord
  <2>b. decider' = [decider EXCEPT ![d] = r]
    BY Zenon, <2>1
  <2> HIDE DEF r
  <2>2. decider' \in [Deciders -> DeciderRecord]
    BY Zenon, <2>a, <2>b, DeciderUpdateType
  <2> QED
    BY <1>1, <2>2 DEF TypeOK, syncVars, repoVars
<1>7. CASE EngineDecides(d)
  <2> DEFINE r == [decider[d] EXCEPT !.pc = "done", !.revision = engineRev]
  <2>a. r \in DeciderRecord
    BY Zenon, <1>4, AtDecider DEF DeciderRecord
  <2>b. decider' = [decider EXCEPT ![d] = r]
    BY Zenon, <1>7 DEF EngineDecides
  <2> HIDE DEF r
  <2>1. decider' \in [Deciders -> DeciderRecord]
    BY Zenon, <2>a, <2>b, DeciderUpdateType
  <2> QED
    BY <1>1, <2>1 DEF TypeOK, syncVars, repoVars
<1>8. CASE NextDecision(d)
  <2>1. decider' \in [Deciders -> DeciderRecord]
    BY <1>3, <1>8 DEF NextDecision, TypeOK
  <2> QED
    BY <1>1, <2>1 DEF TypeOK, syncVars, repoVars
<1> QED
  BY <1>5, <1>6, <1>7, <1>8 DEF DecideStep

LEMMA TypeOKEnvironment ==
    ASSUME TypeOK, Environment
    PROVE  TypeOK'
<1>1. CASE PublishManifest
  BY Zenon, <1>1 DEF PublishManifest, TypeOK, syncVars
<1>2. CASE RollBackRepository
  BY Zenon, <1>2, GoodType DEF RollBackRepository, TypeOK, syncVars
<1>3. CASE ToggleRepository
  BY <1>3 DEF ToggleRepository, TypeOK, syncVars
<1>4. CASE ReplaceElsewhere
  BY <1>4 DEF ReplaceElsewhere, TypeOK, repoVars
<1>5. CASE SetClock
  BY <1>5, SynchronizerAssumption DEF SetClock, TypeOK, syncVars, repoVars
<1> QED
  BY <1>1, <1>2, <1>3, <1>4, <1>5 DEF Environment

LEMMA TypeOKStutter == TypeOK /\ UNCHANGED vars => TypeOK'
BY DEF TypeOK, vars, syncVars, repoVars

LEMMA TypeOKNext == TypeOK /\ [Next]_vars => TypeOK'
BY TypeOKReload, TypeOKProcess, TypeOKDecide, TypeOKEnvironment, TypeOKStutter
   DEF Next, Processes

(* Every variable of the synchronizer keeps its type.                      *)
THEOREM TypeCorrect == Spec => []TypeOK
BY TypeOKInit, TypeOKNext, PTL DEF Spec

-----------------------------------------------------------------------------
(* What a step does to the process that takes it                           *)

Others(p) == \A q \in Processes : q # p => proc'[q] = proc[q]

LEMMA GotoFields ==
    ASSUME TypeOK, NEW p \in Processes, NEW step, Goto(p, step)
    PROVE  /\ Others(p)
           /\ proc'[p].pc = step
           /\ proc'[p].manifest = proc[p].manifest /\ proc'[p].loadedAt = proc[p].loadedAt
           /\ proc'[p].current = proc[p].current
           /\ proc'[p].hint = proc[p].hint /\ proc'[p].err = proc[p].err
BY DEF TypeOK, Goto, Others, ProcessRecord

LEMMA ReturnFields ==
    ASSUME TypeOK, NEW p \in Processes, NEW err \in Errors, Return(p, err)
    PROVE  /\ Others(p)
           /\ reloadMu' = NoProcess
           /\ proc'[p].pc = IF p \in Pollers THEN IF err = "none" THEN "ticking" ELSE "stopped"
                                             ELSE IF err = "none" THEN "confirm" ELSE "idle"
           /\ proc'[p].hint = proc[p].hint /\ proc'[p].err = err
BY DEF TypeOK, Return, Returned, Idle, Others

LEMMA LoadFields ==
    ASSUME TypeOK, NEW p \in Processes, LoadManifest(p)
    PROVE  /\ Others(p)
           /\ proc'[p].pc = "compare"
           /\ proc'[p].manifest = stored /\ proc'[p].loadedAt = clock
           /\ proc'[p].hint = proc[p].hint /\ proc'[p].err = proc[p].err
BY DEF TypeOK, LoadManifest, Others, ProcessRecord

LEMMA AcceptFields ==
    ASSUME TypeOK, NEW p \in Processes, AcceptManifest(p)
    PROVE  /\ Others(p)
           /\ proc'[p].pc = IF proc[p].manifest.revision = engineRev THEN "mark" ELSE "replace"
           /\ proc'[p].manifest = proc[p].manifest /\ proc'[p].loadedAt = proc[p].loadedAt
           /\ proc'[p].current = engineRev
           /\ proc'[p].hint = proc[p].hint /\ proc'[p].err = proc[p].err
BY DEF TypeOK, AcceptManifest, Others, ProcessRecord

LEMMA CancelFields ==
    ASSUME TypeOK, NEW p \in Processes, CancelContext(p)
    PROVE  /\ Others(p)
           /\ proc'[p].pc = proc[p].pc
           /\ proc'[p].manifest = proc[p].manifest /\ proc'[p].loadedAt = proc[p].loadedAt
           /\ proc'[p].current = proc[p].current
           /\ proc'[p].hint = proc[p].hint /\ proc'[p].err = proc[p].err
BY DEF TypeOK, CancelContext, Others, ProcessRecord

LEMMA RunCanceledFields ==
    ASSUME TypeOK, NEW p \in Processes, RunCanceled(p)
    PROVE  Others(p) /\ proc'[p].pc = "stopped" /\ proc'[p].err = "ContextError"
BY DEF TypeOK, RunCanceled, Others, ProcessRecord

LEMMA StartFields ==
    ASSUME TypeOK, NEW p \in Processes, StartRun(p)
    PROVE  Others(p) /\ proc'[p].pc = "lock" /\ proc'[p].err = "none" /\ proc'[p].hint = 0
BY DEF TypeOK, StartRun, Idle, Others

LEMMA ObserveFields ==
    ASSUME TypeOK, NEW p \in Processes, ObserveHint(p)
    PROVE  /\ Others(p)
           /\ proc'[p].pc = IF proc'[p].hint <= engineRev THEN "idle" ELSE "lock"
           /\ "aheadHint" \in Faults \/ proc'[p].hint <= stored.revision
           /\ proc'[p].err = "none"
BY DEF TypeOK, ObserveHint, Idle, Others

LEMMA ConfirmFields ==
    ASSUME TypeOK, NEW p \in Processes, ConfirmHint(p)
    PROVE  /\ Others(p)
           /\ proc'[p].pc = "idle"
           /\ proc'[p].hint = proc[p].hint
           /\ proc'[p].err = IF engineRev < proc[p].hint THEN "ErrStaleManifest" ELSE "none"
BY DEF TypeOK, ConfirmHint, Others, ProcessRecord

LEMMA DeciderFields ==
    ASSUME TypeOK, NEW d \in Deciders, DecideStep(d)
    PROVE  /\ \A c \in Deciders : c # d => decider'[c] = decider[c]
           /\ \/ /\ decider'[d].pc = "clock" /\ decider'[d].basis = verified
                 /\ decider'[d].seen = verifiedAt
              \/ /\ decider[d].pc = "clock" /\ decider'[d].pc = "done"
                 /\ decider'[d].err = "ErrPolicyStale" /\ decider'[d].basis = decider[d].basis
              \/ /\ decider[d].pc = "clock" /\ decider'[d].pc = "admitted"
                 /\ decider'[d].now = clock
                 /\ decider[d].seen # 0 /\ clock <= decider[d].seen + MaxStaleness
                 /\ decider'[d].basis = decider[d].basis
                 /\ decider'[d].seen = decider[d].seen
              \/ /\ decider[d].pc = "admitted" /\ decider'[d].pc = "done"
                 /\ decider'[d].revision = engineRev
                 /\ decider'[d].basis = decider[d].basis
                 /\ decider'[d].now = decider[d].now
                 /\ decider'[d].seen = decider[d].seen
              \/ /\ decider'[d].pc = "idle" /\ decider'[d].basis = NoBasis
<1> decider \in [Deciders -> DeciderRecord]
  BY DEF TypeOK
<1>1. CASE ReadVerified(d)
  BY <1>1 DEF ReadVerified, IdleDecider
<1>2. CASE CheckFreshness(d)
  <2>1. decider[d].seen \in Nat /\ clock \in Nat /\ MaxStaleness \in Nat
    BY SynchronizerAssumption DEF TypeOK, DeciderRecord
  <2> QED
    BY <1>2, <2>1 DEF CheckFreshness, DeciderRecord
<1>3. CASE EngineDecides(d)
  BY <1>3 DEF EngineDecides, DeciderRecord
<1>4. CASE NextDecision(d)
  BY <1>4 DEF NextDecision, IdleDecider
<1> QED
  BY Zenon, <1>1, <1>2, <1>3, <1>4 DEF DecideStep

LEMMA Numbers ==
    ASSUME TypeOK
    PROVE  /\ engineRev \in Nat /\ verifiedAt \in Nat /\ clock \in Nat
           /\ stored.revision \in Revision /\ verified.revision \in Nat /\ verified.lag \in Int
           /\ \A p \in Processes :
                /\ proc[p].manifest.revision \in Revision /\ proc[p].current \in Nat
                /\ proc[p].loadedAt \in Nat /\ proc[p].hint \in Nat
           /\ \A d \in Deciders :
                /\ decider[d].revision \in Nat /\ decider[d].basis.revision \in Nat
                /\ decider[d].basis.lag \in Int
                /\ decider[d].seen \in Nat /\ decider[d].now \in Nat
           /\ Revision \subseteq Nat
<1>1. Revision \subseteq Nat /\ 0..MaxRevision \subseteq Nat
  BY DEF Revision
<1>2. \A m \in Manifest : m.revision \in Revision
  BY DEF Manifest
<1>3. \A b \in Basis : b.revision \in Nat /\ b.lag \in Int
  BY <1>1 DEF Basis
<1>4. \A r \in ProcessRecord : /\ r.manifest.revision \in Revision /\ r.current \in Nat
                              /\ r.loadedAt \in Nat /\ r.hint \in Nat
  BY Zenon, <1>1, <1>2 DEF ProcessRecord
<1>5. \A r \in DeciderRecord : /\ r.revision \in Nat /\ r.basis.revision \in Nat
                              /\ r.basis.lag \in Int /\ r.seen \in Nat /\ r.now \in Nat
  BY <1>1, <1>3 DEF DeciderRecord
<1> QED
  BY Zenon, <1>1, <1>2, <1>3, <1>4, <1>5 DEF TypeOK

-----------------------------------------------------------------------------
(* Under every fault: the engine only advances, what is verified is active *)

ReloadSound(p) ==
    /\ proc[p].pc = "replace" => proc[p].current < proc[p].manifest.revision
    /\ proc[p].pc = "mark" => proc[p].manifest.revision <= engineRev

HintSound(p) == proc[p].pc = "idle" /\ proc[p].err = "none" => proc[p].hint <= engineRev

DeciderSound(d) ==
    /\ decider[d].basis.revision <= engineRev
    /\ Admitted(d) => decider[d].basis.revision <= decider[d].revision

SyncInv ==
    /\ verified.revision <= engineRev
    /\ \A p \in Processes : ReloadSound(p)
    /\ \A p \in Observers : HintSound(p)
    /\ \A d \in Deciders : DeciderSound(d)

LEMMA SyncInit == Init => SyncInv
<1> SUFFICES ASSUME Init PROVE SyncInv
  OBVIOUS
<1>1. \A p \in Processes : ReloadSound(p)
  BY DEF Init, ReloadSound, Idle, Processes
<1>2. \A p \in Observers : HintSound(p)
  BY DEF Init, HintSound, Idle, Processes
<1>3. \A d \in Deciders : DeciderSound(d)
  BY DEF Init, DeciderSound, IdleDecider, NoBasis, Admitted
<1> QED
  BY <1>1, <1>2, <1>3 DEF SyncInv, Init, NoBasis

(* What a step leaves alone stays sound as the engine advances.            *)
LEMMA Untouched ==
    ASSUME TypeOK, TypeOK', engineRev <= engineRev'
    PROVE  /\ \A p \in Processes : proc'[p] = proc[p] =>
                  (ReloadSound(p) => ReloadSound(p)') /\ (HintSound(p) => HintSound(p)')
           /\ \A d \in Deciders : decider'[d] = decider[d] => (DeciderSound(d) => DeciderSound(d)')
           /\ verified' = verified /\ verified.revision <= engineRev
                => verified'.revision <= engineRev'
<1>1. engineRev' \in Nat
  BY DEF TypeOK, Revision
<1> QED
  BY <1>1, Numbers DEF ReloadSound, HintSound, DeciderSound, Admitted

LEMMA SyncReload ==
    ASSUME TypeOK, TypeOK', SyncInv, NEW p \in Processes, ReloadStep(p)
    PROVE  SyncInv' /\ engineRev <= engineRev'
<1> USE DEF Errors
<1>1. decider' = decider
  BY DEF ReloadStep, LockReload, LoadFails, LoadManifest, RefuseManifest, AcceptManifest,
         RefuseSnapshot, InstallSnapshot, MarkVerified
<1> SUFFICES /\ engineRev <= engineRev' /\ verified'.revision <= engineRev' /\ Others(p)
             /\ ReloadSound(p)' /\ (p \in Observers => HintSound(p)')
  <2>1. \A q \in Processes : ReloadSound(q)'
    BY Untouched DEF SyncInv, Others
  <2>2. \A q \in Observers : HintSound(q)'
    BY Untouched DEF SyncInv, Others, Processes
  <2>3. \A d \in Deciders : DeciderSound(d)'
    BY <1>1, Untouched DEF SyncInv
  <2> QED
    BY <2>1, <2>2, <2>3 DEF SyncInv
<1>2. /\ engineRev \in Nat /\ verified.revision <= engineRev
      /\ ReloadSound(p) /\ (p \in Observers => HintSound(p) /\ p \notin Pollers)
  BY Numbers, SynchronizerAssumption DEF SyncInv
<1>3. ASSUME NEW err \in Errors, Return(p, err)
      PROVE  Others(p) /\ ReloadSound(p)' /\ (p \in Observers => HintSound(p)')
  BY <1>2, <1>3, ReturnFields DEF ReloadSound, HintSound
<1>4. CASE LockReload(p)
  BY <1>2, <1>3, <1>4, GotoFields DEF LockReload, ReloadSound, HintSound
<1>5. CASE LoadFails(p)
  BY <1>2, <1>3, <1>5 DEF LoadFails
<1>6. CASE LoadManifest(p)
  <2>1. engineRev' = engineRev /\ verified' = verified
    BY <1>6 DEF LoadManifest, syncVars
  <2> QED
    BY <1>2, <1>6, <2>1, LoadFields DEF ReloadSound, HintSound
<1>7. CASE RefuseManifest(p)
  BY <1>2, <1>3, <1>7 DEF RefuseManifest
<1>8. CASE AcceptManifest(p)
  <2>1. engineRev' = engineRev /\ verified' = verified
    BY <1>8 DEF AcceptManifest, syncVars
  <2>2. proc[p].manifest.revision >= engineRev /\ proc[p].manifest.revision \in Nat
    BY <1>8, Numbers DEF AcceptManifest
  <2> QED
    BY <1>2, <1>8, <2>1, <2>2, AcceptFields DEF ReloadSound, HintSound
<1>9. CASE RefuseSnapshot(p)
  BY <1>2, <1>3, <1>9 DEF RefuseSnapshot
<1>10. CASE InstallSnapshot(p)
  <2>1. /\ proc[p].current < proc[p].manifest.revision /\ engineRev = proc[p].current
        /\ engineRev' = proc[p].manifest.revision /\ verified' = verified /\ Goto(p, "mark")
    BY Zenon, <1>2, <1>10 DEF InstallSnapshot, ReloadSound
  <2>2. proc[p].manifest.revision \in Nat /\ verified.revision \in Nat
    BY Zenon, Numbers
  <2> QED
    BY <1>2, <2>1, <2>2, GotoFields DEF ReloadSound, HintSound
<1>11. CASE MarkVerified(p)
  <2>1. /\ engineRev' = engineRev /\ verified'.revision = proc[p].manifest.revision
        /\ proc[p].pc = "mark" /\ Return(p, "none")
    BY Zenon, <1>11 DEF MarkVerified
  <2>2. proc[p].manifest.revision <= engineRev
    BY <1>2, <2>1 DEF ReloadSound
  <2>3. Others(p) /\ ReloadSound(p)' /\ (p \in Observers => HintSound(p)')
    BY <1>3, <2>1
  <2>4. engineRev <= engineRev' /\ verified'.revision <= engineRev'
    BY <1>2, <2>1, <2>2
  <2> QED
    BY <2>3, <2>4
<1> QED
  BY <1>4, <1>5, <1>6, <1>7, <1>8, <1>9, <1>10, <1>11 DEF ReloadStep

LEMMA SyncProcess ==
    ASSUME TypeOK, TypeOK', SyncInv, NEW p \in Processes,
           \/ CancelContext(p)
           \/ p \in Pollers /\ (StartRun(p) \/ Tick(p) \/ RunCanceled(p))
           \/ p \in Observers /\ (ObserveHint(p) \/ ConfirmHint(p))
    PROVE  SyncInv'
<1>1. decider' = decider /\ engineRev' = engineRev /\ verified' = verified
  BY DEF CancelContext, StartRun, Tick, RunCanceled, ObserveHint, ConfirmHint, syncVars
<1>2. /\ engineRev \in Nat /\ proc[p].hint \in Nat /\ ReloadSound(p)
      /\ (p \in Observers => HintSound(p) /\ p \notin Pollers)
  BY Zenon, Numbers, SynchronizerAssumption DEF SyncInv
<1>3. Others(p) /\ ReloadSound(p)' /\ (p \in Observers => HintSound(p)')
  <2>1. CASE CancelContext(p)
    BY Zenon, <1>1, <1>2, <2>1, CancelFields DEF ReloadSound, HintSound
  <2>2. CASE p \in Pollers /\ StartRun(p)
    BY Zenon, <1>2, <2>2, StartFields DEF ReloadSound, HintSound
  <2>3. CASE p \in Pollers /\ Tick(p)
    BY <1>2, <2>3, GotoFields DEF Tick, ReloadSound, HintSound
  <2>4. CASE p \in Pollers /\ RunCanceled(p)
    BY Zenon, <1>2, <2>4, RunCanceledFields DEF ReloadSound, HintSound
  <2>5. CASE p \in Observers /\ ObserveHint(p)
    BY Zenon, <1>1, <2>5, ObserveFields DEF ReloadSound, HintSound
  <2>6. CASE p \in Observers /\ ConfirmHint(p)
    BY <1>1, <1>2, <2>6, ConfirmFields DEF ReloadSound, HintSound
  <2> QED
    BY <2>1, <2>2, <2>3, <2>4, <2>5, <2>6
<1>4. \A q \in Processes : ReloadSound(q)'
  BY <1>1, <1>2, <1>3, Untouched DEF SyncInv, Others
<1>5. \A q \in Observers : HintSound(q)'
  BY <1>1, <1>2, <1>3, Untouched DEF SyncInv, Others, Processes
<1>6. \A d \in Deciders : DeciderSound(d)'
  BY <1>1, <1>2, Untouched DEF SyncInv
<1> QED
  BY <1>1, <1>4, <1>5, <1>6 DEF SyncInv

LEMMA SyncDecide ==
    ASSUME TypeOK, TypeOK', SyncInv, NEW d \in Deciders, DecideStep(d)
    PROVE  SyncInv'
<1>1. proc' = proc /\ engineRev' = engineRev /\ verified' = verified
  BY DEF DecideStep, ReadVerified, CheckFreshness, EngineDecides, NextDecision, syncVars
<1>2. engineRev \in Nat /\ verified.revision <= engineRev /\ DeciderSound(d)
  BY Numbers DEF SyncInv
<1>3. NoBasis.revision = 0
  BY DEF NoBasis
<1>4. DeciderSound(d)'
  BY <1>1, <1>2, <1>3, DeciderFields DEF DeciderSound, Admitted
<1>5. \A c \in Deciders : DeciderSound(c)'
  BY <1>1, <1>2, <1>4, DeciderFields, Untouched DEF SyncInv
<1>6. (\A q \in Processes : ReloadSound(q)') /\ (\A q \in Observers : HintSound(q)')
  BY <1>1, <1>2, Untouched DEF SyncInv, Processes
<1> QED
  BY <1>1, <1>5, <1>6 DEF SyncInv

LEMMA SyncEnvironment ==
    ASSUME TypeOK, TypeOK', SyncInv, Environment \/ UNCHANGED vars
    PROVE  SyncInv' /\ engineRev <= engineRev'
<1>1. proc' = proc /\ decider' = decider /\ verified' = verified
  BY Zenon DEF Environment, PublishManifest, RollBackRepository, ToggleRepository, ReplaceElsewhere,
         SetClock, vars, syncVars
<1>2. engineRev' = engineRev \/ \E r \in Revision : r > engineRev /\ engineRev' = r
  BY DEF Environment, PublishManifest, RollBackRepository, ToggleRepository, ReplaceElsewhere,
         SetClock, vars, syncVars
<1>3. engineRev \in Nat /\ Revision \subseteq Nat
  BY Numbers
<1>4. engineRev <= engineRev'
  BY <1>2, <1>3
<1>5. (\A q \in Processes : ReloadSound(q)') /\ (\A q \in Observers : HintSound(q)')
  BY <1>1, <1>4, Untouched DEF SyncInv, Processes
<1>6. \A d \in Deciders : DeciderSound(d)'
  BY <1>1, <1>4, Untouched DEF SyncInv
<1>7. verified'.revision <= engineRev'
  BY <1>1, <1>4, Untouched DEF SyncInv
<1> QED
  BY <1>4, <1>5, <1>6, <1>7 DEF SyncInv

LEMMA SyncNext == TypeOK /\ TypeOK' /\ SyncInv /\ [Next]_vars => SyncInv'
BY SyncReload, SyncProcess, SyncDecide, SyncEnvironment DEF Next, Processes

LEMMA SyncInvariant == Spec => [](TypeOK /\ SyncInv)
<1>1. Init => TypeOK /\ SyncInv
  BY TypeOKInit, SyncInit
<1>2. TypeOK /\ SyncInv /\ [Next]_vars => (TypeOK /\ SyncInv)'
  BY TypeOKNext, SyncNext
<1> QED
  BY <1>1, <1>2, PTL DEF Spec

(* No step takes the engine back.                                          *)
LEMMA Advances == TypeOK /\ TypeOK' /\ SyncInv /\ [Next]_vars => engineRev' >= engineRev
<1> SUFFICES ASSUME TypeOK, TypeOK', SyncInv, [Next]_vars
             PROVE  engineRev' >= engineRev
  OBVIOUS
<1>1. engineRev \in Nat /\ engineRev' \in Nat
  BY DEF TypeOK, Revision
<1>2. ASSUME NEW p \in Processes, ReloadStep(p)
      PROVE  engineRev' >= engineRev
  BY <1>1, <1>2, SyncReload
<1>3. CASE Environment
  BY <1>1, <1>3 DEF Environment, PublishManifest, RollBackRepository, ToggleRepository,
                    ReplaceElsewhere, SetClock, syncVars, repoVars, Revision
<1>4. CASE \/ \E p \in Processes : CancelContext(p)
           \/ \E p \in Pollers : StartRun(p) \/ Tick(p) \/ RunCanceled(p)
           \/ \E p \in Observers : ObserveHint(p) \/ ConfirmHint(p)
           \/ \E d \in Deciders : DecideStep(d)
           \/ UNCHANGED vars
  <2>1. engineRev' = engineRev
    BY Zenon, <1>4 DEF CancelContext, StartRun, Tick, RunCanceled, ObserveHint, ConfirmHint,
                       DecideStep, ReadVerified, CheckFreshness, EngineDecides, NextDecision,
                       syncVars, vars
  <2> QED
    BY <1>1, <2>1
<1> QED
  BY Zenon, <1>2, <1>3, <1>4 DEF Next

(* An admitted decision never uses an older revision than the one whose    *)
(* verification admitted it, and nothing takes the engine back, under      *)
(* every fault of the environment.                                         *)
THEOREM ServesVerified == Spec => AdmittedServesVerified
<1> DEFINE Served == \A d \in Deciders : Admitted(d) => decider[d].revision >= decider[d].basis.revision
<1>1. TypeOK /\ SyncInv => Served
  BY Numbers DEF SyncInv, DeciderSound
<1>2. TypeOK /\ TypeOK' /\ SyncInv /\ [Next]_vars => [engineRev' >= engineRev]_vars
  BY Advances
<1> HIDE DEF Served
<1>3. Spec => []Served /\ [][engineRev' >= engineRev]_vars
  BY <1>1, <1>2, SyncInvariant, PTL DEF Spec
<1> QED
  BY <1>3 DEF AdmittedServesVerified, Served

(* Observe acknowledges only hints whose revision is active, whatever the  *)
(* hints, the repository and other writers of the engine do.               *)
THEOREM HintsHonest == Spec => []AcknowledgedHintIsActive
<1>1. TypeOK /\ SyncInv => AcknowledgedHintIsActive
  BY Numbers DEF SyncInv, HintSound, AcknowledgedHintIsActive, Processes
<1> QED
  BY <1>1, SyncInvariant, PTL

-----------------------------------------------------------------------------
(* Without another writer: reloadMu makes the reload in progress exact     *)

Loaded == {"compare", "replace", "mark"}

ReloadExclusive(p) ==
    /\ proc[p].pc = "load" \/ proc[p].pc \in Loaded => reloadMu = p
    /\ proc[p].pc = "replace" => proc[p].current = engineRev
    /\ proc[p].pc = "mark" => proc[p].manifest.revision = engineRev

ExclusiveInv == \A p \in Processes : ReloadExclusive(p)

(* ... and, if the repository only advances and hints follow it, harmless. *)
HintFollows(p) ==
    /\ proc[p].pc \in {"lock", "load"} => proc[p].hint <= stored.revision
    /\ proc[p].pc \in Loaded => proc[p].hint <= proc[p].manifest.revision
    /\ proc[p].pc = "confirm" => proc[p].hint <= engineRev

ReloadSerial(p) ==
    /\ proc[p].pc \in Loaded => /\ engineRev <= proc[p].manifest.revision
                                /\ proc[p].manifest.revision <= stored.revision
    /\ proc[p].err \notin {"ErrRevisionConflict", "ErrStaleManifest"}

SerialInv ==
    /\ engineRev <= stored.revision
    /\ \A p \in Processes : ReloadSerial(p)
    /\ \A p \in Observers : HintFollows(p)

(* ... and, if the clock does not go back, of bounded age.  Fresh(r, t):   *)
(* revision r was stored at t or later.                                    *)
Fresh(r, t) == supersededAt[r] = 0 \/ t <= supersededAt[r]

ReloadFresh(p) ==
    proc[p].pc \in Loaded => /\ verifiedAt <= proc[p].loadedAt /\ proc[p].loadedAt <= clock
                             /\ Fresh(proc[p].manifest.revision, proc[p].loadedAt)

DeciderFresh(d) ==
    LET since == decider[d].seen - decider[d].basis.lag IN
    /\ decider[d].pc \in {"clock", "admitted"} \/ Admitted(d) =>
         since <= decider[d].seen /\ decider[d].seen <= verifiedAt
    /\ decider[d].pc \in {"clock", "admitted"} => decider[d].seen = 0 \/ Fresh(engineRev, since)
    /\ decider[d].pc = "admitted" \/ Admitted(d) =>
         decider[d].seen # 0 /\ decider[d].now <= decider[d].seen + MaxStaleness
    /\ Admitted(d) => decider[d].revision \in Revision /\ Fresh(decider[d].revision, since)

AgeInv ==
    /\ supersededAt[stored.revision] = 0
    /\ verifiedAt <= clock /\ 0 <= verified.lag
    /\ verifiedAt = 0 \/ Fresh(engineRev, verifiedAt - verified.lag)
    /\ \A p \in Processes : ReloadFresh(p)
    /\ \A d \in Deciders : DeciderFresh(d)

LEMMA ExclusiveInit == Init => ExclusiveInv
BY DEF Init, ExclusiveInv, ReloadExclusive, Loaded, Idle

LEMMA ExclusiveReload ==
    ASSUME TypeOK, SyncInv, ExclusiveInv, NEW p \in Processes, ReloadStep(p)
    PROVE  ExclusiveInv'
<1> USE DEF Errors, Loaded
<1>1. reloadMu = p \/ (proc[p].pc = "lock" /\ reloadMu = NoProcess)
  BY DEF ReloadStep, LockReload, LoadFails, LoadManifest, RefuseManifest, AcceptManifest,
         RefuseSnapshot, InstallSnapshot, MarkVerified, ExclusiveInv, ReloadExclusive
<1>2. \A q \in Processes : q # p => ~(proc[q].pc = "load" \/ proc[q].pc \in Loaded)
  BY <1>1, SynchronizerAssumption DEF ExclusiveInv, ReloadExclusive, Processes
<1> SUFFICES Others(p) /\ ReloadExclusive(p)'
  BY <1>2 DEF ExclusiveInv, ReloadExclusive, Others
<1>3. ReloadExclusive(p)
  BY DEF ExclusiveInv
<1>4. ASSUME NEW err \in Errors, Return(p, err)
      PROVE  Others(p) /\ ReloadExclusive(p)'
  BY Zenon, <1>4, ReturnFields DEF ReloadExclusive
<1>5. CASE LockReload(p)
  <2>1. CASE proc[p].ctxDone
    BY <1>4, <1>5, <2>1 DEF LockReload
  <2>2. CASE ~proc[p].ctxDone
    <3>1. Goto(p, "load") /\ reloadMu' = p
      BY <1>5, <2>2 DEF LockReload
    <3>2. Others(p) /\ proc'[p].pc = "load"
      BY <3>1, GotoFields
    <3> QED
      BY <3>1, <3>2 DEF ReloadExclusive
  <2> QED
    BY <2>1, <2>2
<1>6. CASE LoadFails(p)
  BY <1>4, <1>6 DEF LoadFails
<1>7. CASE LoadManifest(p)
  <2>1. reloadMu' = p
    BY <1>3, <1>7 DEF LoadManifest, syncVars, ReloadExclusive
  <2> QED
    BY <1>7, <2>1, LoadFields DEF ReloadExclusive
<1>8. CASE RefuseManifest(p)
  BY <1>4, <1>8 DEF RefuseManifest
<1>9. CASE AcceptManifest(p)
  <2>1. reloadMu' = p /\ engineRev' = engineRev
    BY <1>3, <1>9 DEF AcceptManifest, syncVars, ReloadExclusive
  <2> QED
    BY <1>9, <2>1, AcceptFields DEF ReloadExclusive
<1>10. CASE RefuseSnapshot(p)
  BY <1>4, <1>10 DEF RefuseSnapshot
<1>11. CASE InstallSnapshot(p)
  <2>1. reloadMu' = p /\ engineRev' = proc[p].manifest.revision /\ Goto(p, "mark")
    BY <1>3, <1>11 DEF InstallSnapshot, ReloadExclusive
  <2> QED
    BY <2>1, GotoFields DEF ReloadExclusive
<1>12. CASE MarkVerified(p)
  BY <1>4, <1>12 DEF MarkVerified
<1> QED
  BY <1>5, <1>6, <1>7, <1>8, <1>9, <1>10, <1>11, <1>12 DEF ReloadStep

LEMMA ExclusiveProcess ==
    ASSUME TypeOK, ExclusiveInv, NEW p \in Processes,
           \/ CancelContext(p) \/ StartRun(p) \/ Tick(p) \/ RunCanceled(p)
           \/ ObserveHint(p) \/ ConfirmHint(p)
    PROVE  ExclusiveInv'
<1> USE DEF Loaded
<1>1. engineRev' = engineRev /\ reloadMu' = reloadMu
  BY DEF CancelContext, StartRun, Tick, RunCanceled, ObserveHint, ConfirmHint, syncVars
<1>2. Others(p) /\ ReloadExclusive(p)'
  <2>1. CASE CancelContext(p)
    BY Zenon, <1>1, <2>1, CancelFields DEF ExclusiveInv, ReloadExclusive
  <2>2. CASE StartRun(p)
    BY Zenon, <2>2, StartFields DEF ReloadExclusive
  <2>3. CASE Tick(p)
    BY <2>3, GotoFields DEF Tick, ReloadExclusive
  <2>4. CASE RunCanceled(p)
    BY Zenon, <2>4, RunCanceledFields DEF ReloadExclusive
  <2>5. CASE ObserveHint(p)
    BY Zenon, <2>5, ObserveFields DEF ReloadExclusive
  <2>6. CASE ConfirmHint(p)
    BY Zenon, <2>6, ConfirmFields DEF ReloadExclusive
  <2> QED
    BY <2>1, <2>2, <2>3, <2>4, <2>5, <2>6
<1> QED
  BY <1>1, <1>2 DEF ExclusiveInv, ReloadExclusive, Others

LEMMA Elsewhere ==
    ASSUME "otherWriter" \notin Faults,
           (\E d \in Deciders : DecideStep(d)) \/ Environment \/ UNCHANGED vars
    PROVE  UNCHANGED <<engineRev, verifiedAt, reloadMu, verified, proc>>
BY Zenon DEF DecideStep, ReadVerified, CheckFreshness, EngineDecides, NextDecision, Environment,
       PublishManifest, RollBackRepository, ToggleRepository, ReplaceElsewhere, SetClock,
       vars, syncVars

LEMMA ExclusiveNext ==
    ASSUME "otherWriter" \notin Faults, TypeOK, SyncInv, ExclusiveInv, [Next]_vars
    PROVE  ExclusiveInv'
<1>1. CASE (\E d \in Deciders : DecideStep(d)) \/ Environment \/ UNCHANGED vars
  BY <1>1, Elsewhere DEF ExclusiveInv, ReloadExclusive
<1> QED
  BY <1>1, ExclusiveReload, ExclusiveProcess DEF Next, Processes

LEMMA ExclusiveInvariant ==
    ASSUME "otherWriter" \notin Faults
    PROVE  Spec => [](TypeOK /\ SyncInv /\ ExclusiveInv)
<1>1. Init => ExclusiveInv
  BY ExclusiveInit
<1>2. TypeOK /\ SyncInv /\ ExclusiveInv /\ [Next]_vars => ExclusiveInv'
  BY ExclusiveNext
<1> QED
  BY <1>1, <1>2, SyncInvariant, PTL DEF Spec

-----------------------------------------------------------------------------
(* Reloads do not collide                                                  *)

LEMMA SerialInit == Init => SerialInv
<1> SUFFICES ASSUME Init PROVE SerialInv
  OBVIOUS
<1>1. \A p \in Processes : ReloadSerial(p)
  BY DEF Init, ReloadSerial, Loaded, Idle
<1>2. \A p \in Observers : HintFollows(p)
  BY SynchronizerAssumption DEF Init, HintFollows, Loaded, Idle, Processes
<1> QED
  BY <1>1, <1>2 DEF Init, Good, SerialInv

LEMMA SerialReload ==
    ASSUME TypeOK, TypeOK', SyncInv, ExclusiveInv, SerialInv, NEW p \in Processes, ReloadStep(p)
    PROVE  SerialInv'
<1> USE DEF Errors, Loaded
<1>1. stored' = stored
  BY DEF ReloadStep, LockReload, LoadFails, LoadManifest, RefuseManifest, AcceptManifest,
         RefuseSnapshot, InstallSnapshot, MarkVerified, repoVars
<1>2. /\ engineRev \in Nat /\ engineRev' \in Nat /\ stored.revision \in Nat
      /\ \A q \in Processes : proc[q].hint \in Nat /\ proc[q].manifest.revision \in Nat
  BY Numbers DEF TypeOK, Revision
<1>3. engineRev <= engineRev'
  BY SyncReload
<1>4. reloadMu = p \/ (proc[p].pc = "lock" /\ reloadMu = NoProcess)
  BY DEF ReloadStep, LockReload, LoadFails, LoadManifest, RefuseManifest, AcceptManifest,
         RefuseSnapshot, InstallSnapshot, MarkVerified, ExclusiveInv, ReloadExclusive
<1>5. \A q \in Processes : q # p => proc[q].pc \notin Loaded
  BY <1>4, SynchronizerAssumption DEF ExclusiveInv, ReloadExclusive, Processes
<1> SUFFICES /\ Others(p) /\ engineRev' <= stored.revision
             /\ ReloadSerial(p)' /\ (p \in Observers => HintFollows(p)')
  <2>1. \A q \in Processes : ReloadSerial(q)'
    BY <1>5 DEF SerialInv, ReloadSerial, Others
  <2>2. \A q \in Observers : HintFollows(q)'
    BY <1>1, <1>2, <1>3, <1>5 DEF SerialInv, HintFollows, Others, Processes
  <2> QED
    BY <1>1, <2>1, <2>2 DEF SerialInv
<1>6. /\ engineRev <= stored.revision /\ ReloadSerial(p) /\ ReloadExclusive(p)
      /\ (p \in Observers => HintFollows(p) /\ p \notin Pollers)
  BY SynchronizerAssumption DEF SerialInv, ExclusiveInv
<1>7. ASSUME NEW err \in Errors \ {"ErrRevisionConflict", "ErrStaleManifest", "none"},
             Return(p, err)
      PROVE  Others(p) /\ ReloadSerial(p)' /\ (p \in Observers => HintFollows(p)')
  BY Zenon, <1>6, <1>7, ReturnFields DEF ReloadSerial, HintFollows
<1>8. CASE LockReload(p)
  BY Zenon, <1>1, <1>6, <1>7, <1>8, GotoFields DEF LockReload, ReloadSerial, HintFollows
<1>9. CASE LoadFails(p)
  BY Zenon, <1>6, <1>7, <1>9 DEF LoadFails
<1>10. CASE LoadManifest(p)
  <2>1. engineRev' = engineRev /\ proc[p].pc = "load"
    BY <1>10 DEF LoadManifest, syncVars
  <2> QED
    BY <1>1, <1>2, <1>6, <1>10, <2>1, LoadFields DEF ReloadSerial, HintFollows
<1>11. CASE RefuseManifest(p)
  <2>1. ~(proc[p].manifest.revision < engineRev)
    BY <1>2, <1>6, <1>11 DEF RefuseManifest, ReloadSerial
  <2> QED
    BY Zenon, <1>6, <1>7, <1>11, <2>1 DEF RefuseManifest
<1>12. CASE AcceptManifest(p)
  <2>1. engineRev' = engineRev /\ proc[p].pc = "compare"
    BY <1>12 DEF AcceptManifest, syncVars
  <2> QED
    BY Zenon, <1>1, <1>6, <1>12, <2>1, AcceptFields DEF ReloadSerial, HintFollows
<1>13. CASE RefuseSnapshot(p)
  BY Zenon, <1>6, <1>7, <1>13 DEF RefuseSnapshot, ReloadExclusive
<1>14. CASE InstallSnapshot(p)
  <2>1. engineRev' = proc[p].manifest.revision /\ Goto(p, "mark") /\ proc[p].pc = "replace"
    BY <1>14 DEF InstallSnapshot
  <2>2. /\ Others(p) /\ proc'[p].pc = "mark"
        /\ proc'[p].manifest = proc[p].manifest /\ proc'[p].hint = proc[p].hint
        /\ proc'[p].err = proc[p].err
    BY Zenon, <2>1, GotoFields
  <2>3. engineRev' <= proc[p].manifest.revision
    BY <1>2, <2>1
  <2> QED
    BY Zenon, <1>1, <1>6, <2>1, <2>2, <2>3 DEF ReloadSerial, HintFollows
<1>15. CASE MarkVerified(p)
  <2>1. engineRev' = engineRev /\ Return(p, "none") /\ proc[p].pc = "mark"
    BY <1>15 DEF MarkVerified
  <2> QED
    BY Zenon, <1>6, <2>1, ReturnFields DEF ReloadSerial, HintFollows, ReloadExclusive
<1> QED
  BY <1>8, <1>9, <1>10, <1>11, <1>12, <1>13, <1>14, <1>15 DEF ReloadStep

LEMMA SerialProcess ==
    ASSUME "aheadHint" \notin Faults, TypeOK, SerialInv, NEW p \in Processes,
           \/ CancelContext(p)
           \/ p \in Pollers /\ (StartRun(p) \/ Tick(p) \/ RunCanceled(p))
           \/ p \in Observers /\ (ObserveHint(p) \/ ConfirmHint(p))
    PROVE  SerialInv'
<1> USE DEF Loaded
<1>1. engineRev' = engineRev /\ stored' = stored
  BY DEF CancelContext, StartRun, Tick, RunCanceled, ObserveHint, ConfirmHint, syncVars, repoVars
<1>2. /\ engineRev \in Nat /\ proc[p].hint \in Nat /\ ReloadSerial(p)
      /\ (p \in Observers => HintFollows(p) /\ p \notin Pollers)
  BY Numbers, SynchronizerAssumption DEF SerialInv
<1>3. Others(p) /\ ReloadSerial(p)' /\ (p \in Observers => HintFollows(p)')
  <2>1. CASE CancelContext(p)
    BY Zenon, <1>1, <1>2, <2>1, CancelFields DEF ReloadSerial, HintFollows
  <2>2. CASE p \in Pollers /\ StartRun(p)
    BY Zenon, <1>2, <2>2, StartFields DEF ReloadSerial
  <2>3. CASE p \in Pollers /\ Tick(p)
    <3>1. Others(p) /\ proc'[p].pc = "lock" /\ proc'[p].err = proc[p].err
      BY Zenon, <2>3, GotoFields DEF Tick
    <3> QED
      BY Zenon, <1>2, <2>3, <3>1 DEF ReloadSerial
  <2>4. CASE p \in Pollers /\ RunCanceled(p)
    BY Zenon, <1>2, <2>4, RunCanceledFields DEF ReloadSerial
  <2>5. CASE p \in Observers /\ ObserveHint(p)
    BY Zenon, <1>1, <2>5, ObserveFields DEF ReloadSerial, HintFollows
  <2>6. CASE p \in Observers /\ ConfirmHint(p)
    <3>1. ~(engineRev < proc[p].hint)
      BY <1>2, <2>6 DEF ConfirmHint, HintFollows
    <3> QED
      BY <2>6, <3>1, ConfirmFields DEF ReloadSerial, HintFollows
  <2> QED
    BY <2>1, <2>2, <2>3, <2>4, <2>5, <2>6
<1>4. \A q \in Processes : ReloadSerial(q)'
  BY Zenon, <1>1, <1>3 DEF SerialInv, ReloadSerial, Others
<1>5. \A q \in Observers : HintFollows(q)'
  BY Zenon, <1>1, <1>3 DEF SerialInv, HintFollows, Others, Processes
<1> QED
  BY <1>1, <1>4, <1>5 DEF SerialInv

LEMMA SerialElsewhere ==
    ASSUME Faults \cap {"otherWriter", "rollback"} = {}, TypeOK, TypeOK', SerialInv,
           (\E d \in Deciders : DecideStep(d)) \/ Environment \/ UNCHANGED vars
    PROVE  SerialInv'
<1>1. engineRev' = engineRev /\ proc' = proc
  BY Elsewhere
<1>2. stored' = stored \/ stored'.revision > stored.revision
  BY Zenon DEF DecideStep, ReadVerified, CheckFreshness, EngineDecides, NextDecision, Environment,
         PublishManifest, RollBackRepository, ToggleRepository, ReplaceElsewhere, SetClock,
         vars, repoVars
<1>3. /\ engineRev \in Nat /\ stored.revision \in Nat /\ stored'.revision \in Nat
      /\ \A p \in Processes : proc[p].hint \in Nat /\ proc[p].manifest.revision \in Nat
  BY Zenon, Numbers DEF TypeOK, Manifest, Revision
<1>4. stored.revision <= stored'.revision
  BY <1>2, <1>3
<1>5. \A q \in Processes : ReloadSerial(q)'
  BY <1>1, <1>3, <1>4 DEF SerialInv, ReloadSerial
<1>6. \A q \in Observers : HintFollows(q)'
  BY <1>1, <1>3, <1>4 DEF SerialInv, HintFollows, Processes
<1> QED
  BY <1>1, <1>3, <1>4, <1>5, <1>6 DEF SerialInv

(* Reloads of one synchronizer never fail because of each other: if the    *)
(* repository only advances, hints follow it and nobody else replaces      *)
(* snapshots, no Run or Observe ends with a conflict or a stale manifest.  *)
THEOREM NoCollision ==
    ASSUME Faults \cap {"otherWriter", "rollback", "aheadHint"} = {}
    PROVE  Spec => []ReloadsNeverCollide
<1>1. "otherWriter" \notin Faults /\ "aheadHint" \notin Faults
      /\ Faults \cap {"otherWriter", "rollback"} = {}
  OBVIOUS
<1>2. TypeOK /\ TypeOK' /\ SyncInv /\ ExclusiveInv /\ SerialInv /\ [Next]_vars => SerialInv'
  BY <1>1, SerialReload, SerialProcess, SerialElsewhere DEF Next, Processes
<1>3. SerialInv => ReloadsNeverCollide
  BY DEF SerialInv, ReloadSerial, ReloadsNeverCollide
<1>4. Spec => [](TypeOK /\ SyncInv /\ ExclusiveInv)
  BY <1>1, ExclusiveInvariant
<1> QED
  BY <1>2, <1>3, <1>4, SerialInit, PTL DEF Spec

-----------------------------------------------------------------------------
(* The age of what is served                                               *)

LEMMA AgeInit == Init => AgeInv
<1> SUFFICES ASSUME Init PROVE AgeInv
  OBVIOUS
<1>1. \A p \in Processes : ReloadFresh(p)
  BY DEF Init, ReloadFresh, Loaded, Idle
<1>2. \A d \in Deciders : DeciderFresh(d)
  BY DEF Init, DeciderFresh, IdleDecider, Admitted
<1>3. supersededAt[stored.revision] = 0
  BY OneIsRevision DEF Init, Good
<1> QED
  BY <1>1, <1>2, <1>3 DEF Init, NoBasis, AgeInv

(* Steps of the reload that change neither the engine nor the verification.*)
LEMMA AgeKept ==
    ASSUME AgeInv, NEW p \in Processes, Others(p), ReloadFresh(p)',
           UNCHANGED <<engineRev, verifiedAt, verified, repoVars, clock, decider>>
    PROVE  AgeInv'
<1>1. \A q \in Processes : ReloadFresh(q)'
  BY DEF AgeInv, ReloadFresh, Fresh, Others, repoVars
<1>2. \A d \in Deciders : DeciderFresh(d)'
  BY Zenon DEF AgeInv, DeciderFresh, Fresh, Admitted, repoVars
<1> QED
  BY Zenon, <1>1, <1>2 DEF AgeInv, Fresh, repoVars

LEMMA AgeInstall ==
    ASSUME TypeOK, AgeInv, ExclusiveInv, NEW p \in Processes, InstallSnapshot(p)
    PROVE  AgeInv'
<1> USE DEF Loaded
<1>1. /\ UNCHANGED <<verifiedAt, verified, repoVars, clock, decider>> /\ Goto(p, "mark")
      /\ engineRev' = proc[p].manifest.revision /\ proc[p].pc = "replace"
  BY DEF InstallSnapshot
<1>2. /\ verifiedAt <= proc[p].loadedAt /\ proc[p].loadedAt <= clock
      /\ Fresh(proc[p].manifest.revision, proc[p].loadedAt)
  BY <1>1 DEF AgeInv, ReloadFresh
<1>3. \A q \in Processes : ReloadFresh(q)'
  <2>1. /\ Others(p) /\ proc'[p].manifest = proc[p].manifest
        /\ proc'[p].loadedAt = proc[p].loadedAt
    BY <1>1, GotoFields
  <2>2. /\ UNCHANGED <<verifiedAt, supersededAt, clock>>
        /\ \A q \in Processes : ReloadFresh(q)
    BY <1>1 DEF AgeInv, repoVars
  <2>3. ReloadFresh(p)'
    BY <1>2, <2>1, <2>2 DEF ReloadFresh, Fresh
  <2>4. ASSUME NEW q \in Processes, q # p PROVE ReloadFresh(q)'
    BY Zenon, <2>1, <2>2, <2>4 DEF ReloadFresh, Fresh, Others
  <2> QED
    BY <2>3, <2>4
<1>4. supersededAt[proc[p].manifest.revision] \in Nat
  BY Zenon, Numbers DEF TypeOK
<1>5. \A t \in Int : t <= verifiedAt => Fresh(proc[p].manifest.revision, t)
  <2>1. proc[p].loadedAt \in Nat /\ verifiedAt \in Nat
    BY Numbers
  <2> QED
    BY <1>2, <1>4, <2>1 DEF Fresh
<1>6. \A d \in Deciders : DeciderFresh(d)'
  <2> SUFFICES ASSUME NEW d \in Deciders PROVE DeciderFresh(d)'
    OBVIOUS
  <2>1. DeciderFresh(d) /\ decider' = decider /\ supersededAt' = supersededAt
    BY Zenon, <1>1 DEF AgeInv, repoVars
  <2>2. decider[d].pc \in {"clock", "admitted"} =>
          Fresh(proc[p].manifest.revision, decider[d].seen - decider[d].basis.lag)
    <3>1. decider[d].seen \in Nat /\ decider[d].basis.lag \in Int /\ verifiedAt \in Nat
      BY Numbers
    <3> DEFINE since == decider[d].seen - decider[d].basis.lag
    <3>2. decider[d].pc \in {"clock", "admitted"} => since <= verifiedAt /\ since \in Int
      BY <2>1, <3>1 DEF DeciderFresh
    <3> HIDE DEF since
    <3>3. decider[d].pc \in {"clock", "admitted"} => Fresh(proc[p].manifest.revision, since)
      BY <1>5, <3>2
    <3> QED
      BY <3>3 DEF since
  <2> QED
    BY Zenon, <1>1, <2>1, <2>2 DEF DeciderFresh, Fresh, Admitted
<1>7. verifiedAt = 0 \/ Fresh(proc[p].manifest.revision, verifiedAt - verified.lag)
  <2>1. verifiedAt \in Nat /\ verified.lag \in Int
    BY Numbers
  <2>2. 0 <= verified.lag
    BY DEF AgeInv
  <2> QED
    BY <1>5, <2>1, <2>2
<1> QED
  BY Zenon, <1>1, <1>3, <1>6, <1>7 DEF AgeInv, Fresh, repoVars

LEMMA AgeMark ==
    ASSUME TypeOK, AgeInv, ExclusiveInv, NEW p \in Processes, MarkVerified(p)
    PROVE  AgeInv'
<1> USE DEF Loaded
<1>1. /\ UNCHANGED <<engineRev, repoVars, clock, decider>> /\ Return(p, "none")
      /\ verifiedAt' = clock /\ verified'.lag = clock - proc[p].loadedAt /\ proc[p].pc = "mark"
  BY Zenon DEF MarkVerified
<1>2. /\ verifiedAt <= proc[p].loadedAt /\ proc[p].loadedAt <= clock
      /\ Fresh(engineRev, proc[p].loadedAt) /\ reloadMu = p
  BY <1>1 DEF AgeInv, ReloadFresh, ExclusiveInv, ReloadExclusive
<1>3. \A q \in Processes : q # p => proc[q].pc \notin Loaded
  BY <1>2 DEF ExclusiveInv, ReloadExclusive
<1>4. \A q \in Processes : ReloadFresh(q)'
  BY <1>1, <1>3, ReturnFields DEF Errors, ReloadFresh, Others
<1>5. \A d \in Deciders : DeciderFresh(d)'
  <2> SUFFICES ASSUME NEW d \in Deciders PROVE DeciderFresh(d)'
    OBVIOUS
  <2>1. /\ DeciderFresh(d) /\ decider' = decider /\ supersededAt' = supersededAt
        /\ verifiedAt <= clock
    BY Zenon, <1>1 DEF AgeInv, repoVars
  <2>2. decider[d].seen <= verifiedAt => decider[d].seen <= clock
    <3>1. decider[d].seen \in Nat /\ verifiedAt \in Nat /\ clock \in Nat
      BY Zenon, Numbers
    <3> QED
      BY <2>1, <3>1
  <2> QED
    BY Zenon, <1>1, <2>1, <2>2 DEF DeciderFresh, Fresh, Admitted
<1>6. clock - (clock - proc[p].loadedAt) = proc[p].loadedAt /\ 0 <= clock - proc[p].loadedAt
      /\ clock <= clock
  BY <1>2, Numbers
<1> QED
  BY Zenon, <1>1, <1>2, <1>4, <1>5, <1>6 DEF AgeInv, Fresh, repoVars

LEMMA AgeReload ==
    ASSUME TypeOK, ExclusiveInv, AgeInv, NEW p \in Processes, ReloadStep(p)
    PROVE  AgeInv'
<1> USE DEF Loaded, Errors
<1>1. ReloadFresh(p)
  BY DEF AgeInv
<1>2. ASSUME NEW err \in Errors, Return(p, err)
      PROVE  Others(p) /\ ReloadFresh(p)'
  BY <1>2, ReturnFields DEF ReloadFresh
<1>3. CASE LockReload(p)
  <2>1. Others(p) /\ ReloadFresh(p)'
    <3>1. CASE proc[p].ctxDone
      BY <1>2, <1>3, <3>1 DEF LockReload
    <3>2. CASE ~proc[p].ctxDone
      <4>1. Goto(p, "load")
        BY Zenon, <1>3, <3>2 DEF LockReload
      <4>2. Others(p) /\ proc'[p].pc = "load"
        BY <4>1, GotoFields
      <4> QED
        BY <4>2 DEF ReloadFresh
    <3> QED
      BY <3>1, <3>2
  <2> QED
    BY Zenon, <1>3, <2>1, AgeKept DEF LockReload
<1>4. CASE LoadFails(p)
  BY <1>2, <1>4, AgeKept DEF LoadFails
<1>5. CASE LoadManifest(p)
  <2>1. /\ UNCHANGED <<engineRev, verifiedAt, verified, repoVars, clock, decider>>
        /\ supersededAt' = supersededAt
    BY <1>5 DEF LoadManifest, syncVars, repoVars
  <2>2. supersededAt[stored.revision] = 0 /\ verifiedAt <= clock /\ clock <= clock
    BY Numbers DEF AgeInv
  <2>3. Others(p) /\ ReloadFresh(p)'
    BY Zenon, <1>5, <2>1, <2>2, LoadFields DEF ReloadFresh, Fresh
  <2> QED
    BY <2>1, <2>3, AgeKept
<1>6. CASE RefuseManifest(p)
  BY Zenon, <1>2, <1>6, AgeKept DEF RefuseManifest
<1>7. CASE AcceptManifest(p)
  <2>1. /\ UNCHANGED <<engineRev, verifiedAt, verified, repoVars, clock, decider>>
        /\ supersededAt' = supersededAt /\ proc[p].pc = "compare"
    BY <1>7 DEF AcceptManifest, syncVars, repoVars
  <2>2. Others(p) /\ ReloadFresh(p)'
    BY Zenon, <1>1, <1>7, <2>1, AcceptFields DEF ReloadFresh, Fresh
  <2> QED
    BY Zenon, <2>1, <2>2, AgeKept
<1>8. CASE RefuseSnapshot(p)
  BY Zenon, <1>2, <1>8, AgeKept DEF RefuseSnapshot
<1>9. CASE InstallSnapshot(p)
  BY <1>9, AgeInstall
<1>10. CASE MarkVerified(p)
  BY <1>10, AgeMark
<1> QED
  BY <1>3, <1>4, <1>5, <1>6, <1>7, <1>8, <1>9, <1>10 DEF ReloadStep

LEMMA AgeProcess ==
    ASSUME TypeOK, AgeInv, NEW p \in Processes,
           \/ CancelContext(p) \/ StartRun(p) \/ Tick(p) \/ RunCanceled(p)
           \/ ObserveHint(p) \/ ConfirmHint(p)
    PROVE  AgeInv'
<1> USE DEF Loaded
<1>1. /\ UNCHANGED <<engineRev, verifiedAt, verified, repoVars, clock, decider>>
      /\ supersededAt' = supersededAt
  BY DEF CancelContext, StartRun, Tick, RunCanceled, ObserveHint, ConfirmHint, syncVars, repoVars
<1>2. CASE CancelContext(p)
  <2>1. Others(p) /\ ReloadFresh(p)'
    BY Zenon, <1>1, <1>2, CancelFields DEF AgeInv, ReloadFresh, Fresh
  <2> QED
    BY <1>1, <2>1, AgeKept
<1>3. CASE StartRun(p) \/ Tick(p) \/ RunCanceled(p)
  <2>1. Others(p) /\ ReloadFresh(p)'
    <3>1. Tick(p) => Others(p) /\ proc'[p].pc = "lock"
      BY Zenon, GotoFields DEF Tick
    <3> QED
      BY Zenon, <1>3, <3>1, StartFields, RunCanceledFields DEF ReloadFresh
  <2> QED
    BY <1>1, <2>1, AgeKept
<1>4. CASE ObserveHint(p) \/ ConfirmHint(p)
  <2>1. Others(p) /\ ReloadFresh(p)'
    BY Zenon, <1>4, ObserveFields, ConfirmFields DEF ReloadFresh
  <2> QED
    BY <1>1, <2>1, AgeKept
<1> QED
  BY <1>2, <1>3, <1>4

LEMMA AgeDecide ==
    ASSUME TypeOK, AgeInv, NEW d \in Deciders, DecideStep(d)
    PROVE  AgeInv'
<1>1. UNCHANGED <<engineRev, verifiedAt, verified, stored, supersededAt, clock, proc>>
  BY DEF DecideStep, ReadVerified, CheckFreshness, EngineDecides, NextDecision, syncVars, repoVars
<1>2. \A q \in Processes : ReloadFresh(q)'
  BY Zenon, <1>1 DEF AgeInv, ReloadFresh, Fresh
<1>3. \A c \in Deciders : c # d => DeciderFresh(c)'
  <2>1. \A c \in Deciders : c # d => decider'[c] = decider[c]
    BY Zenon, DeciderFields
  <2> QED
    BY Zenon, <1>1, <2>1 DEF AgeInv, DeciderFresh, Fresh, Admitted
<1>4. /\ DeciderFresh(d) /\ 0 <= verified.lag
      /\ verifiedAt = 0 \/ Fresh(engineRev, verifiedAt - verified.lag)
  BY DEF AgeInv
<1>5. engineRev \in Revision
  BY DEF TypeOK
<1>6. verifiedAt - verified.lag <= verifiedAt /\ verifiedAt <= verifiedAt
  <2>1. verifiedAt \in Nat /\ verified.lag \in Int
    BY Zenon, Numbers
  <2> QED
    BY <1>4, <2>1
<1>7. DeciderFresh(d)'
  BY Zenon, <1>1, <1>4, <1>5, <1>6, DeciderFields DEF DeciderFresh, Fresh, Admitted
<1> QED
  BY Zenon, <1>1, <1>2, <1>3, <1>7 DEF AgeInv, Fresh

LEMMA AgeEnvironment ==
    ASSUME Faults \cap {"otherWriter", "clockBack"} = {}, TypeOK, TypeOK', AgeInv,
           Environment \/ UNCHANGED vars
    PROVE  AgeInv'
<1>1. UNCHANGED <<engineRev, verifiedAt, verified, proc, decider>>
  BY Zenon DEF Environment, PublishManifest, RollBackRepository, ToggleRepository, ReplaceElsewhere,
         SetClock, vars, syncVars
<1>2. /\ \A r \in Revision : supersededAt'[r] \in {supersededAt[r], 0, clock}
      /\ supersededAt'[stored'.revision] = 0
  <2>1. CASE UNCHANGED <<stored, supersededAt>>
    BY Zenon, <2>1 DEF AgeInv
  <2>2. CASE PublishManifest \/ RollBackRepository
    <3>1. supersededAt' = [supersededAt EXCEPT ![stored.revision] = clock,
                                               ![stored'.revision] = 0]
      BY <2>2 DEF PublishManifest, RollBackRepository
    <3>2. stored'.revision \in Revision /\ stored.revision \in Revision
      BY DEF TypeOK, Manifest
    <3> QED
      BY <3>1, <3>2 DEF TypeOK
  <2> QED
    BY <2>1, <2>2 DEF Environment, ToggleRepository, ReplaceElsewhere, SetClock, vars, repoVars
<1>3. clock' = clock \/ clock' > clock
  BY Zenon DEF Environment, PublishManifest, RollBackRepository, ToggleRepository, ReplaceElsewhere,
         SetClock, vars
<1>4. clock \in Nat /\ clock' \in Nat /\ clock <= clock'
  BY <1>3 DEF TypeOK
<1>5. \A r \in Revision, t \in Int :
          Fresh(r, t) /\ t <= clock => supersededAt'[r] = 0 \/ t <= supersededAt'[r]
  BY <1>2 DEF Fresh
<1>6. \A q \in Processes : ReloadFresh(q)'
  <2> SUFFICES ASSUME NEW q \in Processes, proc[q].pc \in Loaded
               PROVE  /\ verifiedAt <= proc[q].loadedAt /\ proc[q].loadedAt <= clock'
                      /\ \/ supersededAt'[proc[q].manifest.revision] = 0
                         \/ proc[q].loadedAt <= supersededAt'[proc[q].manifest.revision]
    BY Zenon, <1>1 DEF ReloadFresh, Fresh
  <2>1. /\ verifiedAt <= proc[q].loadedAt /\ proc[q].loadedAt <= clock
        /\ Fresh(proc[q].manifest.revision, proc[q].loadedAt)
    BY Zenon DEF AgeInv, ReloadFresh
  <2> QED
    BY <1>4, <1>5, <2>1, Numbers
<1>7. \A d \in Deciders : DeciderFresh(d)'
  <2> SUFFICES ASSUME NEW d \in Deciders PROVE DeciderFresh(d)'
    OBVIOUS
  <2> DEFINE since == decider[d].seen - decider[d].basis.lag
  <2>1. DeciderFresh(d) /\ verifiedAt <= clock
    BY DEF AgeInv
  <2>2. engineRev \in Revision /\ since \in Int /\ decider[d].seen \in Nat /\ verifiedAt \in Nat
    <3>1. decider[d].seen \in Nat /\ decider[d].basis.lag \in Int /\ verifiedAt \in Nat
      BY Zenon, Numbers
    <3>2. engineRev \in Revision
      BY DEF TypeOK
    <3> QED
      BY <3>1, <3>2
  <2>3. since <= decider[d].seen /\ decider[d].seen <= verifiedAt => since <= clock
    BY <1>4, <2>1, <2>2
  <2>4. decider[d].pc \in {"clock", "admitted"} =>
          \/ decider[d].seen = 0 \/ supersededAt'[engineRev] = 0
          \/ since <= supersededAt'[engineRev]
    BY Zenon, <1>5, <2>1, <2>2, <2>3 DEF DeciderFresh
  <2>5. Admitted(d) => \/ supersededAt'[decider[d].revision] = 0
                       \/ since <= supersededAt'[decider[d].revision]
    BY Zenon, <1>5, <2>1, <2>2, <2>3 DEF DeciderFresh
  <2> QED
    BY Zenon, <1>1, <2>1, <2>4, <2>5 DEF DeciderFresh, Fresh, Admitted
<1>8. verifiedAt <= clock' /\ 0 <= verified.lag
  BY <1>4, Numbers DEF AgeInv
<1>9. verifiedAt = 0 \/ supersededAt'[engineRev] = 0
      \/ verifiedAt - verified.lag <= supersededAt'[engineRev]
  <2>1. /\ engineRev \in Revision /\ verifiedAt - verified.lag \in Int
        /\ verifiedAt - verified.lag <= clock
    <3>1. verifiedAt \in Nat /\ verified.lag \in Int
      BY Zenon, Numbers
    <3>2. engineRev \in Revision /\ verifiedAt <= clock /\ 0 <= verified.lag
      BY DEF TypeOK, AgeInv
    <3> QED
      BY <1>4, <3>1, <3>2
  <2> QED
    BY <1>5, <2>1 DEF AgeInv
<1> QED
  BY Zenon, <1>1, <1>2, <1>6, <1>7, <1>8, <1>9 DEF AgeInv, Fresh

(* The age of an admitted decision is bounded: if the clock does not go    *)
(* back and the synchronizer alone replaces snapshots, what it serves was  *)
(* superseded at most MaxStaleness plus the duration of one reload before  *)
(* the freshness check, also across outages, rollbacks and bad manifests.  *)
THEOREM BoundedAge ==
    ASSUME Faults \cap {"otherWriter", "clockBack"} = {}
    PROVE  Spec => []AdmittedWithinBound
<1>1. "otherWriter" \notin Faults
  OBVIOUS
<1>2. TypeOK /\ TypeOK' /\ ExclusiveInv /\ AgeInv /\ [Next]_vars => AgeInv'
  BY AgeReload, AgeProcess, AgeDecide, AgeEnvironment DEF Next, Processes
<1>3. TypeOK /\ AgeInv => AdmittedWithinBound
  <2> SUFFICES ASSUME TypeOK, AgeInv, NEW d \in Deciders, Admitted(d),
                      supersededAt[decider[d].revision] # 0
               PROVE  decider[d].now <= supersededAt[decider[d].revision]
                                          + MaxStaleness + decider[d].basis.lag
    BY DEF AdmittedWithinBound
  <2>1. /\ decider[d].now <= decider[d].seen + MaxStaleness
        /\ decider[d].seen - decider[d].basis.lag <= supersededAt[decider[d].revision]
        /\ decider[d].revision \in Revision
    BY Zenon DEF AgeInv, DeciderFresh, Fresh
  <2>2. supersededAt[decider[d].revision] \in Nat /\ MaxStaleness \in Nat
    BY Zenon, <2>1, SynchronizerAssumption DEF TypeOK
  <2> QED
    BY <2>1, <2>2, Numbers
<1>4. Spec => [](TypeOK /\ SyncInv /\ ExclusiveInv)
  BY <1>1, ExclusiveInvariant
<1> QED
  BY <1>2, <1>3, <1>4, AgeInit, PTL DEF Spec

=============================================================================
