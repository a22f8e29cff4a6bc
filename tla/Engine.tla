-------------------------------- MODULE Engine --------------------------------
(***************************************************************************)
(* The decision engine: engine.go.  Callers run Decide (a batch of one) or *)
(* DecideBatch, policy by policy, on the snapshot they captured; writers   *)
(* run ReplaceSnapshot, whose check and store are separate steps under     *)
(* replaceMu.  Contexts are canceled and the clock is set at any moment.   *)
(***************************************************************************)
EXTENDS Snapshot

CONSTANTS
    Callers,              \* goroutines that run one Decide or DecideBatch each
    Writers,              \* goroutines that run ReplaceSnapshot again and again
    NilSnapshot,          \* the nil *Snapshot
    NoWriter,             \* replaceMu is free
    InitialArguments,     \* what NewSnapshot made the snapshot given to NewEngine from
    CandidateArguments,   \* what the program calls NewSnapshot with later
    Batches,              \* the request slices callers may pass
    Answers,              \* what an evaluator may do when it is called
    MaxPolicies, MaxBatchSize, MaxTraceSize, MaxMatchedPolicyIDs,   \* Limits
    MaxTime               \* bound on the instants the clock takes

Limit == Nat \ {0}
Request == [valid: BOOLEAN, time: Nat]
Answer == [kind: {"decision", "error", "panic"}, outcome: Outcomes,
           matched: Seq(Nat), matchedTruncated: BOOLEAN]

(* A Snapshot has no exported field: every one comes from NewSnapshot.     *)
Build(a) == NewSnapshot(a.revision, a.algorithm, a.definitions)

InitialSnapshot == Build(InitialArguments).snapshot
Candidates == {Build(a).snapshot : a \in {b \in CandidateArguments : Build(b).err = "none"}}

(* WithLimits ignores non-positive limits; NewEngine checks the size of    *)
(* the first snapshot.                                                     *)
ASSUME EngineAssumption ==
    /\ MaxPolicies \in Limit /\ MaxBatchSize \in Limit
    /\ MaxTraceSize \in Limit /\ MaxMatchedPolicyIDs \in Limit
    /\ MaxTime \in Limit
    /\ \A a \in CandidateArguments \cup {InitialArguments} :
         a.revision \in Nat /\ a.definitions \in Seq(PolicyDefinition)
    /\ Build(InitialArguments).err = "none"
    /\ Len(InitialSnapshot.policies) <= MaxPolicies
    /\ NilSnapshot \notin SnapshotRecord
    /\ NoWriter \notin Writers
    /\ Batches \subseteq Seq(Request)
    /\ Answers \subseteq Answer

VARIABLES
    active,     \* engine.snapshot, the atomic pointer
    replaceMu,  \* the writer that holds the replacement mutex
    writer,     \* per writer: where it is in ReplaceSnapshot and its locals
    installed,  \* history: expectation and revision of every accepted store
    pc,         \* per caller: "idle", "requests", "policies" or "done"
    ctxDone,    \* per caller: ctx.Err() # nil
    batch,      \* per caller: the requests
    snap,       \* per caller: the captured snapshot
    frame,      \* per caller: the locals of decide for the current request
    results,    \* per caller: the decisions and errors produced so far
    evidence,   \* history: per caller, the final frame behind each result
    clock       \* what engine.clock() returns

callVars == <<pc, ctxDone, batch, snap, frame, results, evidence>>
writeVars == <<active, replaceMu, writer, installed>>
vars == <<callVars, writeVars, clock>>

TraceEntry == [id: Nat, outcome: ValidOutcomes, reason: Reasons, by: Nat]

Frame == [at: Nat, decisions: Seq(PolicyDecision),
          matched: Seq(Nat), matchedTruncated: BOOLEAN,
          trace: Seq(TraceEntry), traceTruncated: BOOLEAN]

CallErrors == {"none", "ErrInvalidRequest", "ContextError",
               "PolicyEvaluationError", "ErrInvalidOutcome"}

Result == [outcome: {"Allow", "Deny"}, reason: Reasons, by: Nat, err: CallErrors,
           revision: Nat, matched: Seq(Nat), matchedTruncated: BOOLEAN,
           trace: Seq(TraceEntry), traceTruncated: BOOLEAN]

EmptyFrame(at) == [at |-> at, decisions |-> <<>>, matched |-> <<>>,
                   matchedTruncated |-> FALSE, trace |-> <<>>, traceTruncated |-> FALSE]

(* The bare Decision literals of the failure paths.                        *)
DenyResult(revision, reason, err) ==
    [outcome |-> "Deny", reason |-> reason, by |-> NoPolicy, err |-> err,
     revision |-> revision, matched |-> <<>>, matchedTruncated |-> FALSE,
     trace |-> <<>>, traceTruncated |-> FALSE]

IdleWriter == [pc |-> "idle", next |-> NilSnapshot, expected |-> 0,
               current |-> InitialSnapshot, err |-> "none"]

Init ==
    /\ active = InitialSnapshot
    /\ replaceMu = NoWriter
    /\ writer = [w \in Writers |-> IdleWriter]
    /\ installed = <<>>
    /\ pc = [c \in Callers |-> "idle"]
    /\ ctxDone = [c \in Callers |-> FALSE]
    /\ batch = [c \in Callers |-> <<>>]
    /\ snap = [c \in Callers |-> InitialSnapshot]
    /\ frame = [c \in Callers |-> EmptyFrame(0)]
    /\ results = [c \in Callers |-> <<>>]
    /\ evidence = [c \in Callers |-> <<>>]
    /\ clock = 1

-----------------------------------------------------------------------------
(* Decide and DecideBatch                                                  *)

(* An oversize batch returns before the snapshot is loaded.                *)
RejectBatch(c) ==
    /\ pc[c] = "idle"
    /\ \E b \in Batches :
         /\ Len(b) > MaxBatchSize
         /\ batch' = [batch EXCEPT ![c] = b]
    /\ pc' = [pc EXCEPT ![c] = "done"]
    /\ UNCHANGED <<ctxDone, snap, frame, results, evidence, writeVars, clock>>

(* snapshot.Load(), once for the whole call.                               *)
Capture(c) ==
    /\ pc[c] = "idle"
    /\ \E b \in Batches :
         /\ Len(b) <= MaxBatchSize
         /\ batch' = [batch EXCEPT ![c] = b]
    /\ snap' = [snap EXCEPT ![c] = active]
    /\ pc' = [pc EXCEPT ![c] = "requests"]
    /\ UNCHANGED <<ctxDone, frame, results, evidence, writeVars, clock>>

(* decide returns r for the current request.                               *)
ReturnResult(c, r) ==
    /\ results' = [results EXCEPT ![c] = Append(@, r)]
    /\ evidence' = [evidence EXCEPT ![c] = Append(@, frame[c])]
    /\ frame' = [frame EXCEPT ![c] = EmptyFrame(0)]
    /\ pc' = [pc EXCEPT ![c] = "requests"]
    /\ UNCHANGED <<ctxDone, batch, snap, writeVars, clock>>

Deny(c, reason, err) == ReturnResult(c, DenyResult(snap[c].revision, reason, err))

AtRequest(c) == pc[c] = "requests" /\ Len(results[c]) < Len(batch[c])

CurrentRequest(c) == batch[c][Len(results[c]) + 1]

RejectRequest(c) ==
    /\ AtRequest(c)
    /\ ~CurrentRequest(c).valid
    /\ Deny(c, "InvalidRequest", "ErrInvalidRequest")

CanceledAtStart(c) ==
    /\ AtRequest(c)
    /\ CurrentRequest(c).valid
    /\ ctxDone[c]
    /\ Deny(c, "ContextCanceled", "ContextError")

(* Variant with a mistake: every request of a batch loads the snapshot.    *)
StartRequestReloading(c) ==
    /\ AtRequest(c)
    /\ CurrentRequest(c).valid
    /\ ~ctxDone[c]
    /\ frame' = [frame EXCEPT ![c] = EmptyFrame(clock)]
    /\ snap' = [snap EXCEPT ![c] = active]
    /\ pc' = [pc EXCEPT ![c] = "policies"]
    /\ UNCHANGED <<ctxDone, batch, results, evidence, writeVars, clock>>

(* The instant of evaluation is the request's, else one reading of clock.  *)
StartRequest(c) ==
    /\ AtRequest(c)
    /\ CurrentRequest(c).valid
    /\ ~ctxDone[c]
    /\ LET time == CurrentRequest(c).time IN
       frame' = [frame EXCEPT ![c] = EmptyFrame(IF time = 0 THEN clock ELSE time)]
    /\ pc' = [pc EXCEPT ![c] = "policies"]
    /\ UNCHANGED <<ctxDone, batch, snap, results, evidence, writeVars, clock>>

LoopEnded(c) ==
    LET decisions == frame[c].decisions IN
    \/ Len(decisions) >= Len(snap[c].policies)
    \/ /\ decisions # <<>>
       /\ IsDecisive(snap[c].algorithm, decisions[Len(decisions)].outcome)

AtPolicy(c) == pc[c] = "policies" /\ ~LoopEnded(c)

CurrentPolicy(c) == snap[c].policies[Len(frame[c].decisions) + 1]

CanceledAtPolicy(c) ==
    /\ AtPolicy(c)
    /\ ctxDone[c]
    /\ Deny(c, "ContextCanceled", "ContextError")

AtLivePolicy(c) == AtPolicy(c) /\ ~ctxDone[c]

AtActivePolicy(c) == AtLivePolicy(c) /\ ActiveAt(CurrentPolicy(c), frame[c].at)

Take(s, n) == SubSeq(s, 1, IF Len(s) < n THEN Len(s) ELSE n)

(* Variant with a mistake: the nested truncation flag is dropped.          *)
RecordedLosingFlag(f, policy, d) ==
    LET contributed == IF d.matched = <<>> THEN <<policy.id>> ELSE d.matched
        full == f.matched \o contributed
        applicable == d.outcome # "NotApplicable" IN
    [f EXCEPT !.decisions = Append(@, d),
              !.matched = IF applicable THEN Take(full, MaxMatchedPolicyIDs) ELSE @,
              !.matchedTruncated = @ \/ (applicable /\ Len(full) > MaxMatchedPolicyIDs)]

(* Variant with a mistake: each policy is judged at a new clock reading.   *)
RecordedAtNewInstant(f, policy, d) ==
    [f EXCEPT !.decisions = Append(@, d), !.at = clock]

(* The rest of the loop body: decisions, trace and matched IDs grow.       *)
Recorded(f, policy, d) ==
    LET applicable == d.outcome # "NotApplicable"
        contributed == IF d.matched = <<>> THEN <<policy.id>> ELSE d.matched
        remaining == MaxMatchedPolicyIDs - Len(f.matched)
        traced == [id |-> policy.id, outcome |-> d.outcome,
                   reason |-> d.reason, by |-> d.by]
    IN  [at |-> f.at,
         decisions |-> Append(f.decisions, d),
         matched |-> IF applicable THEN Take(f.matched \o contributed, MaxMatchedPolicyIDs)
                                   ELSE f.matched,
         matchedTruncated |->
             \/ f.matchedTruncated
             \/ applicable /\ (Len(contributed) > remaining \/ d.matchedTruncated),
         trace |-> IF Len(f.trace) < MaxTraceSize THEN Append(f.trace, traced) ELSE f.trace,
         traceTruncated |-> f.traceTruncated \/ Len(f.trace) >= MaxTraceSize]

RecordDecision(c, d) ==
    /\ frame' = [frame EXCEPT ![c] = Recorded(@, CurrentPolicy(c), d)]
    /\ UNCHANGED <<pc, ctxDone, batch, snap, results, evidence, writeVars, clock>>

SkipInactive(c) ==
    /\ AtLivePolicy(c)
    /\ ~ActiveAt(CurrentPolicy(c), frame[c].at)
    /\ RecordDecision(c, [NotApplicableDecision EXCEPT !.reason = "PolicyInactive"])

(* Variant with a mistake: a policy that fails is passed over.             *)
EvaluatorPassedOver(c) ==
    /\ AtActivePolicy(c)
    /\ \E a \in Answers : a.kind \in {"error", "panic"}
    /\ RecordDecision(c, NotApplicableDecision)

(* An error, or a panic that evaluatePolicy recovers.                      *)
EvaluatorFails(c) ==
    /\ AtActivePolicy(c)
    /\ \E a \in Answers : a.kind \in {"error", "panic"}
    /\ Deny(c, "EvaluationError", "PolicyEvaluationError")

EvaluatorInvalid(c) ==
    /\ AtActivePolicy(c)
    /\ \E a \in Answers : a.kind = "decision" /\ a.outcome = "Invalid"
    /\ Deny(c, "EvaluationError", "ErrInvalidOutcome")

EvaluatorDecides(c) ==
    /\ AtActivePolicy(c)
    /\ \E a \in Answers :
         /\ a.kind = "decision" /\ a.outcome # "Invalid"
         /\ RecordDecision(c, [outcome |-> a.outcome, reason |-> "Policy",
                               by |-> CurrentPolicy(c).id, matched |-> a.matched,
                               matchedTruncated |-> a.matchedTruncated])

(* What decide returns after the loop.                                     *)
Decided(c) ==
    LET f == frame[c]
        combined == Combine(snap[c].algorithm, f.decisions)
        d == combined.decision
        default == d.outcome = "NotApplicable"
    IN  IF combined.err # "none"
        THEN DenyResult(snap[c].revision, "EvaluationError", combined.err)
        ELSE [outcome |-> IF default THEN "Deny" ELSE d.outcome,
              reason |-> IF default THEN "DefaultDeny" ELSE d.reason,
              by |-> d.by, err |-> "none", revision |-> snap[c].revision,
              matched |-> f.matched, matchedTruncated |-> f.matchedTruncated,
              trace |-> f.trace, traceTruncated |-> f.traceTruncated]

CombineDecisions(c) ==
    /\ pc[c] = "policies"
    /\ LoopEnded(c)
    /\ ReturnResult(c, Decided(c))

FinishCall(c) ==
    /\ pc[c] = "requests"
    /\ Len(results[c]) = Len(batch[c])
    /\ pc' = [pc EXCEPT ![c] = "done"]
    /\ UNCHANGED <<ctxDone, batch, snap, frame, results, evidence, writeVars, clock>>

CallStep(c) ==
    \/ RejectRequest(c) \/ CanceledAtStart(c) \/ StartRequest(c)
    \/ CanceledAtPolicy(c) \/ SkipInactive(c) \/ EvaluatorFails(c)
    \/ EvaluatorInvalid(c) \/ EvaluatorDecides(c) \/ CombineDecisions(c)
    \/ FinishCall(c)

-----------------------------------------------------------------------------
(* ReplaceSnapshot                                                         *)

(* Nil and oversize snapshots are refused before the lock is taken.        *)
RefuseSnapshot(w) ==
    /\ writer[w].pc = "idle"
    /\ \E next \in Candidates \cup {NilSnapshot} :
         /\ IF next = NilSnapshot THEN TRUE ELSE Len(next.policies) > MaxPolicies
         /\ writer' = [writer EXCEPT ![w] =
              [IdleWriter EXCEPT !.err =
                 IF next = NilSnapshot THEN "ErrNilSnapshot" ELSE "ErrPolicyLimitExceeded"]]
    /\ UNCHANGED <<active, replaceMu, installed, callVars, clock>>

OfferSnapshot(w) ==
    /\ writer[w].pc = "idle"
    /\ \E next \in Candidates, expected \in {s.revision : s \in Candidates \cup {InitialSnapshot}} :
         /\ Len(next.policies) <= MaxPolicies
         /\ writer' = [writer EXCEPT ![w] =
              [IdleWriter EXCEPT !.pc = "waiting", !.next = next, !.expected = expected]]
    /\ UNCHANGED <<active, replaceMu, installed, callVars, clock>>

(* Variant with a mistake: the load is not paired with the store.          *)
LoadUnlocked(w) ==
    /\ writer[w].pc = "waiting"
    /\ writer' = [writer EXCEPT ![w].pc = "locked", ![w].current = active]
    /\ UNCHANGED <<active, replaceMu, installed, callVars, clock>>

(* replaceMu.Lock(), then the load of the current snapshot.                *)
LockAndLoad(w) ==
    /\ writer[w].pc = "waiting"
    /\ replaceMu = NoWriter
    /\ replaceMu' = w
    /\ writer' = [writer EXCEPT ![w].pc = "locked", ![w].current = active]
    /\ UNCHANGED <<active, installed, callVars, clock>>

(* The deferred Unlock and the return of err.                              *)
Unlock(w, err) ==
    /\ replaceMu' = NoWriter
    /\ writer' = [writer EXCEPT ![w] = [IdleWriter EXCEPT !.err = err]]
    /\ UNCHANGED <<callVars, clock>>

(* Variant with a mistake: a conflict returns without unlocking.           *)
RefuseRevisionLocked(w) ==
    /\ writer[w].pc = "locked"
    /\ writer[w].current.revision # writer[w].expected
    /\ writer' = [writer EXCEPT ![w] = [IdleWriter EXCEPT !.err = "ErrRevisionConflict"]]
    /\ UNCHANGED <<active, replaceMu, installed, callVars, clock>>

RefuseRevision(w) ==
    LET current == writer[w].current IN
    /\ writer[w].pc = "locked"
    /\ \/ /\ current.revision # writer[w].expected
          /\ Unlock(w, "ErrRevisionConflict")
       \/ /\ current.revision = writer[w].expected
          /\ writer[w].next.revision <= current.revision
          /\ Unlock(w, "ErrRevisionNotMonotonic")
    /\ UNCHANGED <<active, installed>>

StoreSnapshot(w) ==
    LET current == writer[w].current
        next == writer[w].next IN
    /\ writer[w].pc = "locked"
    /\ current.revision = writer[w].expected
    /\ next.revision > current.revision
    /\ active' = next
    /\ installed' = Append(installed, [expected |-> writer[w].expected,
                                       revision |-> next.revision])
    /\ Unlock(w, "none")

WriteStep(w) ==
    LockAndLoad(w) \/ RefuseRevision(w) \/ StoreSnapshot(w)

-----------------------------------------------------------------------------
(* The environment                                                         *)

CancelContext(c) ==
    /\ ~ctxDone[c]
    /\ pc[c] # "done"
    /\ ctxDone' = [ctxDone EXCEPT ![c] = TRUE]
    /\ UNCHANGED <<pc, batch, snap, frame, results, evidence, writeVars, clock>>

(* A wall clock may be set forward or back.                                *)
SetClock ==
    /\ clock' \in 1..MaxTime
    /\ UNCHANGED <<callVars, writeVars>>

Next ==
    \/ \E c \in Callers : RejectBatch(c) \/ Capture(c) \/ CallStep(c) \/ CancelContext(c)
    \/ \E w \in Writers : RefuseSnapshot(w) \/ OfferSnapshot(w) \/ WriteStep(w)
    \/ SetClock

Spec == Init /\ [][Next]_vars

(* Goroutines that can run are scheduled and evaluators return; the Go     *)
(* mutex hands over to a waiter that has been passed over (starvation      *)
(* mode), hence strong fairness for the writers' steps.                    *)
FairSpec ==
    /\ Spec
    /\ \A c \in Callers : WF_vars(CallStep(c))
    /\ \A w \in Writers : SF_vars(WriteStep(w))

-----------------------------------------------------------------------------
(* Properties                                                              *)

WriterRecord == [pc: {"idle", "waiting", "locked"},
                 next: SnapshotRecord \cup {NilSnapshot}, expected: Nat,
                 current: SnapshotRecord,
                 err: {"none", "ErrNilSnapshot", "ErrPolicyLimitExceeded",
                       "ErrRevisionConflict", "ErrRevisionNotMonotonic"}]

(* Every variable keeps its type; in particular no result of decide has an *)
(* outcome other than Allow and Deny.                                      *)
TypeOK ==
    /\ active \in SnapshotRecord
    /\ replaceMu \in Writers \cup {NoWriter}
    /\ writer \in [Writers -> WriterRecord]
    /\ installed \in Seq([expected: Nat, revision: Nat])
    /\ pc \in [Callers -> {"idle", "requests", "policies", "done"}]
    /\ ctxDone \in [Callers -> BOOLEAN]
    /\ batch \in [Callers -> Seq(Request)]
    /\ snap \in [Callers -> SnapshotRecord]
    /\ frame \in [Callers -> Frame]
    /\ results \in [Callers -> Seq(Result)]
    /\ evidence \in [Callers -> Seq(Frame)]
    /\ clock \in Nat

(* Engine.Decide and DecideBatch answer from the one snapshot they loaded: *)
(* every decision of a call carries its revision and explains itself with  *)
(* a prefix of its policies, in order, however many replacements ran.      *)
AnswersFromOneSnapshot ==
    \A c \in Callers : \A i \in DOMAIN results[c] :
        LET r == results[c][i] IN
        /\ r.revision = snap[c].revision
        /\ Len(r.trace) <= Len(snap[c].policies)
        /\ \A k \in DOMAIN r.trace : r.trace[k].id = snap[c].policies[k].id

(* decide grants only on an explicit allow, and past no policy that did    *)
(* not answer: an Allow carries no error and the reason of a policy of the *)
(* captured snapshot that answered Allow in this very call, every active   *)
(* policy consulted for it answered itself, and one whose window excludes  *)
(* the request's instant contributed nothing.                              *)
AllowIsExplicit ==
    \A c \in Callers : \A i \in DOMAIN results[c] :
        results[c][i].outcome = "Allow" =>
            LET policies == snap[c].policies
                decisions == evidence[c][i].decisions
                Active(k) == ActiveAt(policies[k], evidence[c][i].at)
            IN  /\ results[c][i].err = "none"
                /\ Len(decisions) <= Len(policies)
                /\ \A k \in DOMAIN decisions :
                     IF Active(k) THEN decisions[k].by = policies[k].id
                                  ELSE decisions[k].outcome = "NotApplicable"
                /\ \E k \in DOMAIN decisions :
                     /\ Active(k) /\ decisions[k].outcome = "Allow"
                     /\ results[c][i].by = policies[k].id

(* The composition table of docs/decision-tables.md, by the policies'      *)
(* priorities and not by their positions for PriorityOrder.                *)
TableOutcome(algorithm, policies, outcome) ==
    LET seen == {outcome[i] : i \in DOMAIN outcome}
        applicable == {i \in DOMAIN outcome : outcome[i] # "NotApplicable"}
        first == CHOOSE i \in applicable : \A j \in applicable : i <= j
        highest == CHOOSE i \in applicable : \A j \in applicable :
                     \/ policies[i].priority > policies[j].priority
                     \/ /\ policies[i].priority = policies[j].priority
                        /\ policies[i].id <= policies[j].id
    IN  CASE applicable = {} -> "NotApplicable"
          [] applicable # {} /\ algorithm = "DenyOverrides" ->
                IF "Deny" \in seen THEN "Deny" ELSE "Allow"
          [] applicable # {} /\ algorithm = "AllowOverrides" ->
                IF "Allow" \in seen THEN "Allow" ELSE "Deny"
          [] applicable # {} /\ algorithm = "FirstApplicable" -> outcome[first]
          [] applicable # {} /\ algorithm = "PriorityOrder" -> outcome[highest]

(* The short-circuit of isDecisive changes no decision: whatever the       *)
(* policies that were not called would have answered, a decision without   *)
(* error is the table's, with NotApplicable turned into Deny.              *)
ShortCircuitIsSound ==
    \A c \in Callers : \A i \in DOMAIN results[c] :
        results[c][i].err = "none" =>
            LET policies == snap[c].policies
                called == evidence[c][i].decisions
            IN  \A rest \in [(Len(called) + 1)..Len(policies) -> ValidOutcomes] :
                  LET all == [k \in DOMAIN policies |->
                                IF k <= Len(called) THEN called[k].outcome ELSE rest[k]]
                  IN  (results[c][i].outcome = "Allow")
                        <=> (TableOutcome(snap[c].algorithm, policies, all) = "Allow")

(* Two policies that hand over to each other at one instant: exactly one   *)
(* of them takes part in any decision that consulted both, since decide    *)
(* judges all activation windows at one instant, although the clock moves. *)
HandoverLeavesNoGap ==
    \A c \in Callers : \A i \in DOMAIN evidence[c] :
        LET decisions == evidence[c][i].decisions
            policies == snap[c].policies
            Skipped(k) == decisions[k].reason = "PolicyInactive" IN
        \A j, k \in DOMAIN decisions :
            /\ policies[j].activeFrom = 0 /\ policies[j].activeUntil # 0
            /\ policies[k].activeFrom = policies[j].activeUntil
            /\ policies[k].activeUntil = 0
            => Skipped(j) # Skipped(k)

(* Diagnostics are bounded and say so: trace and matched IDs stay within   *)
(* MaxTraceSize and MaxMatchedPolicyIDs, and a decision whose truncation   *)
(* flags are clear has a trace entry for every policy consulted and every  *)
(* matched ID that was contributed.                                        *)
TruncationIsHonest ==
    \A c \in Callers : \A i \in DOMAIN results[c] :
        LET r == results[c][i]
            consulted == evidence[c][i].decisions
            applied == {k \in DOMAIN consulted : consulted[k].outcome # "NotApplicable"}
            Contributed(k) == IF consulted[k].matched = <<>> THEN {snap[c].policies[k].id}
                              ELSE Range(consulted[k].matched) IN
        /\ Len(r.trace) <= MaxTraceSize
        /\ Len(r.matched) <= MaxMatchedPolicyIDs
        /\ r.err = "none" =>
             /\ r.traceTruncated <=> Len(consulted) > Len(r.trace)
             /\ ~r.matchedTruncated =>
                  /\ \A k \in applied : ~consulted[k].matchedTruncated
                  /\ Range(r.matched) = UNION {Contributed(k) : k \in applied}

(* Of the writers that expect the same revision, ReplaceSnapshot lets at   *)
(* most one in: accepted stores have distinct expectations.                *)
OneWinnerPerExpectation ==
    \A i, j \in DOMAIN installed :
        installed[i].expected = installed[j].expected => i = j

(* The active revision never goes back and never repeats: a step that      *)
(* changes the active snapshot installs a greater revision.                *)
RevisionsOnlyAdvance ==
    [][active' # active => active'.revision > active.revision]_vars

(* What a caller of the engine can tell: the answers of its call.          *)
Answered(rs) == [i \in DOMAIN rs |-> [outcome |-> rs[i].outcome, revision |-> rs[i].revision]]

Promise == INSTANCE DecisionPoint WITH
    Snapshots <- Candidates, loaded <- snap,
    answers <- [c \in Callers |-> Answered(results[c])]

(* The engine implements DecisionPoint: policy by policy evaluation,       *)
(* cancellation, failing evaluators and the locked check and store of      *)
(* ReplaceSnapshot look to callers like one load, answers from what was    *)
(* loaded, and atomic installs of greater revisions.                       *)
ImplementsDecisionPoint == Promise!Spec

(* Every call that captured a snapshot returns, with one result per        *)
(* request, and every writer waiting for replaceMu gets its answer, also   *)
(* behind a refused replacement, a panic or a canceled batch.              *)
EveryOperationReturns ==
    /\ \A c \in Callers :
        (pc[c] = "requests") ~> (pc[c] = "done" /\ Len(results[c]) = Len(batch[c]))
    /\ \A w \in Writers : (writer[w].pc = "waiting") ~> (writer[w].pc = "idle")

=============================================================================
