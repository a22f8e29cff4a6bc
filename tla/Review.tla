-------------------------------- MODULE Review --------------------------------
(***************************************************************************)
(* What a reviewer of a candidate is shown: Diff and DryRun of             *)
(* policy/policy.go.  A view is a compiled snapshot with its evaluators,   *)
(* here functions from a request to what Evaluate returns, of outcome      *)
(* "error" where that is an error; requests carry their time.  Engines     *)
(* that nobody replaces decide as Engine does; Decide is that decision in  *)
(* one step.                                                               *)
(***************************************************************************)
EXTENDS Snapshot

CONSTANTS
    NilView,                               \* the nil *Snapshot
    MaxEnginePolicies, MaxBatchSize,       \* the default limits of the engines
    MaxMatchedPolicyIDs                    \*   DryRun creates

-----------------------------------------------------------------------------
(* Diff                                                                    *)

(* Variant with a mistake: the end of the window is forgotten.             *)
PolicyInfoEqualOpenEnded(p, q) ==
    p.revision = q.revision /\ p.priority = q.priority /\ p.activeFrom = q.activeFrom

(* policyInfoEqual; metadata decides nothing and is left out.              *)
PolicyInfoEqual(p, q) ==
    /\ p.revision = q.revision /\ p.priority = q.priority
    /\ p.activeFrom = q.activeFrom /\ p.activeUntil = q.activeUntil

(* indexPolicies: IDs are unique in a snapshot.                            *)
IndexPolicies(policies) ==
    [id \in {policies[i].id : i \in DOMAIN policies} |->
        CHOOSE p \in Range(policies) : p.id = id]

(* The sorted ID lists of the report are sets here.                        *)
Diff(current, candidate) ==
    IF current = NilView \/ candidate = NilView
    THEN [err |-> "ErrNilSnapshot", algorithmChanged |-> FALSE,
          removed |-> {}, changed |-> {}, added |-> {}]
    ELSE LET old == IndexPolicies(current.snapshot.policies)
             new == IndexPolicies(candidate.snapshot.policies) IN
         [err |-> "none",
          algorithmChanged |-> current.snapshot.algorithm # candidate.snapshot.algorithm,
          removed |-> DOMAIN old \ DOMAIN new,
          changed |-> {id \in DOMAIN old \cap DOMAIN new : ~PolicyInfoEqual(old[id], new[id])},
          added |-> DOMAIN new \ DOMAIN old]

-----------------------------------------------------------------------------
(* DryRun                                                                  *)

Failure(reason, err) == [outcome |-> "Deny", reason |-> reason, matched |-> <<>>,
                         matchedTruncated |-> FALSE, err |-> err]

(* What policy i of the view contributes to the request: the evaluator's   *)
(* outcome and reason, which policies may share, and the IDs it names or   *)
(* else the policy's own.                                                  *)
Contribution(view, request, i) ==
    LET policy == view.snapshot.policies[i]
        said == view.says[policy.id][request.name] IN
    IF ~ActiveAt(policy, request.time)
    THEN [NotApplicableDecision EXCEPT !.reason = "PolicyInactive"]
    ELSE [NotApplicableDecision EXCEPT
            !.outcome = said.outcome, !.reason = said.reason,
            !.matched = IF said.matched = <<>> THEN <<policy.id>> ELSE said.matched,
            !.matchedTruncated = said.matchedTruncated]

(* The decisions of the loop of decide, which ends with the first policy   *)
(* that fails or decides.                                                  *)
Consulted(algorithm, contributions) ==
    LET ending == {i \in DOMAIN contributions :
                      \/ contributions[i].outcome = "error"
                      \/ IsDecisive(algorithm, contributions[i].outcome)}
    IN  SubSeq(contributions, 1, IF ending = {} THEN Len(contributions) ELSE Min(ending))

(* The IDs of the policies that applied, up to MaxMatchedPolicyIDs, and    *)
(* whether any were left out, here or by an evaluator.                     *)
Matched(decisions) ==
    LET applied == SelectSeq(decisions, LAMBDA d : d.outcome # "NotApplicable")
        ids == MapThenFoldSet(LAMBDA own, later : own \o later, <<>>,
                              LAMBDA i : applied[i].matched, Min, DOMAIN applied)
    IN  [ids |-> SubSeq(ids, 1, Min({Len(ids), MaxMatchedPolicyIDs})),
         truncated |-> \/ Len(ids) > MaxMatchedPolicyIDs
                       \/ \E i \in DOMAIN applied : applied[i].matchedTruncated]

(* decide, of what the policies contribute.                                *)
Compose(algorithm, contributions) ==
    LET decisions == Consulted(algorithm, contributions)
        d == Combine(algorithm, decisions).decision
        default == d.outcome = "NotApplicable"
    IN  IF \E i \in DOMAIN decisions : decisions[i].outcome = "error"
        THEN Failure("EvaluationError", "PolicyEvaluationError")
        ELSE [outcome |-> IF default THEN "Deny" ELSE d.outcome,
              reason |-> IF default THEN "DefaultDeny" ELSE d.reason,
              matched |-> Matched(decisions).ids,
              matchedTruncated |-> Matched(decisions).truncated, err |-> "none"]

Decide(view, request) ==
    Compose(view.snapshot.algorithm,
            [i \in DOMAIN view.snapshot.policies |-> Contribution(view, request, i)])

(* Decisions of a batch; the context ends after `alive` of them.           *)
DecideBatch(view, requests, alive) ==
    [i \in DOMAIN requests |->
        IF i <= alive THEN Decide(view, requests[i])
        ELSE Failure("ContextCanceled", "ContextError")]

DecisionsDiffer(left, right) ==
    \/ left.outcome # right.outcome
    \/ left.reason # right.reason
    \/ left.matched # right.matched
    \/ left.matchedTruncated # right.matchedTruncated

(* Before anything is decided: DryRun's own checks, NewEngine's of the two *)
(* snapshots, DecideBatch's of the batch.                                  *)
DryRunError(current, candidate, requests) ==
    IF current = NilView \/ candidate = NilView THEN "ErrNilSnapshot"
    ELSE IF \/ Len(current.snapshot.policies) > MaxEnginePolicies
            \/ Len(candidate.snapshot.policies) > MaxEnginePolicies
         THEN "ErrPolicyLimitExceeded"
    ELSE IF Len(requests) > MaxBatchSize THEN "ErrBatchLimitExceeded" ELSE "none"

(* The current view is asked first.                                        *)
DryRun(current, candidate, requests, alive) ==
    LET n == Len(requests)
        err == DryRunError(current, candidate, requests)
        before == DecideBatch(current, requests, alive)
        after == DecideBatch(candidate, requests, alive - n)
    IN  IF err # "none" THEN [err |-> {err}, decisions |-> <<>>]
        ELSE [err |-> ({before[i].err : i \in 1..n} \cup {after[i].err : i \in 1..n}) \ {"none"},
              decisions |-> [i \in 1..n |-> [current |-> before[i], candidate |-> after[i],
                                             changed |-> DecisionsDiffer(before[i], after[i])]]]

=============================================================================
