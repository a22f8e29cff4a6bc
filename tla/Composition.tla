----------------------------- MODULE Composition -----------------------------
(***************************************************************************)
(* Outcomes and their composition: decision.go (Outcome, Decision,         *)
(* CombiningAlgorithm, Combine) and isDecisive of engine.go.               *)
(*                                                                         *)
(* A Decision keeps what the engine and its callers tell apart.  `by` is   *)
(* the policy whose evaluator wrote the decision's reason text (NoPolicy   *)
(* for a reason of the engine's own), `reason` the engine's reason code,   *)
(* with "Policy" for any text an evaluator chose.                          *)
(***************************************************************************)
EXTENDS Naturals, Sequences, FiniteSetsExt

NoPolicy == 0

(* Outcome is a uint8: "Invalid" stands for every value above Deny.        *)
ValidOutcomes == {"NotApplicable", "Allow", "Deny"}
Outcomes == ValidOutcomes \cup {"Invalid"}

Algorithms ==
    {"DenyOverrides", "AllowOverrides", "FirstApplicable", "PriorityOrder"}

Reasons == {"", "Policy", "PolicyInactive", "DefaultDeny", "InvalidRequest",
            "ContextCanceled", "EvaluationError"}

(* What one policy contributes to a decision, once its outcome is checked. *)
PolicyDecision == [outcome: ValidOutcomes, reason: Reasons, by: Nat,
                   matched: Seq(Nat), matchedTruncated: BOOLEAN]

NotApplicableDecision ==
    [outcome |-> "NotApplicable", reason |-> "", by |-> NoPolicy,
     matched |-> <<>>, matchedTruncated |-> FALSE]

(* An outcome that ends the evaluation under the algorithm.                *)
IsDecisive(algorithm, outcome) ==
    \/ algorithm = "DenyOverrides" /\ outcome = "Deny"
    \/ algorithm = "AllowOverrides" /\ outcome = "Allow"
    \/ /\ algorithm \in {"FirstApplicable", "PriorityOrder"}
       /\ outcome # "NotApplicable"

(* The decision the loop of Combine selects: the first decisive one, else  *)
(* the last applicable one, else NotApplicable.                            *)
Select(algorithm, decisions) ==
    LET decisive == {i \in 1..Len(decisions) : IsDecisive(algorithm, decisions[i].outcome)}
        applicable == {i \in 1..Len(decisions) : decisions[i].outcome # "NotApplicable"}
    IN  CASE decisive # {} -> decisions[Min(decisive)]
          [] decisive = {} /\ applicable # {} -> decisions[Max(applicable)]
          [] OTHER -> NotApplicableDecision

Combine(algorithm, decisions) ==
    LET err == IF algorithm \notin Algorithms THEN "ErrInvalidCombiningAlgorithm"
               ELSE IF \E i \in DOMAIN decisions : decisions[i].outcome = "Invalid"
               THEN "ErrInvalidOutcome" ELSE "none"
    IN  [err |-> err,
         decision |-> IF err = "none" THEN Select(algorithm, decisions)
                                      ELSE NotApplicableDecision]

=============================================================================
