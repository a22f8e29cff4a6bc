---------------------------- MODULE ModelDecision ----------------------------
(***************************************************************************)
(* What the RBAC, ACL and ABAC evaluators share: how matches become a      *)
(* decision, and tenant scopes.  Names are naturals, 0 the empty string.   *)
(***************************************************************************)
EXTENDS Naturals, Sequences, FiniteSetsExt, Functions

(* Only positive limits replace the defaults.                              *)
WithLimits(defaults, limits) ==
    [f \in DOMAIN defaults |-> IF limits[f] > 0 THEN limits[f] ELSE defaults[f]]

Undecided == [outcome |-> "NotApplicable", reason |-> "", matched |-> <<>>, err |-> "none"]

(* Errors deny and discard what was matched before.                        *)
Refused(err) ==
    [outcome |-> "Deny",
     reason |-> IF err = "ContextError" THEN "ContextCanceled" ELSE "LimitExceeded",
     matched |-> <<>>, err |-> err]

(* Variant with a mistake: the last match decides.                         *)
MatchLast(decision, id, effect, maxMatches) ==
    IF Len(decision.matched) >= maxMatches THEN Refused("ErrMatchLimitExceeded")
    ELSE [decision EXCEPT !.matched = Append(@, id), !.outcome = effect,
                          !.reason = IF effect = "Deny" THEN "ExplicitDeny" ELSE "Allow"]

(* One more match: a deny wins, the first allow counts.                    *)
Match(decision, id, effect, maxMatches) ==
    IF Len(decision.matched) >= maxMatches THEN Refused("ErrMatchLimitExceeded")
    ELSE [decision EXCEPT
            !.matched = Append(@, id),
            !.outcome = IF effect = "Deny" \/ @ = "NotApplicable" THEN effect ELSE @,
            !.reason = IF effect = "Deny" THEN "ExplicitDeny" ELSE IF @ = "" THEN "Allow" ELSE @]

(* The loop over matching entries, which an error ends.                    *)
MatchAll(entries, maxMatches) ==
    LET after[i \in 0..Len(entries)] ==
            IF i = 0 THEN Undecided
            ELSE IF after[i-1].err # "none" THEN after[i-1]
            ELSE Match(after[i-1], entries[i].id, entries[i].effect, maxMatches)
    IN  after[Len(entries)]

(* A loop over a list that calls f with what it has so far.                *)
Loop(f, start, list) ==
    LET after[i \in 0..Len(list)] == IF i = 0 THEN start ELSE f[<<after[i-1], list[i]>>]
    IN  after[Len(list)]

(* A loop that passes over the elements of a list outside S.               *)
Filtered(list, S) ==
    LET after[i \in 0..Len(list)] ==
            IF i = 0 THEN <<>>
            ELSE IF list[i] \in S THEN Append(after[i-1], list[i])
            ELSE after[i-1]
    IN  after[Len(list)]

(* The same tenant, or a global policy where it is inherited.              *)
MatchesTenant(inheritGlobal, policyTenant, requestTenant) ==
    policyTenant = requestTenant \/ (inheritGlobal /\ policyTenant = 0 /\ requestTenant # 0)

(* The subject and its groups.                                             *)
Principals(subject) ==
    {<<subject.kind, subject.id>>} \cup {<<"group", g>> : g \in Range(subject.groups)}

=============================================================================
