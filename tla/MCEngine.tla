------------------------------ MODULE MCEngine ------------------------------
(***************************************************************************)
(* Small instances of Engine for TLC.                                      *)
(***************************************************************************)
EXTENDS Engine, TLC

Def(id, priority, from, until) ==
    [id |-> id, evaluator |-> TRUE, revision |-> 0, priority |-> priority,
     activeFrom |-> from, activeUntil |-> until]

Arguments(revision, algorithm, definitions) ==
    [revision |-> revision, algorithm |-> algorithm, definitions |-> definitions]

Ask(time) == [valid |-> TRUE, time |-> time]
BadRequest == [valid |-> FALSE, time |-> 0]

Says(outcome) == [kind |-> "decision", outcome |-> outcome, matched |-> <<>>,
                  matchedTruncated |-> FALSE]
Fails(kind) == [Says("NotApplicable") EXCEPT !.kind = kind]
SaysWith(outcome, matched, truncated) ==
    [Says(outcome) EXCEPT !.matched = matched, !.matchedTruncated = truncated]

-----------------------------------------------------------------------------
(* Composition: one caller, one request, every algorithm over three        *)
(* policies of different priorities defined out of priority order, one of  *)
(* them active only before instant 2.                                      *)

ThreePolicies == <<Def(1, 0, 0, 0), Def(2, 5, 0, 0), Def(3, 5, 0, 2)>>
OneOfEach == {Arguments(2, algorithm, ThreePolicies) : algorithm \in Algorithms}
NoPolicies == Arguments(1, "DenyOverrides", <<>>)
SingleRequests == {<<Ask(0)>>, <<BadRequest>>}
AllAnswers ==
    {Says(o) : o \in Outcomes} \cup {Fails("error"), Fails("panic")}
      \cup {SaysWith("Allow", <<7, 8>>, FALSE), SaysWith("Deny", <<7>>, TRUE)}

-----------------------------------------------------------------------------
(* Replacement: batches of two and an oversize one against two writers.    *)

HandingOver(revision) ==
    Arguments(revision, "DenyOverrides", <<Def(1, 0, 0, 2), Def(2, 0, 2, 0)>>)
Oversize == Arguments(2, "DenyOverrides", ThreePolicies)
ReplacementCandidates ==
    {Arguments(1, "FirstApplicable", <<Def(1, 0, 0, 0)>>), HandingOver(2), Oversize}
Batches2 == {<<Ask(0), Ask(1)>>, <<Ask(0), Ask(0), Ask(0)>>}
PlainAnswers == {Says("Allow"), Fails("panic")}

=============================================================================
