---------------------------- MODULE DecisionPoint ----------------------------
(***************************************************************************)
(* What the engine promises, without its steps: a call loads the active    *)
(* snapshot once, answers any number of requests from it, and the active   *)
(* snapshot changes in one step and only to a greater revision.            *)
(***************************************************************************)
EXTENDS Naturals, Sequences

CONSTANTS Callers, Snapshots, InitialSnapshot

VARIABLES
    active,   \* the snapshot that new calls load
    loaded,   \* per caller: the snapshot its call answers from
    answers   \* per caller: outcome and revision of every answer so far

vars == <<active, loaded, answers>>

Init ==
    /\ active = InitialSnapshot
    /\ loaded = [c \in Callers |-> InitialSnapshot]
    /\ answers = [c \in Callers |-> <<>>]

Load(c) ==
    /\ answers[c] = <<>>
    /\ loaded' = [loaded EXCEPT ![c] = active]
    /\ UNCHANGED <<active, answers>>

(* A snapshot without policies grants nothing.                             *)
Reply(c) ==
    /\ \E outcome \in {"Allow", "Deny"} :
         /\ outcome = "Allow" => loaded[c].policies # <<>>
         /\ answers' = [answers EXCEPT ![c] =
              Append(@, [outcome |-> outcome, revision |-> loaded[c].revision])]
    /\ UNCHANGED <<active, loaded>>

Install ==
    /\ \E next \in Snapshots : next.revision > active.revision /\ active' = next
    /\ UNCHANGED <<loaded, answers>>

Next == Install \/ \E c \in Callers : Load(c) \/ Reply(c)

Spec == Init /\ [][Next]_vars

=============================================================================
