------------------------------ MODULE MCRollout ------------------------------
(* An instance of Rollout for TLC.                                         *)
EXTENDS Rollout

(* An evaluator's reason tells the kind of its answer, not the policy.     *)
Said(outcome, matched, truncated) ==
    [outcome |-> outcome, reason |-> outcome, matched |-> matched, matchedTruncated |-> truncated]
Plainly(outcome) == Said(outcome, <<>>, FALSE)

(* Documents by ID and revision, the second revision of a policy answering *)
(* otherwise than the first.                                               *)
Answer ==
    [id \in 1..2 |-> [revision \in 1..2 |->
        CASE id = 1 /\ revision = 1 -> <<Plainly("Allow"), Plainly("NotApplicable")>>
          [] id = 1 /\ revision = 2 -> <<Said("Allow", <<1>>, TRUE), Plainly("error")>>
          [] id = 2 /\ revision = 1 -> <<Plainly("Deny"), Said("Allow", <<7, 8>>, FALSE)>>
          [] id = 2 /\ revision = 2 -> <<Plainly("NotApplicable"), Said("Allow", <<7, 8, 9>>, FALSE)>>]]

Doc(id, revision, bytes) ==
    [object |-> TRUE, writable |-> TRUE, bytes |-> bytes, laidOut |-> bytes + id - 1,
     decodes |-> "evaluator", relaid |-> "evaluator", says |-> Answer[id][revision]]

Sound(id, revision, priority, window) ==
    [id |-> id, revision |-> revision, model |-> "acl", priority |-> priority,
     from |-> window[1], until |-> window[2], document |-> Doc(id, revision, 2)]

(* Instants as they are written, and one that is written as another.       *)
At(t) == <<[at |-> t, written |-> t, writable |-> TRUE]>>
Drifting(t, written) == <<[at |-> t, written |-> written, writable |-> TRUE]>>
Unwritable == <<[at |-> 2, written |-> 2, writable |-> FALSE]>>

Always == <<<<>>, <<>>>>
UntilTwo == <<<<>>, At(2)>>

MCSoundRecords ==
    {Sound(id, 1, priority, window) : id \in 1..2, priority \in {-1, 4}, window \in {Always, UntilTwo}}
      \cup {Sound(id, 2, -1, Always) : id \in 1..2}

Plain == Sound(1, 1, -1, Always)

MCFlawedRecords ==
    {[Plain EXCEPT !.id = 0], [Plain EXCEPT !.revision = 0],
     [Plain EXCEPT !.model = "unknown"], [Plain EXCEPT !.model = "composite"],
     [Plain EXCEPT !.document.object = FALSE],
     [Plain EXCEPT !.document.bytes = 3], [Plain EXCEPT !.document.bytes = 4],
     [Plain EXCEPT !.document.decodes = "error"], [Plain EXCEPT !.document.decodes = "nil"],
     Sound(2, 1, 0, <<At(2), At(2)>>), Sound(2, 1, 0, <<At(0), At(0)>>),
     Sound(2, 1, 0, <<At(0), At(1)>>), Sound(2, 1, 0, <<At(2), <<>>>>),
     [Sound(2, 1, 0, Always) EXCEPT !.document.bytes = 3], [Plain EXCEPT !.id = 3]}
    \cup  \* what compiles but does not survive MarshalIndent as it is
    {[Plain EXCEPT !.id = 4], [Plain EXCEPT !.id = 5], [Plain EXCEPT !.document.writable = FALSE],
     [Plain EXCEPT !.document.laidOut = 1, !.document.relaid = "error"],
     [Plain EXCEPT !.document.laidOut = 4],
     Sound(2, 1, 0, <<Drifting(1, 2), At(2)>>), Sound(2, 1, 0, <<At(1), Drifting(2, 3)>>),
     Sound(2, 1, 0, <<Unwritable, <<>>>>)}

(* 4 and 5 are not UTF-8.                                                  *)
MCUTF8 == [id \in 0..6 |-> IF id \in {4, 5} THEN 6 ELSE id]

MCRequests == <<[name |-> 1, time |-> 1], [name |-> 2, time |-> 2]>>

=============================================================================
