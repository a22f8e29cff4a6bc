---------------------------- MODULE StoredPolicy -----------------------------
(***************************************************************************)
(* What the policy store promises to publishers and to the nodes that load *)
(* it: the stored revision only advances, and a publisher is told of a     *)
(* revision only once it is stored.                                        *)
(***************************************************************************)
EXTENDS Naturals

CONSTANT MaxRevision   \* bound on the revisions publishers choose

VARIABLES
    stored,  \* the revision of the stored manifest, 0 before the first
    acked    \* stored revisions some publisher was told of and has not published

storedVars == <<stored, acked>>

StoredInit ==
    /\ stored = 0
    /\ acked = {}

Advance(r) ==
    /\ r > stored
    /\ stored' = r
    /\ UNCHANGED acked

Acknowledge(r) ==
    /\ r <= stored
    /\ acked' = acked \cup {r}
    /\ UNCHANGED stored

(* The publisher is done with the revision, or its process ends.           *)
Abandon(r) ==
    /\ acked' = acked \ {r}
    /\ UNCHANGED stored

StoredNext == \E r \in 1..MaxRevision : Advance(r) \/ Acknowledge(r) \/ Abandon(r)

StoredSpec == StoredInit /\ [][StoredNext]_storedVars

(* Types of the two variables.                                             *)
StoredTypeOK ==
    /\ stored \in 0..MaxRevision
    /\ acked \subseteq 1..MaxRevision

=============================================================================
