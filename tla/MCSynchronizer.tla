---------------------------- MODULE MCSynchronizer ----------------------------
(* Instances of Synchronizer for TLC.                                      *)
EXTENDS Synchronizer

(* Faults under which reloads must not fail because of each other.         *)
RepositoryFaults == {"outage", "badManifest"}

(* Faults under which the age of what is served is bounded: all, except    *)
(* that the clock does not go back.  Manifests that are refused leave the  *)
(* engine as an outage does; the other instance has them.                  *)
AgeFaults == {"outage", "rollback", "otherWriter", "aheadHint"}

=============================================================================
