----------------------------- MODULE EarlyReturn -----------------------------
(***************************************************************************)
(* A ladder of checks that return at the first one that fails, the shape   *)
(* of every validating function of the repository.                         *)
(***************************************************************************)
EXTENDS Sequences, FiniteSetsExt

(* checks is a sequence of pairs <<the check fails, the error returned>>.  *)
FirstError(checks) ==
    LET failing == {i \in 1..Len(checks) : checks[i][1]}
    IN  IF failing = {} THEN "none" ELSE checks[Min(failing)][2]

(* A loop over 1..n that returns at the first index with an error.         *)
FirstFailure(n, Err(_)) ==
    LET failing == {i \in 1..n : Err(i) # "none"}
    IN  IF failing = {} THEN "none" ELSE Err(Min(failing))

=============================================================================
