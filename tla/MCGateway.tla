------------------------------ MODULE MCGateway ------------------------------
(* An instance of Gateway for TLC: the engine starts without policies and  *)
(* may install two later snapshots.                                        *)
EXTENDS Gateway

Shot(revision, policies) == [revision |-> revision, policies |-> policies]
FirstShot == Shot(1, <<>>)
LaterShots == {Shot(2, <<1>>), Shot(3, <<1>>)}
MatchLists == {<<>>, <<1, 2>>}

=============================================================================
