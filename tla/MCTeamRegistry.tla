--------------------------- MODULE MCTeamRegistry ---------------------------
(* Instances of TeamRegistry for TLC.                                     *)
EXTENDS TeamRegistry, TLC

Symmetry == Permutations(Account) \cup Permutations(Request)
AllOps == Op
OpsAddRemove == {"create", "add_member", "remove_member"}
=============================================================================
