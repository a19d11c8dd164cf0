--------------------------- MODULE MCAuthSession ----------------------------
(* Instances of AuthSession for TLC.                                       *)
EXTENDS AuthSession, TLC

Symmetry == Permutations(Nonce) \cup Permutations(Session) \cup Permutations(Request)
=============================================================================
