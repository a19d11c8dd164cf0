--------------------------- MODULE MCUserAccounts ----------------------------
(* Instances of UserAccounts for TLC.                                      *)
EXTENDS UserAccounts, TLC

AllOps == {"register", "generate", "subscribe", "write"}
NoKeyOps == {"register", "subscribe", "write"}

(* Plans of one and two units: the third shares the limit of the second.   *)
TwoLimits == [t \in Tier |-> IF t = "free" THEN 1 ELSE 2]

Symmetry == Permutations(Account) \cup Permutations(Key) \cup Permutations(Request)
=============================================================================
