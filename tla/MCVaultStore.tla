---------------------------- MODULE MCVaultStore -----------------------------
(* Instances of VaultStore for TLC.                                        *)
EXTENDS VaultStore, TLC

Skills == {"save", "execute"}

Symmetry == Permutations(Account) \cup Permutations(Ident) \cup Permutations(Text)
              \cup Permutations(Blob) \cup Permutations(Request)
=============================================================================
