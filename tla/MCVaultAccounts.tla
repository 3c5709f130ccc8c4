-------------------------- MODULE MCVaultAccounts --------------------------
(* Small instances of VaultAccounts for TLC. *)
EXTENDS VaultAccounts, TLC

CONSTANTS w1, w2, order1

OneOrder == {order1}
TwoIds == {w1, w2}
IdSymmetry == Permutations(TwoIds)
=============================================================================
