---------------------------- MODULE MCLocalClient ----------------------------
(* Small instances of LocalClient for TLC. *)
EXTENDS LocalClient, TLC

CONSTANTS c1, c2, d1, left, right

TwoTabs == {left, right}
OwnTwo == {c1, c2}
ThreeIds == {c1, c2, d1}
NoOrderIds == {}
TabSymmetry == Permutations(TwoTabs) \cup Permutations(OwnTwo)

\* A deposit is always allowed; the withdrawal only when there is something
\* to withdraw, and cancelling needs a withdrawal that waits.
SomeCommands == {[type |-> "deposit", amount |-> 2], [type |-> "requestWithdrawal", amount |-> 1]}
=============================================================================
