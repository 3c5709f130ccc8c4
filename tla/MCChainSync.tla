----------------------------- MODULE MCChainSync -----------------------------
(* Small instances of ChainSync for TLC. *)
EXTENDS ChainSync, TLC

CONSTANTS d, a1, a2, b1, b2, e, t, u, p, q, o1

Event(tx, index, payload) == [tx |-> tx, index |-> index, payload |-> payload]

\* Two forks above the deployment block, and a chain e that shares nothing
\* with them.  Transaction t succeeds in a1 and reverts in b1; u emits another
\* payload and has another log index on the second fork.
ForkBlocks == {d, a1, a2, b1, b2, e}
ForkParent == d :> NoBlock @@ a1 :> d @@ a2 :> a1 @@ b1 :> d @@ b2 :> b1 @@ e :> NoBlock
ForkHeight == d :> 0 @@ a1 :> 1 @@ a2 :> 2 @@ b1 :> 1 @@ b2 :> 2 @@ e :> 0
ForkLogs ==
    d :> {} @@ e :> {} @@ b1 :> {}
    @@ a1 :> {Event(t, 0, "x")} @@ a2 :> {Event(u, 0, "x")} @@ b2 :> {Event(u, 1, "y")}
ForkReverts == [b \in ForkBlocks |-> IF b = b1 THEN {t} ELSE {}]

TwoOwners == {p, q}
OneOwner == {p}
OwnerSymmetry == Permutations(TwoOwners)

NoOps == {}
NoOpTx == <<>>

OneOp == {o1}
OneOpTx == o1 :> t
OneOpClaim == o1 :> "genuine"

\* Transaction t is below the fork.
LowBlocks == {d, a1, a2, b1, b2}
LowParent == d :> NoBlock @@ a1 :> d @@ a2 :> a1 @@ b1 :> d @@ b2 :> b1
LowHeight == d :> 0 @@ a1 :> 1 @@ a2 :> 2 @@ b1 :> 1 @@ b2 :> 2
LowLogs == [b \in LowBlocks |-> IF b = d THEN {Event(t, 0, "x")} ELSE {}]
LowReverts == [b \in LowBlocks |-> {}]
=============================================================================
