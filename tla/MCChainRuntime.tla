--------------------------- MODULE MCChainRuntime ---------------------------
(* Small instances of ChainRuntime for TLC. *)
EXTENDS ChainRuntime, TLC

CONSTANTS d, a1, b1, c1, e, t, u, p, o1, o2

\* Three forks above d, which an endpoint that lags may leave for one another,
\* with transaction t below them and different payloads of u's event in two;
\* and a block that has no ancestor in common with them.
LowBlocks == {d, a1, b1, c1, e}
LowParent == d :> NoBlock @@ a1 :> d @@ b1 :> d @@ c1 :> d @@ e :> NoBlock
LowHeight == d :> 0 @@ a1 :> 1 @@ b1 :> 1 @@ c1 :> 1 @@ e :> 0
LowLogs ==
    [b \in LowBlocks |->
        IF b = d THEN {[tx |-> t, index |-> 0, payload |-> "x"]}
        ELSE IF b = a1 THEN {[tx |-> u, index |-> 0, payload |-> "x"]}
        ELSE IF b = b1 THEN {[tx |-> u, index |-> 0, payload |-> "y"]}
        ELSE {}]
LowReverts == [b \in LowBlocks |-> {}]

OneOwner == {p}

TwoOps == {o1, o2}
TwoOpsTx == [o \in TwoOps |-> t]
TwoOpsClaim == o1 :> "genuine" @@ o2 :> "foreign calldata"
OtherFirst == o2 :> 1 @@ o1 :> 2
=============================================================================
