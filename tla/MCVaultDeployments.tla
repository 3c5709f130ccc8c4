------------------------- MODULE MCVaultDeployments -------------------------
(* Small instances of VaultDeployments for TLC. *)
EXTENDS VaultDeployments

CONSTANTS afEth, afBtc, afOther

\* One principal unit locks two Pass units; there is Pass for two units of
\* principal and AF-USDC for twice that, so that there is something to gain
\* and to lose, and both positions can be open, one of them in two steps.
MCSupply ==
    [token \in Tokens |->
        IF token = Usdc THEN 4 ELSE IF token = Pass THEN 4
        ELSE IF token = afEth THEN 2 ELSE 1]

MCPositionAssets == {afEth, afBtc}
MCStrayTokens == {afOther}
MCStrays ==
    {<<Usdc, "vault">>, <<Pass, "vault">>, <<Pass, "locker">>,
     <<Native, "vault">>, <<afEth, "vault">>, <<afOther, "vault">>}
=============================================================================
