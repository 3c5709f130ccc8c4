-------------------------- MODULE VaultDeployments --------------------------
(***************************************************************************)
(* The two contracts that run the code of AlphaForgeVault: the production    *)
(* vault, and AlphaForgeVaultHarness, which inherits it and adds the         *)
(* settlement calls through which the contract tests reach its accounting    *)
(* of profits, losses and positions.  Which of them is deployed never        *)
(* changes.                                                                 *)
(***************************************************************************)
EXTENDS AlphaForgeVault

VARIABLE harness  \* the deployed contract is AlphaForgeVaultHarness

deploymentVars == <<vars, harness>>

DeploymentInit == Init /\ harness \in BOOLEAN

DeploymentNext ==
    /\ Next \/ (harness /\ SettlementStep)
    /\ UNCHANGED harness

DeploymentSpec == DeploymentInit /\ [][DeploymentNext]_deploymentVars

-----------------------------------------------------------------------------

\* Without the harness's calls the vault is plain custody: what it accounts
\* for is what the owner deposited, and no transfer to it becomes profit.
ProductionIsPlainCustody == ~harness => PlainCustody
=============================================================================
