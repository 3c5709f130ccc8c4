------------------------ MODULE MCAlphaForgeTestVenue ------------------------
(* Small instances of AlphaForgeTestVenue for TLC. *)
EXTENDS AlphaForgeTestVenue

MCMinted == [token \in Tokens |-> IF token = Usdc THEN 7 ELSE IF token = "afEth" THEN 4 ELSE 2]
=============================================================================
