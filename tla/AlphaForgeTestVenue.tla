------------------------ MODULE AlphaForgeTestVenue ------------------------
(***************************************************************************)
(* The test venue and the swap adapter before it                            *)
(* (contracts/src/AlphaForgeTestVenue.sol, AlphaForgeSwapAdapter.sol): two    *)
(* constant-product pairs of AF-USDC with an asset.  Both pairs keep their    *)
(* AF-USDC in one balance and tell it apart by their reserves only; the       *)
(* adapter passes a swap on and must keep nothing of it.                      *)
(*                                                                         *)
(* A call is one transaction, so one step; what reverts is no step.  The     *)
(* deadline makes a late call revert and nothing else, so it is left out:    *)
(* a step need not be taken.  No sum overflows: reserves stay below what the  *)
(* venue holds (ReservesCovered), and that below the token's supply.          *)
(***************************************************************************)
EXTENDS Integers

CONSTANTS
    Minted,    \* what exists of each token
    TradeSizes \* the amounts the traders try: a bound of the instance

Usdc == "afUsdc"
Assets == {"afEth", "afBtc"}
Tokens == {Usdc} \cup Assets
Accounts == {"traders", "venue", "adapter"}  \* all the traders are one holder

ASSUME TokensAreMinted ==
    /\ Minted \in [Tokens -> Nat]
    /\ TradeSizes \subseteq Nat

VARIABLES
    reserves,  \* pairReserves: [usdc, asset] of each pair
    holdings   \* what every account holds of every token

vars == <<reserves, holdings>>

VenueTypeOK ==
    /\ reserves \in [Assets -> [usdc : Nat, asset : Nat]]
    /\ holdings \in [Tokens -> [Accounts -> Nat]]

Init ==
    /\ reserves = [asset \in Assets |-> [usdc |-> 0, asset |-> 0]]
    /\ holdings = [token \in Tokens |->
                     [account \in Accounts |->
                        IF account = "traders" THEN Minted[token] ELSE 0]]

-----------------------------------------------------------------------------

Sent(h, token, from, to, n) ==
    [h EXCEPT ![token][from] = @ - n, ![token][to] = @ + n]

\* What a swap of n pays, rounded down.
QuoteRoundedUp(reserveIn, reserveOut, n) ==
    (reserveOut * n + reserveIn + n - 1) \div (reserveIn + n)
Quote(reserveIn, reserveOut, n) == (reserveOut * n) \div (reserveIn + n)

Liquid(reserveIn, reserveOut, n) ==
    /\ reserveIn > 0 /\ reserveOut > 0
    /\ Quote(reserveIn, reserveOut, n) > 0
    /\ Quote(reserveIn, reserveOut, n) < reserveOut

ReserveIn(asset, buysAsset) ==
    IF buysAsset THEN reserves[asset].usdc ELSE reserves[asset].asset
ReserveOut(asset, buysAsset) ==
    IF buysAsset THEN reserves[asset].asset ELSE reserves[asset].usdc
TokenIn(asset, buysAsset) == IF buysAsset THEN Usdc ELSE asset
TokenOut(asset, buysAsset) == IF buysAsset THEN asset ELSE Usdc
AmountOut(asset, buysAsset, n) == Quote(ReserveIn(asset, buysAsset), ReserveOut(asset, buysAsset), n)

\* The new reserves follow from the old ones and the amounts, not from what
\* the venue holds.
ReservesFromHoldings(asset, buysAsset, n) ==
    IF buysAsset
    THEN [usdc |-> holdings[Usdc]["venue"] + n,
          asset |-> holdings[asset]["venue"] - AmountOut(asset, buysAsset, n)]
    ELSE [asset |-> holdings[asset]["venue"] + n,
          usdc |-> holdings[Usdc]["venue"] - AmountOut(asset, buysAsset, n)]
ReservesAfter(asset, buysAsset, n) ==
    IF buysAsset
    THEN [usdc |-> reserves[asset].usdc + n,
          asset |-> reserves[asset].asset - AmountOut(asset, buysAsset, n)]
    ELSE [asset |-> reserves[asset].asset + n,
          usdc |-> reserves[asset].usdc - AmountOut(asset, buysAsset, n)]

AddLiquidity(asset, usdcAmount, assetAmount) ==
    /\ usdcAmount # 0 /\ assetAmount # 0
    /\ holdings[Usdc]["traders"] >= usdcAmount
    /\ holdings[asset]["traders"] >= assetAmount
    /\ reserves' = [reserves EXCEPT ![asset] =
                    [usdc |-> @.usdc + usdcAmount, asset |-> @.asset + assetAmount]]
    /\ holdings' = Sent(Sent(holdings, Usdc, "traders", "venue", usdcAmount),
                        asset, "traders", "venue", assetAmount)

\* What both swaps require and settle in the reserves.
VenueSettles(asset, buysAsset, n, minimum) ==
    /\ n # 0
    /\ Liquid(ReserveIn(asset, buysAsset), ReserveOut(asset, buysAsset), n)
    /\ AmountOut(asset, buysAsset, n) >= minimum
    /\ holdings[TokenIn(asset, buysAsset)]["traders"] >= n
    /\ holdings[TokenOut(asset, buysAsset)]["venue"] >= AmountOut(asset, buysAsset, n)
    /\ reserves' = [reserves EXCEPT ![asset] = ReservesAfter(asset, buysAsset, n)]

\* The venue's own swap.  A recipient that is the venue itself would leave
\* its balance unchanged, which is refused.
Swap(asset, buysAsset, n, minimum, recipient) ==
    /\ recipient # "venue"
    /\ VenueSettles(asset, buysAsset, n, minimum)
    /\ holdings' = Sent(Sent(holdings, TokenIn(asset, buysAsset), "traders", "venue", n),
                        TokenOut(asset, buysAsset), "venue", recipient,
                        AmountOut(asset, buysAsset, n))

\* The adapter pulls the input, lets the venue swap it to the adapter, and
\* sends on what this swap paid: whatever it held before stays.
WholeBalance(asset, buysAsset, n) ==
    holdings[TokenOut(asset, buysAsset)]["adapter"] + AmountOut(asset, buysAsset, n)
PassedOn(asset, buysAsset, n) == AmountOut(asset, buysAsset, n)

AdapterSwap(asset, buysAsset, n, minimum) ==
    /\ VenueSettles(asset, buysAsset, n, minimum)
    /\ LET in == TokenIn(asset, buysAsset)
           out == TokenOut(asset, buysAsset)
       IN  holdings' =
             Sent(Sent(Sent(Sent(holdings, in, "traders", "adapter", n),
                            in, "adapter", "venue", n),
                       out, "venue", "adapter", AmountOut(asset, buysAsset, n)),
                  out, "adapter", "traders", PassedOn(asset, buysAsset, n))

\* Anybody may send tokens to the venue or the adapter without a call.
SendUnasked(token, to, n) ==
    /\ to \in {"venue", "adapter"}
    /\ holdings[token]["traders"] >= n
    /\ holdings' = Sent(holdings, token, "traders", to, n)
    /\ UNCHANGED reserves

Next ==
    \/ \E asset \in Assets, m, n \in TradeSizes : AddLiquidity(asset, m, n)
    \/ \E asset \in Assets, buysAsset \in BOOLEAN, n, minimum \in TradeSizes :
          \/ \E recipient \in Accounts : Swap(asset, buysAsset, n, minimum, recipient)
          \/ AdapterSwap(asset, buysAsset, n, minimum)
    \/ \E token \in Tokens, to \in Accounts, n \in TradeSizes : SendUnasked(token, to, n)

Spec == Init /\ [][Next]_vars

-----------------------------------------------------------------------------
(* Properties *)

\* Both pairs' reserves together are really held, although the pairs share
\* one AF-USDC balance and anybody may send tokens to it.
ReservesCovered ==
    /\ reserves["afEth"].usdc + reserves["afBtc"].usdc <= holdings[Usdc]["venue"]
    /\ \A asset \in Assets : reserves[asset].asset <= holdings[asset]["venue"]

\* No swap lowers a pair's constant product, however the quote is rounded, so
\* no sequence of swaps back and forth takes value out of a pair; and a pair
\* with liquidity is never emptied on either side.
Product(pair) == pair.usdc * pair.asset

ProductNeverFalls ==
    [][\A asset \in Assets : Product(reserves[asset]) <= Product(reserves'[asset])]_vars

\* No swap through the adapter pays out what somebody else left in it.
AdapterPaysOnlyItsSwap ==
    [][\A token \in Tokens : holdings[token]["adapter"] <= holdings'[token]["adapter"]]_vars
=============================================================================
