---------------------- MODULE AlphaForgeTestVenueProofs ----------------------
(***************************************************************************)
(* Proofs about AlphaForgeTestVenue: for every supply and every amount, the  *)
(* reserves of both pairs are held, no swap lowers a constant product and    *)
(* the adapter pays out nothing but its swap.                                *)
(***************************************************************************)
EXTENDS AlphaForgeTestVenue, TLAPS

USE TokensAreMinted

\* Rounding down: a quotient times its divisor never exceeds the dividend.
LEMMA DivisionRoundsDown ==
    ASSUME NEW a \in Nat, NEW b \in Nat \ {0}
    PROVE  a \div b \in Nat /\ b * (a \div b) <= a
BY SMT

\* A swap that pays no more than the quote's fraction keeps the product.
LEMMA ProductKept ==
    ASSUME NEW in \in Nat, NEW out \in Nat, NEW n \in Nat, NEW paid \in Nat,
           (in + n) * paid <= out * n
    PROVE  in * out <= (in + n) * (out - paid)
<1>1. (in + n) * (out - paid) = (in + n) * out - (in + n) * paid
  BY SMT
<1>2. (in + n) * out = in * out + out * n
  BY SMT
<1>3. in * out \in Nat /\ out * n \in Nat /\ (in + n) * paid \in Nat
  BY SMT
<1> QED
  BY <1>1, <1>2, <1>3, SMT

\* What the venue's half of a swap does: the pair's reserves take n in and
\* pay the quote out, the product does not fall, the other pair is untouched.
LEMMA Settlement ==
    ASSUME VenueTypeOK, NEW asset \in Assets, NEW buysAsset \in BOOLEAN,
           NEW n \in Nat, NEW minimum \in Nat, VenueSettles(asset, buysAsset, n, minimum)
    PROVE  /\ AmountOut(asset, buysAsset, n) \in Nat
           /\ reserves' \in [Assets -> [usdc : Nat, asset : Nat]]
           /\ \A other \in Assets \ {asset} : reserves'[other] = reserves[other]
           /\ buysAsset =>
                /\ reserves'[asset].usdc = reserves[asset].usdc + n
                /\ reserves'[asset].asset = reserves[asset].asset - AmountOut(asset, buysAsset, n)
           /\ ~buysAsset =>
                /\ reserves'[asset].asset = reserves[asset].asset + n
                /\ reserves'[asset].usdc = reserves[asset].usdc - AmountOut(asset, buysAsset, n)
           /\ Product(reserves[asset]) <= Product(reserves'[asset])
<1> DEFINE in == ReserveIn(asset, buysAsset)
           out == ReserveOut(asset, buysAsset)
           paid == AmountOut(asset, buysAsset, n)
<1>1. in \in Nat /\ out \in Nat
  BY DEF VenueTypeOK, ReserveIn, ReserveOut
<1>2. in > 0 /\ paid < out /\ paid = (out * n) \div (in + n)
  BY DEF VenueSettles, Liquid, AmountOut, Quote
<1>3. paid \in Nat /\ (in + n) * paid <= out * n
  <2>1. out * n \in Nat /\ in + n \in Nat \ {0}
    BY <1>1, <1>2, SMT
  <2> QED
    BY <2>1, <1>2, DivisionRoundsDown
<1>4. in * out <= (in + n) * (out - paid)
  BY <1>1, <1>3, ProductKept
<1>5. reserves' = [reserves EXCEPT ![asset] = ReservesAfter(asset, buysAsset, n)]
  BY DEF VenueSettles
<1>6. reserves \in [Assets -> [usdc : Nat, asset : Nat]]
  BY DEF VenueTypeOK
<1>7. out - paid \in Nat /\ in + n \in Nat
  BY <1>1, <1>2, <1>3, SMT
<1>8. CASE buysAsset
  <2>1. in = reserves[asset].usdc /\ out = reserves[asset].asset
    BY <1>8 DEF ReserveIn, ReserveOut
  <2>2. reserves'[asset] = [usdc |-> in + n, asset |-> out - paid]
    BY <1>5, <1>6, <1>8, <2>1 DEF ReservesAfter
  <2> HIDE DEF in, out, paid
  <2>3. reserves' \in [Assets -> [usdc : Nat, asset : Nat]]
    BY <1>5, <1>6, <1>7, <2>2
  <2>4. \A other \in Assets \ {asset} : reserves'[other] = reserves[other]
    BY <1>5, <1>6
  <2>5. Product(reserves[asset]) <= Product(reserves'[asset])
    BY <1>4, <2>1, <2>2 DEF Product
  <2>6. /\ reserves'[asset].usdc = reserves[asset].usdc + n
        /\ reserves'[asset].asset = reserves[asset].asset - AmountOut(asset, buysAsset, n)
    BY <2>1, <2>2 DEF paid
  <2> QED
    BY <1>3, <1>8, <2>3, <2>4, <2>5, <2>6 DEF paid
<1>9. CASE ~buysAsset
  <2>1. in = reserves[asset].asset /\ out = reserves[asset].usdc
    BY <1>9 DEF ReserveIn, ReserveOut
  <2>2. reserves'[asset] = [asset |-> in + n, usdc |-> out - paid]
    BY <1>5, <1>6, <1>9, <2>1 DEF ReservesAfter
  <2> HIDE DEF in, out, paid
  <2>3. reserves' \in [Assets -> [usdc : Nat, asset : Nat]]
    BY <1>5, <1>6, <1>7, <2>2
  <2>4. \A other \in Assets \ {asset} : reserves'[other] = reserves[other]
    BY <1>5, <1>6
  <2>5. out * in <= (out - paid) * (in + n)
    BY <1>1, <1>4, <1>7, SMT
  <2>6. Product(reserves[asset]) <= Product(reserves'[asset])
    BY <2>1, <2>2, <2>5 DEF Product
  <2> QED
    BY <1>3, <1>9, <2>1, <2>2, <2>3, <2>4, <2>6 DEF paid
<1> QED
  BY <1>8, <1>9
-----------------------------------------------------------------------------
(* Both invariants hold together: a transfer out of the venue needs the      *)
(* reserves to be held, and reserves grow only by what was transferred.      *)

Invariants == VenueTypeOK /\ ReservesCovered

LEMMA LiquidityKeeps ==
    ASSUME Invariants, NEW asset \in Assets, NEW m \in Nat, NEW n \in Nat,
           AddLiquidity(asset, m, n)
    PROVE  /\ Invariants'
           /\ \A other \in Assets :
                 Product(reserves[other]) <= Product(reserves'[other])
           /\ \A token \in Tokens : holdings'[token]["adapter"] = holdings[token]["adapter"]
<1> DEFINE once == Sent(holdings, Usdc, "traders", "venue", m)
<1>1. /\ reserves \in [Assets -> [usdc : Nat, asset : Nat]]
      /\ holdings \in [Tokens -> [Accounts -> Nat]]
      /\ Usdc \in Tokens /\ asset \in Tokens /\ asset # Usdc
  BY DEF Invariants, VenueTypeOK, Tokens, Assets, Usdc
<1>2. /\ holdings' = Sent(once, asset, "traders", "venue", n)
      /\ holdings[Usdc]["traders"] >= m
      /\ holdings[asset]["traders"] >= n
      /\ reserves' = [reserves EXCEPT ![asset] =
                      [usdc |-> @.usdc + m, asset |-> @.asset + n]]
  BY DEF AddLiquidity
<1>3. "traders" \in Accounts /\ "venue" \in Accounts /\ "adapter" \in Accounts
  BY DEF Accounts
<1>4. /\ once \in [Tokens -> [Accounts -> Nat]]
      /\ once[Usdc]["venue"] = holdings[Usdc]["venue"] + m
      /\ once[Usdc]["adapter"] = holdings[Usdc]["adapter"]
      /\ \A other \in Tokens \ {Usdc} : once[other] = holdings[other]
  BY <1>1, <1>2, <1>3 DEF Sent, Accounts
<1>5. once[asset]["traders"] >= n
  BY <1>1, <1>2, <1>4
<1> HIDE DEF once
<1>6. /\ holdings' \in [Tokens -> [Accounts -> Nat]]
      /\ holdings'[asset]["venue"] = once[asset]["venue"] + n
      /\ holdings'[asset]["adapter"] = once[asset]["adapter"]
      /\ \A other \in Tokens \ {asset} : holdings'[other] = once[other]
  BY <1>1, <1>2, <1>3, <1>4, <1>5 DEF Sent, Accounts
<1>7. /\ reserves' \in [Assets -> [usdc : Nat, asset : Nat]]
      /\ reserves'[asset].usdc = reserves[asset].usdc + m
      /\ reserves'[asset].asset = reserves[asset].asset + n
      /\ \A other \in Assets \ {asset} : reserves'[other] = reserves[other]
  BY <1>1, <1>2, SMT
<1>8. ReservesCovered'
  <2>1. ReservesCovered
    BY DEF Invariants
  <2>2. holdings'[Usdc]["venue"] = holdings[Usdc]["venue"] + m
    BY <1>1, <1>4, <1>6
  <2>3. reserves'["afEth"].usdc + reserves'["afBtc"].usdc
        = reserves["afEth"].usdc + reserves["afBtc"].usdc + m
    BY <1>1, <1>7 DEF Assets
  <2>4. \A other \in Assets :
          /\ reserves[other].usdc \in Nat
          /\ reserves[other].asset \in Nat
          /\ other \in Tokens \ {Usdc}
          /\ holdings[other]["venue"] \in Nat
    BY <1>1, <1>3 DEF Tokens, Assets, Usdc
  <2>5. \A other \in Assets : reserves'[other].asset <= holdings'[other]["venue"]
    <3>1. ASSUME NEW other \in Assets
          PROVE  \/ /\ reserves'[other].asset = reserves[other].asset
                    /\ holdings'[other]["venue"] = holdings[other]["venue"]
                 \/ /\ reserves'[other].asset = reserves[other].asset + n
                    /\ holdings'[other]["venue"] = holdings[other]["venue"] + n
      BY <1>1, <1>4, <1>6, <1>7, <2>4
    <3> QED
      BY <2>1, <2>4, <3>1, SMT DEF ReservesCovered
  <2>6. /\ holdings[Usdc]["venue"] \in Nat
        /\ reserves["afEth"].usdc \in Nat /\ reserves["afBtc"].usdc \in Nat
    BY <1>1, <1>3, <2>4 DEF Assets
  <2> QED
    BY <2>1, <2>2, <2>3, <2>5, <2>6, SMT DEF ReservesCovered
<1>9. ASSUME NEW other \in Assets
      PROVE  Product(reserves[other]) <= Product(reserves'[other])
  <2>1. CASE other = asset
    <3>1. ASSUME NEW x \in Nat, NEW y \in Nat PROVE x * y <= (x + m) * (y + n)
      <4>1. (x + m) * (y + n) = x * y + x * n + m * y + m * n
        BY SMT
      <4>2. x * y \in Nat /\ x * n \in Nat /\ m * y \in Nat /\ m * n \in Nat
        BY SMT
      <4> QED
        BY <4>1, <4>2, SMT
    <3>2. reserves[asset].usdc \in Nat /\ reserves[asset].asset \in Nat
      BY <1>1
    <3>3. reserves[asset].usdc * reserves[asset].asset
          <= (reserves[asset].usdc + m) * (reserves[asset].asset + n)
      BY <3>1, <3>2
    <3> QED
      BY <1>7, <2>1, <3>3 DEF Product
  <2>2. CASE other # asset
    <3>1. reserves'[other] = reserves[other]
      BY <1>7, <2>2
    <3>2. reserves[other].usdc * reserves[other].asset \in Nat
      BY <1>1, SMT
    <3> QED
      BY <3>1, <3>2, SMT DEF Product
  <2> QED
    BY <2>1, <2>2
<1>10. \A token \in Tokens : holdings'[token]["adapter"] = holdings[token]["adapter"]
  BY <1>1, <1>4, <1>6
<1> QED
  BY <1>6, <1>7, <1>8, <1>9, <1>10 DEF Invariants, VenueTypeOK
-----------------------------------------------------------------------------
(* Swaps: what the tokens do, whoever carries them. *)

\* The venue's holdings after a swap follow its reserves, token by token.
Follows(in, out, n, paid) ==
    /\ holdings' \in [Tokens -> [Accounts -> Nat]]
    /\ holdings'[in]["venue"] = holdings[in]["venue"] + n
    /\ holdings'[out]["venue"] = holdings[out]["venue"] - paid
    /\ \A token \in Tokens \ {in, out} : holdings'[token]["venue"] = holdings[token]["venue"]
    /\ \A token \in Tokens : holdings[token]["adapter"] <= holdings'[token]["adapter"]

LEMMA SwapTokens ==
    ASSUME Invariants, NEW asset \in Assets, NEW buysAsset \in BOOLEAN
    PROVE  /\ TokenIn(asset, buysAsset) \in Tokens
           /\ TokenOut(asset, buysAsset) \in Tokens
           /\ TokenIn(asset, buysAsset) # TokenOut(asset, buysAsset)
BY DEF TokenIn, TokenOut, Tokens, Assets, Usdc

LEMMA SwapFollows ==
    ASSUME Invariants, NEW asset \in Assets, NEW buysAsset \in BOOLEAN,
           NEW n \in Nat, NEW minimum \in Nat, NEW recipient \in Accounts,
           Swap(asset, buysAsset, n, minimum, recipient)
    PROVE  Follows(TokenIn(asset, buysAsset), TokenOut(asset, buysAsset), n,
                   AmountOut(asset, buysAsset, n))
<1> DEFINE in == TokenIn(asset, buysAsset)
           out == TokenOut(asset, buysAsset)
           paid == AmountOut(asset, buysAsset, n)
<1>1. paid \in Nat
  BY Settlement DEF Swap, Invariants
<1>2. in \in Tokens /\ out \in Tokens /\ in # out
  BY SwapTokens
<1>3. /\ holdings \in [Tokens -> [Accounts -> Nat]]
      /\ holdings[in]["traders"] >= n
      /\ holdings[out]["venue"] >= paid
      /\ recipient # "venue"
      /\ holdings' = Sent(Sent(holdings, in, "traders", "venue", n), out, "venue", recipient, paid)
  BY DEF Swap, VenueSettles, Invariants, VenueTypeOK
<1> DEFINE once == Sent(holdings, in, "traders", "venue", n)
<1> HIDE DEF in, out, paid
<1>4. /\ once \in [Tokens -> [Accounts -> Nat]]
      /\ once[in]["venue"] = holdings[in]["venue"] + n
      /\ once[in]["adapter"] = holdings[in]["adapter"]
      /\ \A token \in Tokens \ {in} : once[token] = holdings[token]
  BY <1>1, <1>2, <1>3 DEF Sent, Accounts
<1>5. holdings' = Sent(once, out, "venue", recipient, paid) /\ once[out]["venue"] >= paid
  BY <1>2, <1>3, <1>4
<1> HIDE DEF once
<1>6. /\ holdings' \in [Tokens -> [Accounts -> Nat]]
      /\ holdings'[out]["venue"] = once[out]["venue"] - paid
      /\ holdings'[out]["adapter"] \in {once[out]["adapter"], once[out]["adapter"] + paid}
      /\ \A token \in Tokens \ {out} : holdings'[token] = once[token]
  <2>1. recipient = "traders" \/ recipient = "adapter"
    BY <1>3 DEF Accounts
  <2>2. CASE recipient = "traders"
    BY <1>1, <1>2, <1>4, <1>5, <2>2 DEF Sent, Accounts
  <2>3. CASE recipient = "adapter"
    BY <1>1, <1>2, <1>4, <1>5, <2>3 DEF Sent, Accounts
  <2> QED
    BY <2>1, <2>2, <2>3
<1>7. \A token \in Tokens : holdings[token]["adapter"] <= holdings'[token]["adapter"]
  <2>1. \A token \in Tokens : holdings[token]["adapter"] \in Nat
    BY <1>3 DEF Accounts
  <2> QED
    BY <1>1, <1>2, <1>4, <1>6, <2>1
<1>8. Follows(in, out, n, paid)
  BY <1>2, <1>4, <1>6, <1>7 DEF Follows
<1> QED
  BY <1>8 DEF in, out, paid

LEMMA AdapterSwapFollows ==
    ASSUME Invariants, NEW asset \in Assets, NEW buysAsset \in BOOLEAN,
           NEW n \in Nat, NEW minimum \in Nat,
           AdapterSwap(asset, buysAsset, n, minimum)
    PROVE  Follows(TokenIn(asset, buysAsset), TokenOut(asset, buysAsset), n,
                   AmountOut(asset, buysAsset, n))
<1> DEFINE in == TokenIn(asset, buysAsset)
           out == TokenOut(asset, buysAsset)
           paid == AmountOut(asset, buysAsset, n)
<1>1. paid \in Nat
  BY Settlement DEF AdapterSwap, Invariants
<1>2. in \in Tokens /\ out \in Tokens /\ in # out
  BY SwapTokens
<1>3. /\ holdings \in [Tokens -> [Accounts -> Nat]]
      /\ holdings[in]["traders"] >= n
      /\ holdings[out]["venue"] >= paid
  BY DEF AdapterSwap, VenueSettles, Invariants, VenueTypeOK
<1>0. holdings' = Sent(Sent(Sent(Sent(holdings, in, "traders", "adapter", n),
                               in, "adapter", "venue", n),
                          out, "venue", "adapter", paid),
                     out, "adapter", "traders", paid)
  BY DEF AdapterSwap, PassedOn
<1> DEFINE pulled == Sent(holdings, in, "traders", "adapter", n)
           passed == Sent(pulled, in, "adapter", "venue", n)
           received == Sent(passed, out, "venue", "adapter", paid)
<1> HIDE DEF in, out, paid
<1>4. /\ pulled \in [Tokens -> [Accounts -> Nat]]
      /\ pulled[in]["adapter"] = holdings[in]["adapter"] + n
      /\ pulled[in]["venue"] = holdings[in]["venue"]
      /\ \A token \in Tokens \ {in} : pulled[token] = holdings[token]
  BY <1>1, <1>2, <1>3 DEF Sent, Accounts
<1> HIDE DEF pulled
<1>5. "adapter" \in Accounts /\ "venue" \in Accounts
  BY DEF Accounts
<1>6. pulled[in]["adapter"] >= n /\ holdings[in]["adapter"] \in Nat
  BY <1>2, <1>3, <1>4, <1>5
<1>7. /\ passed \in [Tokens -> [Accounts -> Nat]]
      /\ passed[in]["adapter"] = holdings[in]["adapter"]
      /\ passed[in]["venue"] = holdings[in]["venue"] + n
      /\ \A token \in Tokens \ {in} : passed[token] = holdings[token]
  BY <1>2, <1>4, <1>6 DEF Sent, Accounts
<1> HIDE DEF passed
<1>8. passed[out]["venue"] >= paid
  BY <1>2, <1>3, <1>7
<1>9. /\ received \in [Tokens -> [Accounts -> Nat]]
      /\ received[out]["adapter"] = passed[out]["adapter"] + paid
      /\ received[out]["venue"] = passed[out]["venue"] - paid
      /\ \A token \in Tokens \ {out} : received[token] = passed[token]
  BY <1>1, <1>2, <1>7, <1>8 DEF Sent, Accounts
<1>10. holdings' = Sent(received, out, "adapter", "traders", paid)
  BY <1>0 DEF pulled, passed
<1> HIDE DEF received
<1>11. received[out]["adapter"] >= paid /\ passed[out]["adapter"] \in Nat
  BY <1>1, <1>2, <1>5, <1>7, <1>9
<1>12. /\ holdings' \in [Tokens -> [Accounts -> Nat]]
       /\ holdings'[out]["adapter"] = passed[out]["adapter"]
       /\ holdings'[out]["venue"] = received[out]["venue"]
       /\ \A token \in Tokens \ {out} : holdings'[token] = received[token]
  BY <1>1, <1>2, <1>9, <1>10, <1>11 DEF Sent, Accounts
<1>13. \A token \in Tokens : holdings'[token]["adapter"] = holdings[token]["adapter"]
  BY <1>2, <1>7, <1>9, <1>12
<1>14. \A token \in Tokens : holdings[token]["adapter"] \in Nat
  BY <1>3, <1>5
<1>15. Follows(in, out, n, paid)
  BY <1>2, <1>7, <1>9, <1>12, <1>13, <1>14 DEF Follows
<1> QED
  BY <1>15 DEF in, out, paid

\* Reserves and holdings move by the same amounts.
LEMMA SettlementCovers ==
    ASSUME Invariants, NEW asset \in Assets, NEW buysAsset \in BOOLEAN,
           NEW n \in Nat, NEW minimum \in Nat, VenueSettles(asset, buysAsset, n, minimum),
           Follows(TokenIn(asset, buysAsset), TokenOut(asset, buysAsset), n,
                   AmountOut(asset, buysAsset, n))
    PROVE  /\ Invariants'
           /\ \A other \in Assets : Product(reserves[other]) <= Product(reserves'[other])
<1> DEFINE paid == AmountOut(asset, buysAsset, n)
<1>1. /\ paid \in Nat
      /\ reserves' \in [Assets -> [usdc : Nat, asset : Nat]]
      /\ \A other \in Assets \ {asset} : reserves'[other] = reserves[other]
      /\ Product(reserves[asset]) <= Product(reserves'[asset])
  BY Settlement DEF Invariants
<1>2. /\ reserves \in [Assets -> [usdc : Nat, asset : Nat]]
      /\ holdings \in [Tokens -> [Accounts -> Nat]]
      /\ holdings' \in [Tokens -> [Accounts -> Nat]]
  BY DEF Invariants, VenueTypeOK, Follows
<1>3. "venue" \in Accounts /\ Usdc \in Tokens /\ Usdc \notin Assets /\ Assets \subseteq Tokens
  BY DEF Accounts, Tokens, Assets, Usdc
<1>4. \E du, da \in Int :
        /\ reserves'[asset].usdc = reserves[asset].usdc + du
        /\ reserves'[asset].asset = reserves[asset].asset + da
        /\ holdings'[Usdc]["venue"] = holdings[Usdc]["venue"] + du
        /\ holdings'[asset]["venue"] = holdings[asset]["venue"] + da
  <2>1. CASE buysAsset
    <3>1. /\ reserves'[asset].usdc = reserves[asset].usdc + n
          /\ reserves'[asset].asset = reserves[asset].asset - paid
      BY <2>1, Settlement DEF Invariants
    <3>2. /\ holdings'[Usdc]["venue"] = holdings[Usdc]["venue"] + n
          /\ holdings'[asset]["venue"] = holdings[asset]["venue"] - paid
      BY <2>1 DEF Follows, TokenIn, TokenOut
    <3>3. n \in Int /\ 0 - paid \in Int
      BY <1>1
    <3> HIDE DEF paid
    <3>4. /\ reserves[asset].asset - paid = reserves[asset].asset + (0 - paid)
          /\ holdings[asset]["venue"] - paid = holdings[asset]["venue"] + (0 - paid)
      BY <1>1, <1>2, <1>3
    <3> QED
      BY <3>1, <3>2, <3>3, <3>4
  <2>2. CASE ~buysAsset
    <3>1. /\ reserves'[asset].asset = reserves[asset].asset + n
          /\ reserves'[asset].usdc = reserves[asset].usdc - paid
      BY <2>2, Settlement DEF Invariants
    <3>2. /\ holdings'[asset]["venue"] = holdings[asset]["venue"] + n
          /\ holdings'[Usdc]["venue"] = holdings[Usdc]["venue"] - paid
      BY <2>2 DEF Follows, TokenIn, TokenOut
    <3>3. n \in Int /\ 0 - paid \in Int
      BY <1>1
    <3> HIDE DEF paid
    <3>4. /\ reserves[asset].usdc - paid = reserves[asset].usdc + (0 - paid)
          /\ holdings[Usdc]["venue"] - paid = holdings[Usdc]["venue"] + (0 - paid)
      BY <1>1, <1>2, <1>3
    <3> QED
      BY <3>1, <3>2, <3>3, <3>4
  <2> QED
    BY <2>1, <2>2
<1>5. PICK du, da \in Int :
        /\ reserves'[asset].usdc = reserves[asset].usdc + du
        /\ reserves'[asset].asset = reserves[asset].asset + da
        /\ holdings'[Usdc]["venue"] = holdings[Usdc]["venue"] + du
        /\ holdings'[asset]["venue"] = holdings[asset]["venue"] + da
  BY <1>4
<1>6. \A other \in Assets \ {asset} : holdings'[other]["venue"] = holdings[other]["venue"]
  BY <1>3 DEF Follows, TokenIn, TokenOut
<1>7. ReservesCovered
  BY DEF Invariants
<1>8. reserves'["afEth"].usdc + reserves'["afBtc"].usdc
      = reserves["afEth"].usdc + reserves["afBtc"].usdc + du
  BY <1>1, <1>2, <1>5 DEF Assets
<1>9. /\ reserves["afEth"].usdc \in Nat /\ reserves["afBtc"].usdc \in Nat
      /\ holdings[Usdc]["venue"] \in Nat
      /\ \A other \in Assets : holdings[other]["venue"] \in Nat /\ reserves[other].asset \in Nat
  BY <1>2, <1>3 DEF Assets
<1>10. reserves'["afEth"].usdc + reserves'["afBtc"].usdc <= holdings'[Usdc]["venue"]
  BY <1>5, <1>7, <1>8, <1>9, SMT DEF ReservesCovered
<1>11. \A other \in Assets : reserves'[other].asset <= holdings'[other]["venue"]
  BY <1>1, <1>5, <1>6, <1>7, <1>9, SMT DEF ReservesCovered
<1>12. \A other \in Assets : Product(reserves[other]) <= Product(reserves'[other])
  <2>1. \A other \in Assets : Product(reserves[other]) \in Nat
    BY <1>2, SMT DEF Product
  <2> QED
    BY <1>1, <2>1
<1> QED
  BY <1>1, <1>2, <1>10, <1>11, <1>12 DEF Invariants, VenueTypeOK, ReservesCovered
LEMMA UnaskedKeeps ==
    ASSUME Invariants, NEW token \in Tokens, NEW to \in Accounts, NEW n \in Nat,
           SendUnasked(token, to, n)
    PROVE  /\ Invariants'
           /\ \A other \in Tokens : holdings[other]["adapter"] <= holdings'[other]["adapter"]
<1>1. /\ holdings \in [Tokens -> [Accounts -> Nat]]
      /\ reserves \in [Assets -> [usdc : Nat, asset : Nat]]
      /\ to \in {"venue", "adapter"}
      /\ holdings[token]["traders"] >= n
      /\ holdings' = Sent(holdings, token, "traders", to, n)
      /\ reserves' = reserves
  BY DEF Invariants, VenueTypeOK, SendUnasked
<1>2. /\ holdings' \in [Tokens -> [Accounts -> Nat]]
      /\ \A other \in Tokens, account \in {"venue", "adapter"} :
            holdings[other][account] <= holdings'[other][account]
  BY <1>1 DEF Sent, Accounts
<1>3. Usdc \in Tokens /\ Assets \subseteq Tokens /\ "venue" \in Accounts
  BY DEF Tokens, Accounts
<1>4. ReservesCovered'
  <2>1. /\ reserves["afEth"].usdc \in Nat /\ reserves["afBtc"].usdc \in Nat
        /\ \A asset \in Assets : reserves[asset].asset \in Nat
        /\ \A other \in Tokens : holdings[other]["venue"] \in Nat /\ holdings'[other]["venue"] \in Nat
        /\ \A other \in Tokens : holdings[other]["venue"] <= holdings'[other]["venue"]
    BY <1>1, <1>2, <1>3 DEF Assets
  <2> QED
    BY <1>1, <1>3, <2>1, SMT DEF ReservesCovered, Invariants
<1> QED
  BY <1>1, <1>2, <1>4 DEF Invariants, VenueTypeOK

-----------------------------------------------------------------------------
(* The theorems *)

LEMMA Initially == Init => Invariants
BY DEF Init, Invariants, VenueTypeOK, ReservesCovered, Tokens, Assets, Accounts, Usdc

\* One step keeps both invariants, the products and what the adapter holds.
LEMMA StepKeeps ==
    ASSUME Invariants, [Next]_vars
    PROVE  /\ Invariants'
           /\ \A asset \in Assets : Product(reserves[asset]) <= Product(reserves'[asset])
           /\ \A token \in Tokens : holdings[token]["adapter"] <= holdings'[token]["adapter"]
<1>1. /\ \A asset \in Assets : Product(reserves[asset]) \in Nat
      /\ \A token \in Tokens : holdings[token]["adapter"] \in Nat
  <2>1. "adapter" \in Accounts
    BY DEF Accounts
  <2> QED
    BY <2>1, SMT DEF Invariants, VenueTypeOK, Product
<1>2. TradeSizes \subseteq Nat
  BY DEF TokensAreMinted
<1>3. ASSUME NEW asset \in Assets, NEW m \in TradeSizes, NEW n \in TradeSizes,
             AddLiquidity(asset, m, n)
      PROVE  /\ Invariants'
             /\ \A other \in Assets : Product(reserves[other]) <= Product(reserves'[other])
             /\ \A token \in Tokens : holdings[token]["adapter"] <= holdings'[token]["adapter"]
  <2>1. m \in Nat /\ n \in Nat
    BY <1>2
  <2> QED
    BY <1>1, <1>3, <2>1, LiquidityKeeps
<1>4. ASSUME NEW asset \in Assets, NEW buysAsset \in BOOLEAN, NEW n \in TradeSizes,
             NEW minimum \in TradeSizes,
             \/ \E recipient \in Accounts : Swap(asset, buysAsset, n, minimum, recipient)
             \/ AdapterSwap(asset, buysAsset, n, minimum)
      PROVE  /\ Invariants'
             /\ \A other \in Assets : Product(reserves[other]) <= Product(reserves'[other])
             /\ \A token \in Tokens : holdings[token]["adapter"] <= holdings'[token]["adapter"]
  <2>1. n \in Nat /\ minimum \in Nat
    BY <1>2
  <2>2. Follows(TokenIn(asset, buysAsset), TokenOut(asset, buysAsset), n,
                AmountOut(asset, buysAsset, n))
    BY <1>4, <2>1, SwapFollows, AdapterSwapFollows
  <2>3. VenueSettles(asset, buysAsset, n, minimum)
    BY <1>4 DEF Swap, AdapterSwap
  <2>4. Invariants' /\ \A other \in Assets : Product(reserves[other]) <= Product(reserves'[other])
    BY <2>1, <2>2, <2>3, SettlementCovers
  <2> QED
    BY <2>2, <2>4 DEF Follows
<1>5. ASSUME NEW token \in Tokens, NEW to \in Accounts, NEW n \in TradeSizes,
             SendUnasked(token, to, n)
      PROVE  /\ Invariants'
             /\ \A other \in Assets : Product(reserves[other]) <= Product(reserves'[other])
             /\ \A other \in Tokens : holdings[other]["adapter"] <= holdings'[other]["adapter"]
  <2>1. n \in Nat /\ reserves' = reserves
    BY <1>2, <1>5 DEF SendUnasked
  <2> QED
    BY <1>1, <1>5, <2>1, UnaskedKeeps
<1>6. ASSUME UNCHANGED vars
      PROVE  /\ Invariants'
             /\ \A asset \in Assets : Product(reserves[asset]) <= Product(reserves'[asset])
             /\ \A token \in Tokens : holdings[token]["adapter"] <= holdings'[token]["adapter"]
  BY <1>1, <1>6 DEF vars, Invariants, VenueTypeOK, ReservesCovered
<1> QED
  BY <1>3, <1>4, <1>5, <1>6 DEF Next

\* Reserves and holdings stay natural numbers: no call underflows.
THEOREM VenueTypeCorrect == Spec => []VenueTypeOK
<1>1. Invariants /\ [Next]_vars => Invariants'
  BY StepKeeps
<1>2. Invariants => VenueTypeOK
  BY DEF Invariants
<1> QED
  BY <1>1, <1>2, Initially, PTL DEF Spec

\* The venue can always pay what its two pairs say they hold.
THEOREM ReservesAreCovered == Spec => []ReservesCovered
<1>1. Invariants /\ [Next]_vars => Invariants'
  BY StepKeeps
<1>2. Invariants => ReservesCovered
  BY DEF Invariants
<1> QED
  BY <1>1, <1>2, Initially, PTL DEF Spec

\* No swap, directly or through the adapter, lowers a constant product.
THEOREM ProductsNeverFall == Spec => ProductNeverFalls
<1> DEFINE Kept == \A asset \in Assets : Product(reserves[asset]) <= Product(reserves'[asset])
<1>1. Invariants /\ [Next]_vars => Invariants'
  BY StepKeeps
<1>2. Invariants /\ [Next]_vars => [Kept]_vars
  BY StepKeeps
<1> QED
  BY <1>1, <1>2, Initially, PTL DEF Spec, ProductNeverFalls

\* What others left in the adapter stays there.
THEOREM AdapterPaysNothingElse == Spec => AdapterPaysOnlyItsSwap
<1> DEFINE Kept == \A token \in Tokens : holdings[token]["adapter"] <= holdings'[token]["adapter"]
<1>1. Invariants /\ [Next]_vars => Invariants'
  BY StepKeeps
<1>2. Invariants /\ [Next]_vars => [Kept]_vars
  BY StepKeeps
<1> QED
  BY <1>1, <1>2, Initially, PTL DEF Spec, AdapterPaysOnlyItsSwap
=============================================================================
