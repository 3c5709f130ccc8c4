--------------------------- MODULE MCBrowserRuntime ---------------------------
(* Small browsers for TLC. *)
EXTENDS BrowserRuntime

CONSTANTS t1, t2, alice, bob, o1, o2, o3, r1, r2, withdraw, deposit, transfer, approve

TwoTabs == {t1, t2}
Owner == {alice}
Both == {alice, bob}
OneRead == {r1}
TwoReads == {r1, r2}
TwoOperations == {o1, o2}
ThreeOperations == {o1, o2, o3}
Locks == {alice, Nobody}
Wanders == {alice, bob, WrongChain}
Withdrawals == {withdraw}
VaultIntents == {withdraw, deposit}
Deposit == {deposit}
Transfer == {transfer}
Approve == {approve}
AllSymmetry == Permutations(TwoReads) \cup Permutations(ThreeOperations) \cup Permutations(TwoTabs)

-----------------------------------------------------------------------------
(* The bounds of SessionReads: a browser does one of three things.         *)

InUse == {o \in Operations : op[o].stage # "unused"}
AtWork == {o \in InUse : op[o].stage \notin {"kept", "unrecorded", "over"}}
InFlight == {r \in Reads : read[r].phase # "idle"}
InUseTabs ==
    {t \in Tabs : tab[t] # Fresh \/ (\E o \in AtWork : op[o].tab = t) \/ \E r \in InFlight : read[r].tab = t}

\* One tab and one operation while the wallet wanders; two overlapping reads
\* until the operation is drafted, and after its end.
Early == {"reviewing", "snapshot", "authorizing", "drafting"}
OneOperation ==
    /\ Cardinality(InUse) <= 1 /\ Cardinality(InUseTabs) <= 1
    /\ \A o \in InUse :
          /\ op[o].intent # withdraw
          /\ Cardinality(InFlight) = 2 =>
                /\ o \in AtWork => op[o].stage \in Early
                /\ op[o].intent \in {deposit, None}

\* The owner's own, in tabs that are connected or begin to be.
OwnersOwn ==
    /\ wallet = VaultOwner
    /\ \A o \in InUse : ~op[o].changed
    /\ \A r \in Reads : read[r].account \in {VaultOwner, None}
    /\ \A t \in Tabs :
          /\ tab[t].session \in {VaultOwner, None} /\ tab[t].flow = tab[t].session
          /\ tab[t].status = "DISCONNECTED" => tab[t].session = None

\* Two withdrawals from two tabs, with two things at a time in the browser, of
\* which at most one is a read ...
SharedJournal ==
    /\ OwnersOwn
    /\ Cardinality(InUse) <= 2 /\ \A o \in InUse : op[o].intent \in {withdraw, None}
    /\ Cardinality(InFlight) <= 1 /\ Cardinality(AtWork) + Cardinality(InFlight) <= 2

\* ... and, beside the hash of one that is kept, two transfers of one tab that
\* both found room for one more.
FullJournal ==
    /\ OwnersOwn
    /\ Cardinality(InUseTabs) <= 1 /\ InFlight = {}
    /\ \E k \in InUse :
          /\ op[k].stage = "kept" /\ op[k].intent = withdraw
          /\ \A o \in InUse \ {k} : op[o].intent \in {transfer, None}

Bounds == OneOperation \/ SharedJournal \/ FullJournal
=============================================================================
