--------------------------- MODULE MCLocalLedger ---------------------------
(* Small instances of LocalLedger for TLC. *)
EXTENDS LocalLedger, TLC

CONSTANTS c1, c2, c3, c4, c5, c6, c7, order1

SevenIds == {c1, c2, c3, c4, c5, c6, c7}
IdSymmetry == Permutations(SevenIds)
OneOrder == {order1}

\* Money in, out and back, and a strategy that trades with it.
SomeCommands ==
    [type : {"deposit", "allocate", "deallocate", "requestWithdrawal"}, amount : {1}]
    \cup [type : {"confirmWithdrawal", "cancelWithdrawal"}, withdrawalId : SevenIds]
    \cup [type : {"start", "stop"}]
    \cup {[type |-> "reserveBuy", orderId |-> order1, amount |-> 1]}
    \cup [type : {"cancelOrder", "fillBuy"}, orderId : {order1}]
    \cup {[type |-> "markPosition", value |-> 2]}
    \cup {[type |-> "settlePosition", proceeds |-> 2]}
    \cup {[type |-> "payFees", amount |-> 1]}
=============================================================================
