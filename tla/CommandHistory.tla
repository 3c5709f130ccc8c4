--------------------------- MODULE CommandHistory ---------------------------
(***************************************************************************)
(* What the local ledger promises its clients about a request that may be   *)
(* sent again and again: requests are applied one at a time, each at the    *)
(* revision its client had read, never two with the same id, and what was   *)
(* applied stays applied.                                                   *)
(***************************************************************************)
EXTENDS Naturals, Sequences

CONSTANTS
    Requests,  \* records with an id, an expectedRevision and more
    Limit      \* how many requests are ever applied

VARIABLE applied

Init == applied = <<>>

Fresh(request) == \A i \in DOMAIN applied : applied[i].id # request.id

Apply(request) ==
    /\ Fresh(request)
    /\ request.expectedRevision = Len(applied)
    /\ Len(applied) < Limit
    /\ applied' = Append(applied, request)

Next == \E request \in Requests : Apply(request)

Spec == Init /\ [][Next]_applied
=============================================================================
