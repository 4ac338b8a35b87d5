------------------------------- MODULE Batch -------------------------------
(***************************************************************************)
(* What a call of refreshUsers (internal/deckbox/handler.go) promises its  *)
(* caller: it refreshes logins until all are done or it is cancelled, and  *)
(* when it returns it reports exactly the refreshes that were recorded,    *)
(* and none goes on behind the caller's back.                              *)
(***************************************************************************)
EXTENDS Naturals

CONSTANT Count  \* logins of the call, known by their position 1 .. Count

Positions == 1 .. Count

VARIABLES
    recorded,   \* logins refreshed and recorded
    cancelled,  \* the context is done
    reported,   \* what the caller has been given
    returned

vars == <<recorded, cancelled, reported, returned>>

Init == recorded = {} /\ cancelled \in BOOLEAN /\ reported = {} /\ returned = FALSE

RefreshAndRecord(p) ==
    /\ ~returned
    /\ recorded' = recorded \union {p}
    /\ UNCHANGED <<cancelled, reported, returned>>

Cancel ==
    /\ ~cancelled
    /\ cancelled' = TRUE
    /\ UNCHANGED <<recorded, reported, returned>>

Return ==
    /\ ~returned
    /\ cancelled \/ recorded = Positions
    /\ reported' = recorded
    /\ returned' = TRUE
    /\ UNCHANGED <<recorded, cancelled>>

Next == Cancel \/ Return \/ \E p \in Positions \ recorded : RefreshAndRecord(p)

Spec == Init /\ [][Next]_vars
=============================================================================
