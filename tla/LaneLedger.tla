----------------------------- MODULE LaneLedger ----------------------------
(***************************************************************************)
(* What the rest of the bridge relies on about the lanes of merged mining, *)
(* with no table, order or capacity: lanes are offered and withdrawn, a    *)
(* lane on offer is claimed at most once, and whether its Kaspa parent     *)
(* pays the pool is what its latest offer said.                            *)
(***************************************************************************)
CONSTANT Lanes
VARIABLES offered, claimed, pool_paid

ledger == <<offered, claimed, pool_paid>>

Init == offered = {} /\ claimed = {} /\ pool_paid = {}

\* A lane is offered; other lanes may be withdrawn with all that is known of
\* them. A lane already on offer keeps its claim.
Offer(h, paid) ==
    \E gone \in SUBSET (offered \ {h}) :
        /\ offered' = (offered \union {h}) \ gone
        /\ claimed' = claimed \ gone
        /\ pool_paid' = IF paid THEN (pool_paid \ gone) \union {h} ELSE (pool_paid \ gone) \ {h}

Claim(h) ==
    /\ h \in offered \ claimed
    /\ claimed' = claimed \union {h}
    /\ UNCHANGED <<offered, pool_paid>>

Next == \E h \in Lanes : (\E paid \in BOOLEAN : Offer(h, paid)) \/ Claim(h)

Spec == Init /\ [][Next]_ledger
=============================================================================
