------------------------ MODULE MergedPendingProofs ------------------------
(***************************************************************************)
(* Proofs about the table of pending ZKas blocks, for any set of lanes and *)
(* any capacity. The inductive invariant is Bounded together with the two  *)
(* statements about the histories; Bounded is what makes an insertion      *)
(* evict at most one lane, and the refinement of LaneLedger rests on it.   *)
(***************************************************************************)
EXTENDS MergedPending, LaneTableProofs

IInv == TypeOK /\ Bounded /\ AttributionFollowsTemplate /\ ClaimedOncePerIssue

\* The capacity the table works with is positive.
LEMMA CapPositive == cap \in Nat \ {0}
  BY CapAssumption DEF cap

-----------------------------------------------------------------------------
(* The invariant. *)

\* The type and the bound say that the table is well formed, the form in which
\* LaneTableProofs speaks of it.
LEMMA WellFormedPending == TypeOK /\ Bounded <=> TypeOK /\ WellFormed(Lanes, cap, pending)
  BY DEF TypeOK, Bounded, WellFormed, TableType, Tables

\* The empty table satisfies the invariant.
LEMMA InitIInv == Init => IInv
<1> SUFFICES ASSUME Init PROVE IInv
  OBVIOUS
<1>1. pending = [order |-> <<>>, solved |-> {}, fee_lane |-> {}]
  BY DEF Init, EmptyTable
<1>2. Len(pending.order) = 0 /\ pending.order \in Seq(Lanes) /\ pending.solved = {} /\ pending.fee_lane = {}
  BY <1>1
<1>3. Known(pending) = {}
  BY <1>2 DEF Known
<1>4. TypeOK
  BY <1>1, MaxInsertsAssumption DEF Init, TypeOK, TableType
<1>5. Bounded
  BY <1>2, CapPositive DEF Bounded
<1>6. AttributionFollowsTemplate
  BY <1>2, <1>3 DEF AttributionFollowsTemplate, paid_pool
<1>7. ClaimedOncePerIssue
  BY <1>3 DEF Init, ClaimedOncePerIssue, is_unsolved
<1> QED BY <1>4, <1>5, <1>6, <1>7 DEF IInv

\* insert_with_payee preserves the invariant, evictions included.
LEMMA InsertIInv ==
  ASSUME IInv, NEW h \in Lanes, NEW paid \in BOOLEAN, insert(h, paid)
  PROVE  IInv'
<1>1. TypeOK /\ WellFormed(Lanes, cap, pending) /\ AttributionFollowsTemplate /\ ClaimedOncePerIssue
  BY WellFormedPending DEF IInv
<1>f. InsertEffect(Lanes, cap, pending, h, paid, pending')
  BY <1>1, InsertFacts, CapPositive DEF insert
<1>2. TypeOK'
  BY <1>1, <1>f, MaxInsertsAssumption DEF TypeOK, InsertEffect, WellFormed, insert, Tables, TableType
<1>3. Bounded'
  BY <1>f DEF Bounded, InsertEffect, WellFormed
<1>4. AttributionFollowsTemplate'
  <2> SUFFICES ASSUME NEW g \in Lanes
               PROVE  g \in pending'.fee_lane <=> g \in Known(pending') /\ template'[g]
    BY DEF AttributionFollowsTemplate, paid_pool
  <2>1. template'[g] = IF g = h THEN paid ELSE template[g]
    BY <1>1 DEF TypeOK, insert
  <2>2. g \in pending.fee_lane <=> g \in Known(pending) /\ template[g]
    BY <1>1 DEF AttributionFollowsTemplate, paid_pool
  <2> QED BY <2>1, <2>2, <1>f DEF InsertEffect
<1>5. ClaimedOncePerIssue'
  <2> SUFFICES ASSUME NEW g \in Lanes
               PROVE  /\ claims'[g] <= issued'[g]
                      /\ is_unsolved(pending', g) => claims'[g] < issued'[g]
    BY DEF ClaimedOncePerIssue
  <2>1. /\ claims'[g] = claims[g] /\ claims[g] \in Nat /\ issued[g] \in Nat
        /\ issued'[g] = IF g = h /\ g \notin Known(pending) THEN issued[g] + 1 ELSE issued[g]
    BY <1>1 DEF TypeOK, insert
  <2>2. claims[g] <= issued[g] /\ (is_unsolved(pending, g) => claims[g] < issued[g])
    BY <1>1 DEF ClaimedOncePerIssue
  <2>3. is_unsolved(pending', g) => is_unsolved(pending, g) \/ (g = h /\ g \notin Known(pending))
    BY <1>f DEF is_unsolved, InsertEffect
  <2> QED BY <2>1, <2>2, <2>3
<1> QED BY <1>2, <1>3, <1>4, <1>5 DEF IInv

\* claim_solution preserves the invariant.
LEMMA ClaimIInv ==
  ASSUME IInv, NEW h \in Lanes, claim(h)
  PROVE  IInv'
<1>1. TypeOK /\ WellFormed(Lanes, cap, pending) /\ AttributionFollowsTemplate /\ ClaimedOncePerIssue
  BY WellFormedPending DEF IInv
<1>f. ClaimEffect(Lanes, cap, pending, h, pending')
  BY <1>1, ClaimFacts, CapPositive DEF claim
<1>2. TypeOK'
  <2>1. pending' \in TableType
    BY <1>f DEF ClaimEffect, WellFormed, Tables, TableType
  <2> QED BY <1>1, <2>1 DEF TypeOK, claim
<1>3. Bounded'
  BY <1>f DEF Bounded, ClaimEffect, WellFormed
<1>4. AttributionFollowsTemplate'
  BY <1>1, <1>f DEF AttributionFollowsTemplate, paid_pool, ClaimEffect, claim
<1>5. ClaimedOncePerIssue'
  <2> SUFFICES ASSUME NEW g \in Lanes
               PROVE  /\ claims'[g] <= issued'[g]
                      /\ is_unsolved(pending', g) => claims'[g] < issued'[g]
    BY DEF ClaimedOncePerIssue
  <2>1. /\ issued'[g] = issued[g] /\ claims[g] \in Nat /\ issued[g] \in Nat
        /\ claims'[g] = IF g = h /\ can_claim(pending, h) THEN claims[g] + 1 ELSE claims[g]
    BY <1>1 DEF TypeOK, claim
  <2>2. claims[g] <= issued[g] /\ (is_unsolved(pending, g) => claims[g] < issued[g])
    BY <1>1 DEF ClaimedOncePerIssue
  <2>3. can_claim(pending, g) => is_unsolved(pending, g)
    BY DEF can_claim, is_unsolved
  <2>4. is_unsolved(pending', g) => is_unsolved(pending, g) /\ ~(g = h /\ can_claim(pending, h))
    BY <1>f DEF is_unsolved, can_claim, ClaimEffect
  <2> QED BY <2>1, <2>2, <2>3, <2>4
<1> QED BY <1>2, <1>3, <1>4, <1>5 DEF IInv

\* Nothing changes, nothing breaks.
LEMMA StutterIInv == IInv /\ UNCHANGED vars => IInv'
  BY DEF IInv, TypeOK, Bounded, AttributionFollowsTemplate, ClaimedOncePerIssue, vars

\* The inductive invariant holds throughout.
LEMMA Invariance == Spec => []IInv
<1>1. IInv /\ [Next]_vars => IInv'
  BY InsertIInv, ClaimIInv, StutterIInv DEF Next
<1> QED BY InitIInv, <1>1, PTL DEF Spec

-----------------------------------------------------------------------------
(* The theorems. *)

\* Whatever templates are inserted and claimed, the table of pending ZKas blocks
\* stays within its capacity with one entry per lane and no flag of a lane that
\* has left it.
THEOREM TableBounded == Spec => []Bounded
  BY Invariance, PTL DEF IInv

\* The payee recorded for a lane is that of its latest template, through
\* evictions and re-insertions.
THEOREM Attribution == Spec => []AttributionFollowsTemplate
  BY Invariance, PTL DEF IInv

\* A lane is claimed at most once for each time it enters the table.
THEOREM ClaimOnce == Spec => []ClaimedOncePerIssue
  BY Invariance, PTL DEF IInv

\* A solved lane stays solved for as long as it is in the table.
THEOREM SolvedStays == Spec => SolvedIsFinal
<1>1. IInv /\ [Next]_vars =>
         [\A h \in pending.solved : h \in pending'.solved \/ h \notin Known(pending')]_vars
  <2> SUFFICES ASSUME IInv, Next
               PROVE  \A h \in pending.solved : h \in pending'.solved \/ h \notin Known(pending')
    OBVIOUS
  <2>0. WellFormed(Lanes, cap, pending)
    BY WellFormedPending DEF IInv
  <2>1. ASSUME NEW h \in Lanes, NEW paid \in BOOLEAN, insert(h, paid)
        PROVE  pending'.solved = pending.solved \intersect Known(pending')
    BY <2>0, <2>1, InsertFacts, CapPositive DEF InsertEffect, insert
  <2>2. ASSUME NEW h \in Lanes, claim(h)
        PROVE  pending.solved \subseteq pending'.solved
    <3>1. ClaimEffect(Lanes, cap, pending, h, pending')
      BY <2>0, <2>2, ClaimFacts, CapPositive DEF claim
    <3> QED BY <3>1 DEF ClaimEffect
  <2> QED BY <2>1, <2>2 DEF Next
<1> QED BY Invariance, <1>1, PTL DEF Spec, SolvedIsFinal

\* The table implements the ledger: every insertion is an offer that withdraws
\* the evicted lane with all that is known of it, and every claim is a claim or
\* changes nothing.
THEOREM RefinesLedger == Spec => ImplementsLedger
<1>1. Init => Ledger!Init
  <2> SUFFICES ASSUME Init PROVE Ledger!Init
    OBVIOUS
  <2>1. pending.order = <<>> /\ pending.solved = {} /\ pending.fee_lane = {}
    BY DEF Init, EmptyTable
  <2>2. Known(pending) = {}
    BY <2>1 DEF Known
  <2> QED BY <2>1, <2>2 DEF Ledger!Init
<1>2. IInv /\ [Next]_vars => [Ledger!Next]_(Ledger!ledger)
  <2> SUFFICES ASSUME IInv, [Next]_vars
               PROVE  Ledger!Next \/ UNCHANGED Ledger!ledger
    OBVIOUS
  <2>0. WellFormed(Lanes, cap, pending)
    BY WellFormedPending DEF IInv
  <2>1. ASSUME NEW h \in Lanes, NEW paid \in BOOLEAN, insert(h, paid)
        PROVE  Ledger!Offer(h, paid)
    <3>f. InsertEffect(Lanes, cap, pending, h, paid, pending')
      BY <2>0, <2>1, InsertFacts, CapPositive DEF insert
    <3>1. OfferEffect(pending, h, paid, pending')
      BY <2>0, <3>f, InsertOffers
    <3> QED BY <3>1 DEF OfferEffect, Ledger!Offer
  <2>2. ASSUME NEW h \in Lanes, claim(h)
        PROVE  Ledger!Claim(h) \/ UNCHANGED Ledger!ledger
    <3>f. ClaimEffect(Lanes, cap, pending, h, pending')
      BY <2>0, <2>2, ClaimFacts, CapPositive DEF claim
    <3>1. CASE can_claim(pending, h)
      BY <3>1, <3>f DEF ClaimEffect, can_claim, Ledger!Claim
    <3>2. CASE ~can_claim(pending, h)
      BY <3>2, <3>f DEF ClaimEffect, Ledger!ledger
    <3> QED BY <3>1, <3>2
  <2>3. CASE UNCHANGED vars
    BY <2>3 DEF vars, Ledger!ledger, Known
  <2>4. CASE Next
    BY <2>1, <2>2, <2>4 DEF Next, Ledger!Next
  <2> QED BY <2>3, <2>4
<1> QED BY Invariance, <1>1, <1>2, PTL DEF Spec, ImplementsLedger, Ledger!Spec
=============================================================================
