----------------------------- MODULE LaneTable -----------------------------
(***************************************************************************)
(* The bounded table of ZKas blocks that wait for a solved Kaspa parent    *)
(* (merged.rs, MergedPending), as operators on its value. A lane is the    *)
(* hash H_fc of such a block. The table keeps the lanes in insertion       *)
(* order, the ones whose solution has been claimed, and the ones whose     *)
(* Kaspa parent pays the pool.                                             *)
(***************************************************************************)
EXTENDS Naturals, Sequences

EmptyTable == [order |-> <<>>, solved |-> {}, fee_lane |-> {}]

\* The keys of `map`: exactly the lanes still in `order`.
Known(t) == {t.order[i] : i \in 1 .. Len(t.order)}

\* Fault: the flag of an evicted lane stays behind.
Evicted_keeps_solved(t, n) ==
    LET gone == {t.order[i] : i \in 1 .. n}
    IN  [order |-> SubSeq(t.order, n + 1, Len(t.order)),
         solved |-> t.solved, fee_lane |-> t.fee_lane \ gone]

\* The table without its n oldest lanes.
Evicted(t, n) ==
    LET gone == {t.order[i] : i \in 1 .. n}
    IN  [order |-> SubSeq(t.order, n + 1, Len(t.order)),
         solved |-> t.solved \ gone, fee_lane |-> t.fee_lane \ gone]

\* Fault: eviction leaves one lane too many.
Enqueued_off_by_one(t, h, cap) ==
    LET u == [order |-> Append(t.order, h), solved |-> t.solved, fee_lane |-> t.fee_lane]
    IN  IF Len(u.order) > cap + 1 THEN Evicted(u, Len(u.order) - cap) ELSE u

\* A new lane is appended and the oldest lanes beyond `cap` leave the table.
Enqueued(t, h, cap) ==
    LET u == [order |-> Append(t.order, h), solved |-> t.solved, fee_lane |-> t.fee_lane]
    IN  IF Len(u.order) > cap THEN Evicted(u, Len(u.order) - cap) ELSE u

\* Fault: a lane inserted again keeps the flag of its first template.
insert_with_payee_sticky(t, h, paid_pool, cap) ==
    LET u == IF h \in Known(t) THEN t ELSE Enqueued(t, h, cap)
    IN  [order |-> u.order, solved |-> u.solved,
         fee_lane |-> IF paid_pool THEN u.fee_lane \union {h} ELSE u.fee_lane]

\* Fault: inserting a lane again reopens it.
insert_with_payee_unsolved(t, h, paid_pool, cap) ==
    LET u == IF h \in Known(t) THEN t ELSE Enqueued(t, h, cap)
    IN  [order |-> u.order, solved |-> u.solved \ {h},
         fee_lane |-> IF paid_pool THEN u.fee_lane \union {h} ELSE u.fee_lane \ {h}]

\* The payee flag is set or cleared whether or not the lane is new.
insert_with_payee(t, h, paid_pool, cap) ==
    LET u == IF h \in Known(t) THEN t ELSE Enqueued(t, h, cap)
    IN  [order |-> u.order, solved |-> u.solved,
         fee_lane |-> IF paid_pool THEN u.fee_lane \union {h} ELSE u.fee_lane \ {h}]

paid_pool(t, h) == h \in t.fee_lane

\* Fault: a lane that was claimed already is claimed again.
can_claim_again(t, h) == h \in Known(t)

\* What claim_solution answers: true for the first claim of a known lane only.
can_claim(t, h) == h \in Known(t) /\ h \notin t.solved

claim_solution(t, h) ==
    [order |-> t.order, fee_lane |-> t.fee_lane,
     solved |-> IF can_claim(t, h) THEN t.solved \union {h} ELSE t.solved]

is_unsolved(t, h) == h \in Known(t) /\ h \notin t.solved
=============================================================================
