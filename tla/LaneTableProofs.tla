-------------------------- MODULE LaneTableProofs --------------------------
(***************************************************************************)
(* What the operations of the table of pending ZKas blocks return, for any *)
(* set L of lanes and any capacity. Every statement is about one call; the *)
(* modules with state machines cite them.                                  *)
(***************************************************************************)
EXTENDS LaneTable, SequenceTheorems, TLAPS

Tables(L) == [order : Seq(L), solved : SUBSET L, fee_lane : SUBSET L]

\* A well-formed table: within its capacity, each lane queued once, and no flag
\* of a lane that is not in the queue.
WellFormed(L, N, t) ==
    /\ t \in Tables(L)
    /\ Len(t.order) <= N
    /\ \A i, j \in 1 .. Len(t.order) : t.order[i] = t.order[j] => i = j
    /\ t.solved \subseteq Known(t)
    /\ t.fee_lane \subseteq Known(t)

\* Appending a new lane keeps the lanes of the queue distinct.
LEMMA AppendFacts ==
  ASSUME NEW L, NEW s \in Seq(L), NEW h \in L,
         \A i \in 1 .. Len(s) : s[i] # h,
         \A i, j \in 1 .. Len(s) : s[i] = s[j] => i = j
  PROVE  /\ Append(s, h) \in Seq(L)
         /\ Len(Append(s, h)) = Len(s) + 1
         /\ \A i \in 1 .. Len(s) : Append(s, h)[i] = s[i]
         /\ Append(s, h)[Len(s) + 1] = h
         /\ \A i, j \in 1 .. Len(s) + 1 : Append(s, h)[i] = Append(s, h)[j] => i = j
  OBVIOUS

\* Dropping the first lane of a queue with distinct lanes.
LEMMA TailFacts ==
  ASSUME NEW L, NEW s \in Seq(L), Len(s) >= 1,
         \A i, j \in 1 .. Len(s) : s[i] = s[j] => i = j
  PROVE  /\ SubSeq(s, 2, Len(s)) \in Seq(L)
         /\ Len(SubSeq(s, 2, Len(s))) = Len(s) - 1
         /\ \A i \in 1 .. Len(s) - 1 : SubSeq(s, 2, Len(s))[i] = s[i + 1]
         /\ \A i, j \in 1 .. Len(s) - 1 :
               SubSeq(s, 2, Len(s))[i] = SubSeq(s, 2, Len(s))[j] => i = j
<1> DEFINE q == SubSeq(s, 2, Len(s))
<1>1. Len(s) \in Nat
  OBVIOUS
<1>a. Len(s) \in Int /\ 2 \in Int /\ \A i \in 2 .. Len(s) : s[i] \in L
  BY <1>1
<1>b. q \in Seq(L)
  BY <1>a, SubSeqProperties
<1>c. Len(q) = IF 2 <= Len(s) THEN Len(s) - 2 + 1 ELSE 0
  BY <1>a, SubSeqProperties
<1>2. q \in Seq(L) /\ Len(q) = Len(s) - 1
  <2> DEFINE n == Len(s)
             m == Len(q)
  <2>1. n \in Nat /\ n >= 1 /\ m = IF 2 <= n THEN n - 2 + 1 ELSE 0
    BY <1>1, <1>c
  <2> HIDE DEF n, m
  <2>2. m = n - 1
    BY <2>1
  <2> QED BY <2>2, <1>b DEF n, m
<1>3. \A i \in 1 .. Len(s) - 1 : q[i] = s[i + 1]
  BY <1>1, SubSeqProperties
<1> HIDE DEF q
<1>4. \A i, j \in 1 .. Len(s) - 1 : q[i] = q[j] => i = j
  BY <1>1, <1>3
<1> QED BY <1>2, <1>3, <1>4 DEF q

\* What Enqueued(t, h, N) yields: a well-formed table with h and without the
\* flags of the lane it may have dropped.
EnqueueEffect(L, N, t, h, u) ==
    /\ WellFormed(L, N, u)
    /\ h \in Known(u)
    /\ Known(u) \subseteq Known(t) \union {h}
    /\ u.solved = t.solved \intersect Known(u)
    /\ u.fee_lane = t.fee_lane \intersect Known(u)

\* insert_with_payee's branch for a lane it does not know.
LEMMA EnqueueFacts ==
  ASSUME NEW L, NEW N \in Nat \ {0}, NEW t, WellFormed(L, N, t), NEW h \in L, h \notin Known(t)
  PROVE  EnqueueEffect(L, N, t, h, Enqueued(t, h, N))
<1> DEFINE s == Append(t.order, h)
           u == [order |-> s, solved |-> t.solved, fee_lane |-> t.fee_lane]
<1>1. /\ t.order \in Seq(L) /\ Len(t.order) \in Nat /\ Len(t.order) <= N
      /\ t.solved \in SUBSET L /\ t.fee_lane \in SUBSET L
      /\ t = [order |-> t.order, solved |-> t.solved, fee_lane |-> t.fee_lane]
  BY DEF WellFormed, Tables
<1>2. /\ s \in Seq(L)
      /\ Len(s) = Len(t.order) + 1
      /\ \A i \in 1 .. Len(t.order) : s[i] = t.order[i]
      /\ s[Len(t.order) + 1] = h
      /\ \A i, j \in 1 .. Len(s) : s[i] = s[j] => i = j
  <2>1. \A i \in 1 .. Len(t.order) : t.order[i] # h
    BY DEF Known
  <2>2. \A i, j \in 1 .. Len(t.order) : t.order[i] = t.order[j] => i = j
    BY DEF WellFormed
  <2> QED BY <1>1, <2>1, <2>2, AppendFacts
<1>4. Known(t) = {t.order[i] : i \in 1 .. Len(t.order)}
  BY DEF Known
<1> HIDE DEF s
<1>5. CASE Len(s) <= N
  <2>1. Enqueued(t, h, N) = [order |-> s, solved |-> t.solved, fee_lane |-> t.fee_lane]
    BY <1>1, <1>2, <1>5 DEF Enqueued, s
  <2> DEFINE w == [order |-> s, solved |-> t.solved, fee_lane |-> t.fee_lane]
  <2>2. Known(w) = Known(t) \union {h}
    BY <1>1, <1>2, <1>4 DEF Known
  <2>3. w \in Tables(L)
    BY <1>1, <1>2 DEF Tables
  <2>4. EnqueueEffect(L, N, t, h, w)
    BY <2>2, <2>3, <1>1, <1>2, <1>5 DEF EnqueueEffect, WellFormed
  <2> QED BY <2>1, <2>4
<1>6. CASE ~(Len(s) <= N)
  <2> DEFINE q == SubSeq(s, 2, Len(s))
             w == [order |-> q, solved |-> t.solved \ {s[1]}, fee_lane |-> t.fee_lane \ {s[1]}]
  <2>1. Len(s) = N + 1 /\ Len(s) - N = 1
    BY <1>1, <1>2, <1>6
  <2>2. {u.order[i] : i \in 1 .. 1} = {s[1]}
    OBVIOUS
  <2>3. Enqueued(t, h, N) = Evicted(u, 1)
    BY <2>1, <1>6 DEF Enqueued, s
  <2>a. u.order = s /\ u.solved = t.solved /\ u.fee_lane = t.fee_lane /\ 1 + 1 = 2
    OBVIOUS
  <2> HIDE DEF u
  <2>4. Enqueued(t, h, N) = w
    BY <2>3, <2>2, <2>a DEF Evicted
  <2>5. /\ q \in Seq(L)
        /\ Len(q) = Len(s) - 1
        /\ \A i \in 1 .. Len(q) : q[i] = s[i + 1]
        /\ \A i, j \in 1 .. Len(q) : q[i] = q[j] => i = j
    BY <1>2, <1>1, TailFacts
  <2> HIDE DEF q
  <2>6. /\ Known(w) = {q[i] : i \in 1 .. Len(q)}
        /\ w.solved = t.solved \ {s[1]} /\ w.fee_lane = t.fee_lane \ {s[1]}
    BY DEF Known
  <2>7. \A x : x \in Known(w) <=> x \in Known(t) \union {h} /\ x # s[1]
    <3>1. ASSUME NEW x \in Known(w) PROVE x \in Known(t) \union {h} /\ x # s[1]
      <4>1. PICK i \in 1 .. Len(q) : x = q[i]
        BY <3>1, <2>6
      <4>2. x = s[i + 1] /\ i + 1 \in 1 .. Len(s) /\ i + 1 # 1 /\ 1 \in 1 .. Len(s)
        BY <4>1, <2>5, <1>1, <1>2
      <4>3. x # s[1]
        BY <4>2, <1>2
      <4> QED BY <4>2, <4>3, <1>1, <1>2, <1>4
    <3>2. ASSUME NEW x, x \in Known(t) \union {h}, x # s[1] PROVE x \in Known(w)
      <4>1. PICK i \in 1 .. Len(s) : x = s[i]
        BY <3>2, <1>1, <1>2, <1>4
      <4>2. i # 1 /\ i - 1 \in 1 .. Len(q)
        BY <4>1, <3>2, <2>5, <1>1, <1>2
      <4>3. q[i - 1] = s[i]
        BY <4>2, <2>5
      <4> QED BY <4>1, <4>2, <4>3, <2>6
    <3> QED BY <3>1, <3>2
  <2>8. h # s[1]
    <3>1. 1 \in 1 .. Len(s) /\ Len(s) \in 1 .. Len(s) /\ Len(s) # 1 /\ s[Len(s)] = h
      BY <2>1, <1>1, <1>2
    <3> QED BY <3>1, <1>2
  <2>9. w \in Tables(L)
    BY <2>5, <1>1 DEF Tables
  <2>10. Len(w.order) <= N /\ w.order = q
    BY <2>1, <2>5
  <2>11. t.solved \subseteq Known(t) /\ t.fee_lane \subseteq Known(t)
    BY DEF WellFormed
  <2> HIDE DEF w
  <2>12. WellFormed(L, N, w)
    BY <2>5, <2>6, <2>7, <2>9, <2>10, <2>11 DEF WellFormed
  <2>13. EnqueueEffect(L, N, t, h, w)
    BY <2>6, <2>7, <2>8, <2>11, <2>12 DEF EnqueueEffect
  <2> QED BY <2>4, <2>13
<1> QED BY <1>5, <1>6

\* insert_with_payee, for a lane that is new and for one that is not.
InsertEffect(L, N, t, h, paid, u) ==
    /\ WellFormed(L, N, u)
    /\ h \in Known(u)
    /\ Known(u) \subseteq Known(t) \union {h}
    /\ u.solved = t.solved \intersect Known(u)
    /\ \A g \in L : g \in u.fee_lane <=>
          /\ g \in Known(u)
          /\ IF g = h THEN paid ELSE g \in t.fee_lane

\* An insertion keeps the table well formed; every lane that stays keeps its
\* solved flag, and the payee flag of the inserted lane is the given one.
LEMMA InsertFacts ==
  ASSUME NEW L, NEW N \in Nat \ {0}, NEW t, WellFormed(L, N, t),
         NEW h \in L, NEW paid \in BOOLEAN
  PROVE  InsertEffect(L, N, t, h, paid, insert_with_payee(t, h, paid, N))
<1> DEFINE u == IF h \in Known(t) THEN t ELSE Enqueued(t, h, N)
           v == insert_with_payee(t, h, paid, N)
<1>1. EnqueueEffect(L, N, t, h, u)
  <2>1. CASE h \in Known(t)
    BY <2>1 DEF EnqueueEffect, WellFormed
  <2>2. CASE h \notin Known(t)
    BY <2>2, EnqueueFacts
  <2> QED BY <2>1, <2>2
<1> DEFINE f == IF paid THEN u.fee_lane \union {h} ELSE u.fee_lane \ {h}
<1>2. v = [order |-> u.order, solved |-> u.solved, fee_lane |-> f]
  BY DEF insert_with_payee
<1> HIDE DEF u, v
<1>3. Known(v) = Known(u)
  BY <1>2 DEF Known
<1>4. v.order = u.order /\ v.solved = u.solved /\ v.fee_lane = f
  BY <1>2
<1>5. f \in SUBSET L /\ f \subseteq Known(u)
  BY <1>1 DEF EnqueueEffect, WellFormed, Tables
<1>6. v \in Tables(L)
  BY <1>1, <1>2, <1>5 DEF EnqueueEffect, WellFormed, Tables
<1>7. WellFormed(L, N, v)
  BY <1>1, <1>3, <1>4, <1>5, <1>6 DEF EnqueueEffect, WellFormed
<1>8. /\ h \in Known(u)
      /\ Known(u) \subseteq Known(t) \union {h}
      /\ u.solved = t.solved \intersect Known(u)
      /\ u.fee_lane = t.fee_lane \intersect Known(u)
  BY <1>1 DEF EnqueueEffect
<1>9. \A g \in L : g \in f <=> g \in Known(u) /\ IF g = h THEN paid ELSE g \in t.fee_lane
  BY <1>8
<1>10. InsertEffect(L, N, t, h, paid, v)
  BY <1>3, <1>4, <1>7, <1>8, <1>9 DEF InsertEffect
<1> QED BY <1>10 DEF v

\* An insertion in the words of the ledger: the lanes that leave the table take
\* their flags along, the others keep them, and the inserted lane gets its payee.
OfferEffect(t, h, paid, u) ==
    \E gone \in SUBSET (Known(t) \ {h}) :
        /\ Known(u) = (Known(t) \union {h}) \ gone
        /\ u.solved = t.solved \ gone
        /\ u.fee_lane = IF paid THEN (t.fee_lane \ gone) \union {h} ELSE (t.fee_lane \ gone) \ {h}

\* Every insertion is an offer.
LEMMA InsertOffers ==
  ASSUME NEW L, NEW N, NEW t, WellFormed(L, N, t), NEW h \in L, NEW paid \in BOOLEAN,
         NEW u, InsertEffect(L, N, t, h, paid, u)
  PROVE  OfferEffect(t, h, paid, u)
<1> DEFINE gone == Known(t) \ Known(u)
<1>1. gone \in SUBSET (Known(t) \ {h}) /\ Known(u) = (Known(t) \union {h}) \ gone
  BY DEF InsertEffect
<1>2. u.solved = t.solved \ gone
  BY DEF InsertEffect, WellFormed
<1>3. u.fee_lane = IF paid THEN (t.fee_lane \ gone) \union {h} ELSE (t.fee_lane \ gone) \ {h}
  <2>1. u.fee_lane \subseteq L /\ t.fee_lane \subseteq L /\ t.fee_lane \subseteq Known(t)
    BY DEF InsertEffect, WellFormed, Tables
  <2> QED BY <2>1 DEF InsertEffect
<1> QED BY <1>1, <1>2, <1>3 DEF OfferEffect

ClaimEffect(L, N, t, h, u) ==
    /\ WellFormed(L, N, u)
    /\ Known(u) = Known(t)
    /\ u.fee_lane = t.fee_lane
    /\ u.solved = IF can_claim(t, h) THEN t.solved \union {h} ELSE t.solved

\* claim_solution changes the solved flag of a lane it can claim and nothing else.
LEMMA ClaimFacts ==
  ASSUME NEW L, NEW N \in Nat \ {0}, NEW t, WellFormed(L, N, t), NEW h \in L
  PROVE  ClaimEffect(L, N, t, h, claim_solution(t, h))
<1> DEFINE g == IF can_claim(t, h) THEN t.solved \union {h} ELSE t.solved
           v == claim_solution(t, h)
<1>1. v = [order |-> t.order, fee_lane |-> t.fee_lane, solved |-> g]
  BY DEF claim_solution
<1>2. g \in SUBSET L /\ g \subseteq Known(t)
  BY DEF WellFormed, Tables, can_claim
<1> HIDE DEF g, v
<1>3. /\ v.order = t.order /\ v.fee_lane = t.fee_lane
      /\ v.solved = g /\ Known(v) = Known(t)
  BY <1>1 DEF Known
<1>4. v \in Tables(L)
  BY <1>1, <1>2 DEF WellFormed, Tables
<1>5. WellFormed(L, N, v)
  BY <1>2, <1>3, <1>4 DEF WellFormed
<1> QED BY <1>3, <1>5 DEF ClaimEffect, g, v

\* The empty table is well formed.
LEMMA EmptyFacts ==
  ASSUME NEW L, NEW N \in Nat \ {0}
  PROVE  WellFormed(L, N, EmptyTable) /\ Known(EmptyTable) = {}
<1>1. EmptyTable.order = <<>> /\ EmptyTable.solved = {} /\ EmptyTable.fee_lane = {}
  BY DEF EmptyTable
<1>2. Known(EmptyTable) = {}
  BY <1>1 DEF Known
<1>3. EmptyTable \in Tables(L)
  BY DEF EmptyTable, Tables
<1> QED BY <1>1, <1>2, <1>3 DEF WellFormed
=============================================================================
