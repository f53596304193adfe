------------------------- MODULE MiningStateProofs -------------------------
(***************************************************************************)
(* Proofs about the job ring, for every ring size, every number of jobs    *)
(* and every set of readers.                                               *)
(***************************************************************************)
EXTENDS MiningState, Integers, TLAPS

-----------------------------------------------------------------------------
(* Arithmetic of the slot function. *)

\* Division with remainder.
LEMMA DivMod ==
  ASSUME NEW a \in Nat, NEW m \in Nat \ {0}
  PROVE  /\ a \div m \in Nat
         /\ (a % m) \in 0 .. m - 1
         /\ a = m * (a \div m) + (a % m)
  BY Z3

\* Multiples of m are at least m apart.
LEMMA MultiplesApart ==
  ASSUME NEW q \in Int, NEW s \in Int, NEW m \in Nat \ {0}, q < s
  PROVE  m * q + m <= m * s
  BY Z3

\* Quotient and remainder are unique.
LEMMA DivModUnique ==
  ASSUME NEW q \in Int, NEW s \in Int, NEW r \in Int, NEW t \in Int,
         NEW m \in Nat \ {0},
         0 <= r, r < m, 0 <= t, t < m, m * q + r = m * s + t
  PROVE  r = t
  <1>1. ~ (q < s)
    BY MultiplesApart, Z3
  <1>2. ~ (s < q)
    BY MultiplesApart, Z3
  <1> QED
    BY <1>1, <1>2, Z3

\* Every id has a slot.
LEMMA SlotInRange ==
  ASSUME NEW a \in Nat
  PROVE  Slot(a) \in Slots
  BY DivMod, MaxJobsAssumption DEF Slot, Slots

\* The id MaxJobs later comes back to the same slot.
LEMMA SlotShift ==
  ASSUME NEW a \in Nat
  PROVE  Slot(a + MaxJobs) = Slot(a)
  <1> DEFINE m == MaxJobs
             q == a \div m
             t == a % m
             s == (a + m) \div m
             r == (a + m) % m
  <1>0. m \in Nat \ {0} /\ a + m \in Nat
    BY MaxJobsAssumption
  <1>1. a + m = m * s + r /\ s \in Nat /\ r \in 0 .. m - 1
    BY <1>0, DivMod
  <1>2. a = m * q + t /\ q \in Nat /\ t \in 0 .. m - 1
    BY <1>0, DivMod
  <1> HIDE DEF m, q, s, r, t
  <1>3. m * (q + 1) = m * q + m
    BY <1>0, <1>2, Z3
  <1>4. m * s + r = m * (q + 1) + t
    BY <1>0, <1>1, <1>2, <1>3, Z3
  <1>5. r = t
    BY <1>0, <1>1, <1>2, <1>4, DivModUnique, Z3
  <1> QED
    BY <1>5 DEF r, t, m, Slot

\* Two ids that share a slot are at least MaxJobs apart.
LEMMA SlotCollision ==
  ASSUME NEW a \in Nat, NEW b \in Nat, a < b, Slot(a) = Slot(b)
  PROVE  a + MaxJobs <= b
  <1> DEFINE m == MaxJobs
             q == a \div m
             t == a % m
             s == b \div m
             r == b % m
  <1>0. m \in Nat \ {0}
    BY MaxJobsAssumption
  <1>1. b = m * s + r /\ s \in Nat /\ r \in 0 .. m - 1
    BY <1>0, DivMod
  <1>2. a = m * q + t /\ q \in Nat /\ t \in 0 .. m - 1
    BY <1>0, DivMod
  <1>3. r = t
    BY DEF Slot
  <1> HIDE DEF m, q, s, r, t
  <1>4. q < s
    <2>1. ASSUME s <= q PROVE FALSE
      <3>1. m * s <= m * q
        BY <1>0, <1>1, <1>2, <2>1, Z3
      <3> QED
        BY <3>1, <1>0, <1>1, <1>2, <1>3, Z3
    <2> QED
      BY <2>1, <1>1, <1>2
  <1>5. m * q + m <= m * s
    BY <1>0, <1>1, <1>2, <1>4, MultiplesApart
  <1> QED
    BY <1>0, <1>1, <1>2, <1>3, <1>5, Z3 DEF m

-----------------------------------------------------------------------------
(* The inductive invariant. *)

\* What a reader between its two locks still knows of the id it has read.
LookInv ==
    \A r \in Readers :
        /\ look[r].at = "diff" =>
              /\ look[r].id \in 1 .. job_counter
              /\ job_ids[Slot(look[r].id)] \in look[r].id .. job_counter
        /\ look[r].at = "latest" => look[r].id \in 1 .. job_counter

IInv == TypeOK /\ RingInv /\ LookInv /\ LatestIsExact /\ JobDiffOfSlot

\* The greatest stored id is the last one handed out.
LEMMA MaxStored ==
  ASSUME TypeOK, SlotHoldsNewest, stored_job_ids # {}
  PROVE  Max(stored_job_ids) = job_counter /\ job_counter \in 1 .. job_counter
  <1>1. \A k \in stored_job_ids : k \in 1 .. job_counter
    BY DEF TypeOK, SlotHoldsNewest, stored_job_ids
  <1>2. job_counter \in Nat /\ job_counter > 0
    BY <1>1 DEF TypeOK
  <1>3. Slot(job_counter) \in Slots
    BY <1>2, SlotInRange
  <1>4. /\ job_ids[Slot(job_counter)] \in 1 .. job_counter
        /\ Slot(job_ids[Slot(job_counter)]) = Slot(job_counter)
        /\ job_ids[Slot(job_counter)] + MaxJobs > job_counter
    BY <1>2, <1>3 DEF SlotHoldsNewest
  <1>5. job_ids[Slot(job_counter)] = job_counter
    <2> DEFINE k == job_ids[Slot(job_counter)]
    <2>1. k \in Nat /\ k <= job_counter /\ Slot(k) = Slot(job_counter)
          /\ k + MaxJobs > job_counter
      BY <1>2, <1>4
    <2> HIDE DEF k
    <2>2. ~ (k < job_counter)
      BY <2>1, <1>2, SlotCollision, MaxJobsAssumption
    <2> QED
      BY <2>1, <2>2, <1>2 DEF k
  <1>6. job_counter \in stored_job_ids
    BY <1>2, <1>3, <1>5, NoneAssumption DEF stored_job_ids
  <1>7. \A y \in stored_job_ids : job_counter >= y
    BY <1>1, <1>2
  <1>8. \A x \in stored_job_ids :
           (\A y \in stored_job_ids : x >= y) => x = job_counter
    BY <1>1, <1>2, <1>6
  <1>9. Max(stored_job_ids) = job_counter
    <2>1. /\ Max(stored_job_ids) \in stored_job_ids
          /\ \A y \in stored_job_ids : Max(stored_job_ids) >= y
      BY <1>6, <1>7, Zenon DEF Max
    <2> QED
      BY <1>8, <2>1, Zenon
  <1> QED
    BY <1>2, <1>9

\* A look-up by id is exact in every state of the ring.
LEMMA GetJobExact ==
  ASSUME TypeOK, RingInv, NEW id \in Nat \ {0}
  PROVE  get_job(id) = IF id <= job_counter /\ id + MaxJobs > job_counter
                       THEN published[id].job ELSE None
  <1> DEFINE s == Slot(id)
             k == job_ids[s]
  <1>0. job_counter \in Nat /\ MaxJobs \in Nat \ {0} /\ s \in Slots
    BY SlotInRange, MaxJobsAssumption DEF TypeOK
  <1>1. CASE id <= job_counter /\ id + MaxJobs > job_counter
    <2>1. k \in 1 .. job_counter /\ Slot(k) = Slot(id) /\ k + MaxJobs > job_counter
      BY <1>0, <1>1 DEF RingInv, SlotHoldsNewest
    <2>2. ~ (k < id) /\ ~ (id < k)
      <3> HIDE DEF k
      <3> QED
        BY <2>1, <1>0, <1>1, SlotCollision
    <2>3. k = id
      <3> HIDE DEF k
      <3> QED
        BY <2>1, <2>2, <1>0
    <2> QED
      BY <1>0, <1>1, <2>1, <2>3 DEF RingInv, SlotMatchesHistory, get_job
  <1>2. CASE ~ (id <= job_counter /\ id + MaxJobs > job_counter)
    <2>1. k # id
      <3>1. CASE k = None
        BY <3>1, NoneAssumption
      <3>2. CASE k # None
        BY <3>2, <1>0, <1>2 DEF RingInv, SlotHoldsNewest
      <3> QED
        BY <3>1, <3>2
    <2> QED
      BY <2>1, <1>2 DEF get_job
  <1> QED
    BY <1>1, <1>2

-----------------------------------------------------------------------------
(* IInv is established by Init and preserved by every step. *)

\* The empty ring satisfies the invariant.
LEMMA InitIInv == Init => IInv
  <1> SUFFICES ASSUME Init PROVE IInv
    OBVIOUS
  <1>1. TypeOK
    BY MaxPublishAssumption DEF Init, TypeOK, Idle, Looks
  <1>2. RingInv
    BY NoneAssumption DEF Init, RingInv, SlotHoldsNewest, SlotMatchesHistory
  <1>3. LookInv /\ LatestIsExact /\ JobDiffOfSlot
    BY DEF Init, LookInv, LatestIsExact, JobDiffOfSlot, Idle
  <1> QED
    BY <1>1, <1>2, <1>3 DEF IInv

\* add_job touches one slot and extends the history by one id.
AddJobEffect(job) ==
    /\ job_counter \in Nat /\ job_counter < MaxPublish
    /\ job_counter' = job_counter + 1
    /\ Slot(job_counter') \in Slots
    /\ jobs' = [jobs EXCEPT ![Slot(job_counter')] = job]
    /\ job_ids' = [job_ids EXCEPT ![Slot(job_counter')] = job_counter']
    /\ job_diffs' = [job_diffs EXCEPT ![Slot(job_counter')] = stratum_diff]
    /\ published'[job_counter'] = [job |-> job, diff |-> stratum_diff]
    /\ \A i \in 1 .. job_counter : published'[i] = published[i]
    /\ UNCHANGED <<stratum_diff, look>>

\* add_job, as equations on the ring and on the history.
LEMMA AddJobFacts ==
  ASSUME TypeOK, NEW job \in Jobs, add_job(job)
  PROVE  AddJobEffect(job)
  <1>1. job_counter \in Nat /\ job_counter' = job_counter + 1 /\ job_counter < MaxPublish
    BY DEF TypeOK, add_job, next_id
  <1>2. Slot(job_counter') \in Slots
    BY <1>1, SlotInRange
  <1>3. published' = [i \in 1 .. job_counter' |->
                        IF i = job_counter' THEN [job |-> job, diff |-> stratum_diff]
                                            ELSE published[i]]
    BY <1>1 DEF add_job, next_id
  <1>4. job_counter' \in 1 .. job_counter' /\ \A i \in 1 .. job_counter : i \in 1 .. job_counter' /\ i # job_counter'
    BY <1>1
  <1>5. /\ published'[job_counter'] = [job |-> job, diff |-> stratum_diff]
        /\ \A i \in 1 .. job_counter : published'[i] = published[i]
    BY <1>3, <1>4, Zenon
  <1> QED
    BY <1>1, <1>2, <1>5 DEF AddJobEffect, add_job, next_id, recorded_diff

\* add_job keeps the types.
LEMMA AddJobType ==
  ASSUME TypeOK, NEW job \in Jobs, add_job(job)
  PROVE  TypeOK'
  <1>f. AddJobEffect(job)
    BY AddJobFacts
  <1>1. job_counter' \in 0 .. MaxPublish
    BY <1>f, MaxPublishAssumption DEF AddJobEffect
  <1>2. published' \in [1 .. job_counter' -> Published]
    <2>1. published \in [1 .. job_counter -> Published] /\ [job |-> job, diff |-> stratum_diff] \in Published
      BY DEF TypeOK, Published
    <2>2. \A i \in 1 .. job_counter' : i # job_counter' => i \in 1 .. job_counter
      BY <1>f DEF AddJobEffect
    <2>3. published' = [i \in 1 .. job_counter' |->
                        IF i = job_counter' THEN [job |-> job, diff |-> stratum_diff]
                                            ELSE published[i]]
      BY <1>f DEF AddJobEffect, add_job, next_id
    <2> QED
      BY <2>1, <2>2, <2>3
  <1>3. /\ jobs' \in [Slots -> Jobs \union {None}]
        /\ job_ids' \in [Slots -> Nat \union {None}]
        /\ job_diffs' \in [Slots -> Diffs \union {None}]
    BY <1>f DEF AddJobEffect, TypeOK
  <1>4. stratum_diff' \in Diffs \union {None} /\ look' \in [Readers -> Looks]
    BY <1>f DEF AddJobEffect, TypeOK
  <1> QED
    BY <1>1, <1>2, <1>3, <1>4 DEF TypeOK

\* add_job puts the newest job of its residue into the slot and leaves the others.
LEMMA AddJobRing ==
  ASSUME TypeOK, RingInv, NEW job \in Jobs, add_job(job)
  PROVE  RingInv'
  <1>f. AddJobEffect(job)
    BY AddJobFacts
  <1> DEFINE n == job_counter + 1
  <1>0. /\ job_counter \in Nat /\ MaxJobs \in Nat \ {0} /\ job_counter' = n
        /\ n \in Nat /\ Slot(n) \in Slots
    BY <1>f, MaxJobsAssumption DEF AddJobEffect
  <1>1. SlotHoldsNewest'
    <2> SUFFICES ASSUME NEW s \in Slots
                 PROVE  IF \E i \in 1 .. n : Slot(i) = s
                        THEN /\ job_ids'[s] \in 1 .. n
                             /\ Slot(job_ids'[s]) = s
                             /\ job_ids'[s] + MaxJobs > n
                        ELSE job_ids'[s] = None
      BY <1>0 DEF SlotHoldsNewest, Slot, Slots
    <2>1. CASE s = Slot(n)
      <3>1. job_ids'[s] = n
        BY <2>1, <1>0, <1>f DEF AddJobEffect, TypeOK
      <3> QED
        BY <3>1, <2>1, <1>0
    <2>2. CASE s # Slot(n)
      <3>1. job_ids'[s] = job_ids[s]
        BY <2>2, <1>0, <1>f DEF AddJobEffect, TypeOK
      <3>2. CASE \E i \in 1 .. job_counter : Slot(i) = s
        <4> DEFINE k == job_ids[s]
        <4>1. k \in 1 .. job_counter /\ Slot(k) = s /\ k + MaxJobs > job_counter
          BY <3>2 DEF RingInv, SlotHoldsNewest
        <4>2. k + MaxJobs # n
          BY <4>1, <2>2, SlotShift
        <4>3. \E i \in 1 .. n : Slot(i) = s
          BY <3>2, <1>0
        <4> HIDE DEF k
        <4>4. k \in 1 .. n /\ k + MaxJobs > n
          BY <4>1, <4>2, <1>0
        <4> QED
          BY <4>1, <4>3, <4>4, <3>1 DEF k
      <3>3. CASE ~ \E i \in 1 .. job_counter : Slot(i) = s
        <4>1. job_ids[s] = None
          BY <3>3 DEF RingInv, SlotHoldsNewest
        <4>2. ~ \E i \in 1 .. n : Slot(i) = s
          BY <3>3, <2>2, <1>0
        <4> QED
          BY <4>1, <4>2, <3>1
      <3> QED
        BY <3>2, <3>3
    <2> QED
      BY <2>1, <2>2
  <1>2. SlotMatchesHistory'
    <2> SUFFICES ASSUME NEW s \in Slots, job_ids'[s] \in 1 .. n
                 PROVE  /\ jobs'[s] = published'[job_ids'[s]].job
                        /\ job_diffs'[s] = published'[job_ids'[s]].diff
      BY <1>0 DEF SlotMatchesHistory, Slots
    <2>1. CASE s = Slot(n)
      <3>1. job_ids'[s] = n /\ jobs'[s] = job /\ job_diffs'[s] = stratum_diff
        BY <2>1, <1>0, <1>f DEF AddJobEffect, TypeOK
      <3> QED
        BY <3>1, <1>0, <1>f DEF AddJobEffect
    <2>2. CASE s # Slot(n)
      <3>1. job_ids'[s] = job_ids[s] /\ jobs'[s] = jobs[s] /\ job_diffs'[s] = job_diffs[s]
        BY <2>2, <1>0, <1>f DEF AddJobEffect, TypeOK
      <3>2. job_ids[s] \in 1 .. job_counter
        BY <3>1, NoneAssumption, <1>0 DEF RingInv, SlotHoldsNewest
      <3> QED
        BY <3>1, <3>2, <1>f DEF AddJobEffect, RingInv, SlotMatchesHistory
    <2> QED
      BY <2>1, <2>2
  <1> QED
    BY <1>1, <1>2 DEF RingInv

\* The readers' knowledge and answers survive an add_job: ids only grow and the
\* history of an id never changes.
LEMMA AddJobLooks ==
  ASSUME IInv, NEW job \in Jobs, add_job(job)
  PROVE  LookInv' /\ LatestIsExact' /\ JobDiffOfSlot'
  <1>f. AddJobEffect(job)
    BY AddJobFacts DEF IInv
  <1> DEFINE n == job_counter + 1
  <1>0. /\ job_counter \in Nat /\ n \in Nat /\ job_counter' = n /\ look' = look
        /\ Slot(n) \in Slots
        /\ \A i \in 1 .. job_counter : i \in 1 .. n /\ published'[i] = published[i]
    BY <1>f DEF AddJobEffect
  <1>1. LookInv'
    <2> SUFFICES ASSUME NEW r \in Readers
                 PROVE  /\ look[r].at = "diff" =>
                              /\ look[r].id \in 1 .. n
                              /\ job_ids'[Slot(look[r].id)] \in look[r].id .. n
                        /\ look[r].at = "latest" => look[r].id \in 1 .. n
      BY <1>0 DEF LookInv, Slot
    <2>1. look[r].at = "latest" => look[r].id \in 1 .. n
      BY <1>0 DEF IInv, LookInv
    <2>2. ASSUME look[r].at = "diff"
          PROVE  look[r].id \in 1 .. n /\ job_ids'[Slot(look[r].id)] \in look[r].id .. n
      <3> DEFINE k == look[r].id
      <3>1. k \in 1 .. job_counter /\ job_ids[Slot(k)] \in k .. job_counter
        BY <2>2 DEF IInv, LookInv
      <3>2. Slot(k) \in Slots
        BY <3>1, SlotInRange
      <3>3. job_ids'[Slot(k)] = IF Slot(k) = Slot(n) THEN n ELSE job_ids[Slot(k)]
        BY <3>2, <1>f DEF AddJobEffect, IInv, TypeOK
      <3> HIDE DEF k
      <3>4. job_ids'[Slot(k)] \in k .. n /\ k \in 1 .. n
        BY <3>1, <3>3, <1>0
      <3> QED
        BY <3>4 DEF k
    <2> QED
      BY <2>1, <2>2
  <1>2. LatestIsExact'
    BY <1>0 DEF IInv, LatestIsExact
  <1>3. JobDiffOfSlot'
    <2> SUFFICES ASSUME NEW r \in Readers, look[r].at = "diff_done", look[r].result # None
                 PROVE  /\ look[r].id \in 1 .. n
                        /\ \E i \in look[r].id .. n :
                              Slot(i) = Slot(look[r].id) /\ look[r].result = published'[i].diff
      BY <1>0 DEF JobDiffOfSlot, Slot
    <2>1. PICK i \in look[r].id .. job_counter :
                  Slot(i) = Slot(look[r].id) /\ look[r].result = published[i].diff
      BY DEF IInv, JobDiffOfSlot
    <2>2. look[r].id \in 1 .. job_counter
      BY DEF IInv, JobDiffOfSlot
    <2>3. i \in 1 .. job_counter /\ i \in look[r].id .. n
      BY <2>1, <2>2, <1>0
    <2> QED
      BY <2>1, <2>2, <2>3, <1>0
  <1> QED
    BY <1>1, <1>2, <1>3

\* Every step preserves the inductive invariant.
LEMMA NextIInv == IInv /\ [Next]_vars => IInv'
  <1> SUFFICES ASSUME IInv, [Next]_vars PROVE IInv'
    OBVIOUS
  <1> USE DEF IInv
  <1>1. ASSUME NEW job \in Jobs, add_job(job) PROVE IInv'
    BY <1>1, AddJobType, AddJobRing, AddJobLooks
  <1>2. ASSUME NEW d \in Diffs, set_stratum_diff(d) PROVE IInv'
    <2>1. TypeOK'
      BY <1>2 DEF set_stratum_diff, TypeOK
    <2>2. RingInv' /\ LookInv' /\ LatestIsExact' /\ JobDiffOfSlot'
      BY <1>2 DEF set_stratum_diff, RingInv, SlotHoldsNewest, SlotMatchesHistory,
                  LookInv, LatestIsExact, JobDiffOfSlot
    <2> QED
      BY <2>1, <2>2
  <1>ring. ASSUME UNCHANGED <<jobs, job_ids, job_diffs, job_counter, stratum_diff, published>>,
                  look' \in [Readers -> Looks]
           PROVE  TypeOK' /\ RingInv'
    BY <1>ring DEF TypeOK, RingInv, SlotHoldsNewest, SlotMatchesHistory
  <1>3. ASSUME NEW r \in Readers, NEW id \in 1 .. MaxPublish, get_job_diff_check(r, id)
        PROVE  IInv'
    <2>1. look' \in [Readers -> Looks]
      BY <1>3, MaxPublishAssumption DEF get_job_diff_check, TypeOK, Looks
    <2>2. LookInv'
      <3>1. job_ids[Slot(id)] = id => id \in 1 .. job_counter
        <4>1. Slot(id) \in Slots
          BY SlotInRange, MaxPublishAssumption
        <4> QED
          BY <4>1, NoneAssumption DEF RingInv, SlotHoldsNewest
      <3> QED
        BY <1>3, <3>1 DEF get_job_diff_check, job_id_stored, LookInv, TypeOK
    <2>3. LatestIsExact' /\ JobDiffOfSlot'
      BY <1>3 DEF get_job_diff_check, job_id_stored, LatestIsExact, JobDiffOfSlot, TypeOK
    <2> QED
      BY <1>3, <1>ring, <2>1, <2>2, <2>3 DEF get_job_diff_check
  <1>4. ASSUME NEW r \in Readers, get_job_diff_read(r)
        PROVE  IInv'
    <2>0. /\ look[r].id \in 1 .. job_counter
          /\ job_ids[Slot(look[r].id)] \in look[r].id .. job_counter
          /\ Slot(look[r].id) \in Slots
      BY <1>4, SlotInRange DEF get_job_diff_read, LookInv
    <2>1. look' \in [Readers -> Looks]
      BY <1>4, <2>0 DEF get_job_diff_read, TypeOK, Looks
    <2>2. LookInv' /\ LatestIsExact'
      BY <1>4 DEF get_job_diff_read, LookInv, LatestIsExact, TypeOK
    <2>3. JobDiffOfSlot'
      <3>1. /\ job_ids[Slot(look[r].id)] \in 1 .. job_counter
            /\ Slot(job_ids[Slot(look[r].id)]) = Slot(look[r].id)
            /\ job_diffs[Slot(look[r].id)] = published[job_ids[Slot(look[r].id)]].diff
        BY <2>0 DEF RingInv, SlotHoldsNewest, SlotMatchesHistory
      <3> QED
        BY <1>4, <2>0, <3>1 DEF get_job_diff_read, JobDiffOfSlot, TypeOK
    <2> QED
      BY <1>4, <1>ring, <2>1, <2>2, <2>3 DEF get_job_diff_read
  <1>5. ASSUME NEW r \in Readers, latest_job_max(r)
        PROVE  IInv'
    <2>0. stored_job_ids # {} =>
             Max(stored_job_ids) = job_counter /\ job_counter \in 1 .. job_counter
      BY MaxStored DEF RingInv
    <2>1. look' \in [Readers -> Looks]
      BY <1>5, <2>0 DEF latest_job_max, TypeOK, Looks
    <2>2. LookInv' /\ LatestIsExact' /\ JobDiffOfSlot'
      BY <1>5, <2>0 DEF latest_job_max, LookInv, LatestIsExact, JobDiffOfSlot, TypeOK
    <2> QED
      BY <1>5, <1>ring, <2>1, <2>2 DEF latest_job_max
  <1>6. ASSUME NEW r \in Readers, latest_job_get(r)
        PROVE  IInv'
    <2>0. /\ look[r].id \in 1 .. job_counter /\ look[r].id \in Nat \ {0}
          /\ job_counter \in Nat
      BY <1>6 DEF latest_job_get, LookInv, TypeOK
    <2>1. /\ get_job(look[r].id) \in {None, published[look[r].id].job}
          /\ published[look[r].id].job \in Jobs
      BY <2>0, GetJobExact DEF TypeOK, Published
    <2>2. look' \in [Readers -> Looks]
      BY <1>6, <2>0, <2>1 DEF latest_job_get, TypeOK, Looks
    <2>3. LookInv' /\ LatestIsExact' /\ JobDiffOfSlot'
      BY <1>6, <2>0, <2>1 DEF latest_job_get, LookInv, LatestIsExact, JobDiffOfSlot, TypeOK
    <2> QED
      BY <1>6, <1>ring, <2>2, <2>3 DEF latest_job_get
  <1>7. CASE UNCHANGED vars
    BY <1>7 DEF vars, TypeOK, RingInv, SlotHoldsNewest, SlotMatchesHistory,
                LookInv, LatestIsExact, JobDiffOfSlot
  <1> QED
    BY <1>1, <1>2, <1>3, <1>4, <1>5, <1>6, <1>7 DEF Next

-----------------------------------------------------------------------------
(* The theorems. *)

\* The inductive invariant holds throughout.
LEMMA Invariance == Spec => []IInv
  BY InitIInv, NextIInv, PTL DEF Spec

\* Every variable keeps its type, whatever the size of the ring.
THEOREM TypeCorrect == Spec => []TypeOK
  BY Invariance, PTL DEF IInv

\* Each slot always holds the newest job of its residue, unmixed with another
\* job's content or difficulty.
THEOREM RingCorrect == Spec => []RingInv
  BY Invariance, PTL DEF IInv

\* get_job never returns the job of a different id, and always finds the last
\* MaxJobs ids: "an expired ID must never alias the newer job".
THEOREM NoAlias == Spec => []ExactJob
  <1>1. IInv => ExactJob
    <2> SUFFICES ASSUME IInv, NEW id \in 1 .. MaxPublish
                 PROVE  get_job(id) = IF id <= job_counter /\ id + MaxJobs > job_counter
                                      THEN published[id].job ELSE None
      BY DEF ExactJob
    <2> QED
      BY GetJobExact, MaxPublishAssumption DEF IInv
  <1> QED
    BY <1>1, Invariance, PTL

\* latest_job, although it takes its locks twice, never pairs an id with the
\* content of another job.
THEOREM LatestExact == Spec => []LatestIsExact
  BY Invariance, PTL DEF IInv

\* get_job_diff, although the ring may wrap between its two locks, returns a
\* difficulty of the same slot no older than the job asked for.
THEOREM JobDiffNoOlder == Spec => []JobDiffOfSlot
  BY Invariance, PTL DEF IInv

\* A job that is retained keeps its content and its difficulty: only add_job writes to
\* the ring, and to one slot, whose id it replaces with one that is new.
THEOREM RetainedImmutable == Spec => RetainedJobsAreImmutable
<1> DEFINE A == \A s \in Slots :
                  \/ job_ids'[s] = job_ids[s] /\ jobs'[s] = jobs[s] /\ job_diffs'[s] = job_diffs[s]
                  \/ job_ids'[s] = job_counter' /\ job_counter' > job_counter
<1>1. IInv /\ [Next]_vars => [A]_vars
  <2> SUFFICES ASSUME IInv, Next PROVE A
    OBVIOUS
  <2>1. ASSUME NEW job \in Jobs, add_job(job) PROVE A
    <3>1. /\ job_counter \in Nat /\ job_counter' = job_counter + 1
          /\ jobs' = [jobs EXCEPT ![Slot(job_counter + 1)] = job]
          /\ job_ids' = [job_ids EXCEPT ![Slot(job_counter + 1)] = job_counter + 1]
          /\ job_diffs' = [job_diffs EXCEPT ![Slot(job_counter + 1)] = stratum_diff]
      BY <2>1, MaxPublishAssumption DEF add_job, next_id, recorded_diff, IInv, TypeOK
    <3> QED BY <3>1 DEF IInv, TypeOK
  <2>2. CASE UNCHANGED <<jobs, job_ids, job_diffs>>
    BY <2>2
  <2> QED BY <2>1, <2>2 DEF Next, set_stratum_diff, get_job_diff_check, get_job_diff_read, latest_job_max,
                            latest_job_get
<1> QED BY <1>1, Invariance, PTL DEF Spec, RetainedJobsAreImmutable
=============================================================================
