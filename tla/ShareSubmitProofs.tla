------------------------- MODULE ShareSubmitProofs -------------------------
(***************************************************************************)
(* Proofs about the submission path, for any number of connections, jobs,  *)
(* lanes and nonces. Beyond types and the window of the validation loop,   *)
(* the inductive invariant says that the submissions between a claim and   *)
(* the node's answer hold different lanes, that no judged lane can be      *)
(* claimed, and that a nonce good for Kaspa has been sent there by the     *)
(* time the ZKas leg is decided. Two more invariants are about the books   *)
(* of the duplicate guard and about the events of a block; and the lanes   *)
(* are shown to implement the ledger.                                      *)
(***************************************************************************)
EXTENDS ShareSubmit, LaneTableProofs

UsedLanes == {LaneOf[q] : q \in Used}

\* Between a successful claim and the answer of the node.
Owner(c) == pc[c] \in {"found", "submit", "rpc"}

Steps == {"idle", "check", "parent", "claim", "found", "submit", "rpc", "bad", "low", "credit"}

JobsBounded == \A c \in Conns : Len(jobs[c]) <= MaxTemplates

Base == TypeOK /\ ChecksOwnRecentJobs /\ JobsBounded /\ WellFormed(Lanes, PendingCap, pending)

\* The parent leg comes first.
KasInv ==
    (Merged /\ KaspaClient) =>
        /\ \A w \in credited : "kaspa" \in Clears[w[1]][w[2]] => w \in kas_sent
        /\ \A c \in Conns :
              (pc[c] \in {"claim", "found", "submit", "rpc", "bad", "credit"}
                 /\ "kaspa" \in hit(c)) => <<work[c], NonceIn(req[c])>> \in kas_sent

\* A lane is claimed once, so in merged mode the node judges it once.
LaneInv ==
    Merged =>
        /\ Known(pending) \subseteq UsedLanes
        /\ \A c \in Conns : Owner(c) =>
              /\ judged[LaneOf[work[c]]] = 0
              /\ ~can_claim(pending, LaneOf[work[c]])
        /\ \A c, d \in Conns :
              (Owner(c) /\ Owner(d) /\ LaneOf[work[c]] = LaneOf[work[d]]) => c = d
        /\ \A b \in Blocks : judged[b] # 0 =>
              judged[b] = 1 /\ b \in UsedLanes /\ ~can_claim(pending, b)

\* Until an entry expires the block guard does the same for any block.
MarkInv ==
    forgets = 0 =>
        /\ \A c \in Conns : pc[c] = "rpc" => ThisBlock(c) \in marked /\ judged[ThisBlock(c)] = 0
        /\ \A c, d \in Conns :
              (pc[c] = "rpc" /\ pc[d] = "rpc" /\ ThisBlock(c) = ThisBlock(d)) => c = d
        /\ \A b \in Blocks : judged[b] # 0 => judged[b] = 1 /\ b \in marked

IInv == Base /\ KasInv /\ LaneInv /\ MarkInv

-----------------------------------------------------------------------------
(* Types and the window of the loop. *)

\* Where a submission is under way its key, job and block have their types.
LEMMA UnderWay ==
  ASSUME Base, NEW c \in Conns, pc[c] # "idle"
  PROVE  /\ req[c] \in Keys /\ JobIdIn(req[c]) \in JobIds /\ NonceIn(req[c]) \in Nonces
         /\ cur[c] \in 1 .. JobIdIn(req[c]) /\ JobIdIn(req[c]) <= Len(jobs[c])
         /\ work[c] = jobs[c][cur[c]] /\ work[c] \in Parents
         /\ work[c] \in Used
         /\ LaneOf[work[c]] \in Lanes /\ ThisBlock(c) \in Blocks
<1>1. /\ req[c] \in Keys /\ cur[c] \in 1 .. JobIdIn(req[c])
      /\ JobIdIn(req[c]) <= Len(jobs[c]) /\ work[c] = jobs[c][cur[c]]
  BY DEF Base, ChecksOwnRecentJobs
<1>2. JobIdIn(req[c]) \in JobIds /\ NonceIn(req[c]) \in Nonces
  BY <1>1 DEF Keys, JobIdIn, NonceIn
<1>3. jobs[c] \in Seq(Parents) /\ Len(jobs[c]) \in Nat
  BY DEF Base, TypeOK
<1>4. cur[c] \in 1 .. Len(jobs[c])
  BY <1>1, <1>2, <1>3 DEF JobIds
<1>5. work[c] \in Parents
  BY <1>1, <1>3, <1>4
<1>6. work[c] \in Used
  BY <1>1, <1>4 DEF Used
<1>7. LaneOf[work[c]] \in Lanes
  BY <1>5, ShapeAssumption
<1>8. ThisBlock(c) \in Blocks
  BY <1>2, <1>5, <1>7 DEF ThisBlock, BlockOf, Blocks
<1> QED BY <1>1, <1>2, <1>5, <1>6, <1>7, <1>8

\* Before the first frame there is no submission and no job.
LEMMA InitBase == Init => Base
<1> SUFFICES ASSUME Init PROVE Base
  OBVIOUS
<1>1. WellFormed(Lanes, PendingCap, pending)
  BY EmptyFacts, JobAssumption DEF Init
<1>2. TypeOK
  BY <1>1, JobAssumption DEF Init, TypeOK, WellFormed, Tables, Outcomes
<1>3. ChecksOwnRecentJobs
  BY DEF Init, ChecksOwnRecentJobs
<1>4. JobsBounded
  BY JobAssumption DEF Init, JobsBounded
<1> QED BY <1>1, <1>2, <1>3, <1>4 DEF Base

\* A job is published: one connection's jobs grow by a parent, and the table
\* takes an insertion or nothing.
PublishEffect(c, p) ==
    /\ jobs' = [jobs EXCEPT ![c] = Append(jobs[c], p)]
    /\ jobs' \in [Conns -> Seq(Parents)]
    /\ \A d \in Conns : Len(jobs[d]) <= Len(jobs'[d]) /\ Len(jobs'[d]) <= MaxTemplates
    /\ \A d \in Conns : \A i \in 1 .. Len(jobs[d]) : jobs'[d][i] = jobs[d][i]
    /\ WellFormed(Lanes, PendingCap, pending')

\* Publishing a job extends one job store and keeps the table well formed.
LEMMA PublishFacts ==
  ASSUME Base, NEW c \in Conns, NEW p \in Parents, publish(c, p)
  PROVE  PublishEffect(c, p)
<1>1. jobs' = [jobs EXCEPT ![c] = Append(jobs[c], p)] /\ jobs \in [Conns -> Seq(Parents)]
  BY DEF publish, Base, TypeOK
<1>2. jobs' \in [Conns -> Seq(Parents)]
  BY <1>1
<1>3. \A d \in Conns : Len(jobs[d]) <= Len(jobs'[d]) /\ Len(jobs'[d]) <= MaxTemplates
  BY <1>1, JobAssumption DEF publish, Base, JobsBounded
<1>4. \A d \in Conns : \A i \in 1 .. Len(jobs[d]) : jobs'[d][i] = jobs[d][i]
  BY <1>1
<1>5. WellFormed(Lanes, PendingCap, pending')
  <2>0. WellFormed(Lanes, PendingCap, pending) /\ LaneOf[p] \in Lanes /\ FALSE \in BOOLEAN
    BY ShapeAssumption DEF Base
  <2>1. InsertEffect(Lanes, PendingCap, pending, LaneOf[p], FALSE,
                     insert_with_payee(pending, LaneOf[p], FALSE, PendingCap))
    BY <2>0, InsertFacts, JobAssumption
  <2>2. WellFormed(Lanes, PendingCap, insert_with_payee(pending, LaneOf[p], FALSE, PendingCap))
    BY <2>1 DEF InsertEffect
  <2> QED BY <2>0, <2>2 DEF publish
<1> QED BY <1>1, <1>2, <1>3, <1>4, <1>5 DEF PublishEffect

\* A new job keeps types and window: ids already in use keep their jobs.
LEMMA PublishBase ==
  ASSUME Base, NEW c \in Conns, NEW p \in Parents, publish(c, p),
         refresh' \in SUBSET Conns,
         UNCHANGED <<dup, marked, connected, local, chain, books, frames, forgets>>
  PROVE  Base'
<1>f. PublishEffect(c, p)
  BY PublishFacts
<1>1. TypeOK'
  <2>1. pending' \in [order : Seq(Lanes), solved : SUBSET Lanes, fee_lane : SUBSET Lanes]
    BY <1>f DEF PublishEffect, WellFormed, Tables
  <2> QED BY <1>f, <2>1 DEF PublishEffect, Base, TypeOK, local, chain, books
<1>2. ChecksOwnRecentJobs'
  <2> SUFFICES ASSUME NEW d \in Conns, pc[d] # "idle"
               PROVE  /\ req[d] \in Keys
                      /\ cur[d] \in 1 .. JobIdIn(req[d])
                      /\ JobIdIn(req[d]) <= Len(jobs'[d])
                      /\ work[d] = jobs'[d][cur[d]]
                      /\ JobIdIn(req[d]) - cur[d] < MaxCompat
    BY DEF ChecksOwnRecentJobs, local
  <2>1. /\ req[d] \in Keys /\ cur[d] \in 1 .. JobIdIn(req[d])
        /\ JobIdIn(req[d]) <= Len(jobs[d]) /\ work[d] = jobs[d][cur[d]]
        /\ JobIdIn(req[d]) - cur[d] < MaxCompat
    BY DEF Base, ChecksOwnRecentJobs
  <2>a. JobIdIn(req[d]) \in JobIds
    BY UnderWay
  <2>b. jobs[d] \in Seq(Parents) /\ jobs'[d] \in Seq(Parents)
    BY <1>f DEF Base, TypeOK, PublishEffect
  <2>2. Len(jobs[d]) \in Nat /\ Len(jobs'[d]) \in Nat /\ JobIdIn(req[d]) \in Nat
    BY <2>a, <2>b DEF JobIds
  <2>3. cur[d] \in 1 .. Len(jobs[d])
    BY <2>1, <2>2
  <2> QED BY <1>f, <2>1, <2>2, <2>3 DEF PublishEffect
<1>3. WellFormed(Lanes, PendingCap, pending)' /\ JobsBounded'
  BY <1>f DEF PublishEffect, JobsBounded
<1> QED BY <1>1, <1>2, <1>3 DEF Base

\* A step that leaves the jobs and the submissions under way alone.
LEMMA WindowFrame ==
  ASSUME ChecksOwnRecentJobs, UNCHANGED <<jobs, req, cur, work>>,
         \A d \in Conns : pc'[d] # "idle" => pc[d] # "idle"
  PROVE  ChecksOwnRecentJobs'
  BY DEF ChecksOwnRecentJobs

\* Frames that are refused before they have a key change only counters.
LEMMA FrameBase ==
  ASSUME Base, NEW c \in Conns,
         \/ malformed_frame(c) \/ unparsable_frame(c) \/ missing_job(c)
  PROVE  Base'
<1>1. UNCHANGED <<shared, local, chain, credits, credited, rejects, answers, forgets>>
  BY DEF malformed_frame, unparsable_frame, missing_job, books
<1>2. frames' \in 0 .. MaxSubmits
  BY JobAssumption DEF malformed_frame, unparsable_frame, missing_job, receive, Base, TypeOK
<1>3. refused' \in Nat
  BY DEF malformed_frame, unparsable_frame, missing_job, Base, TypeOK, books
<1>4. TypeOK'
  BY <1>1, <1>2, <1>3 DEF Base, TypeOK, shared, local, chain
<1>5. ChecksOwnRecentJobs'
  BY <1>1, WindowFrame DEF Base, shared, local
<1> QED BY <1>1, <1>4, <1>5 DEF Base, JobsBounded, shared

\* A submission starts at the job it names, or at the newest one.
LEMMA SubmitBase ==
  ASSUME Base, NEW c \in Conns, NEW id \in JobIds, NEW n \in Nonces, submit(c, id, n)
  PROVE  Base'
<1> DEFINE jid == effective_job_id(c, id)
           k == <<WorkerOf[c], jid, n>>
<1>1. jobs[c] \in Seq(Parents) /\ jobs[c] # <<>> /\ Len(jobs[c]) \in Nat
  BY DEF submit, Base, TypeOK
<1>2. jid \in 1 .. Len(jobs[c])
  <2>1. Len(jobs[c]) >= 1
    BY <1>1
  <2>2. CASE stored(c, id)
    BY <2>2 DEF effective_job_id, stored
  <2>3. CASE ~stored(c, id)
    BY <2>1, <2>3, <1>1 DEF effective_job_id
  <2> QED BY <2>2, <2>3
<1>3. jobs[c][jid] \in Parents
  BY <1>1, <1>2
<1>4. UNCHANGED <<jobs, pending, marked, connected, refresh, chain,
                  credits, credited, rejects, refused, forgets>>
  BY DEF submit
<1>5. frames' \in 0 .. MaxSubmits
  BY JobAssumption DEF submit, receive, Base, TypeOK
<1>6. pc[c] = "idle"
  BY DEF submit, receive
<1>l. Len(jobs[c]) <= MaxTemplates
  BY DEF Base, JobsBounded
<1>k. jid \in JobIds /\ k \in Keys
  BY <1>1, <1>2, <1>l, ShapeAssumption, JobAssumption DEF JobIds, Keys
<1> HIDE DEF jid, k
<1>7. CASE is_duplicate(k)
  <2>1. answers' = [answers EXCEPT ![k] = Append(answers[k], dup[k])] /\ UNCHANGED <<dup, local>>
    BY <1>7 DEF submit, jid, k, Answered
  <2>b. dup[k] \in Outcomes /\ answers[k] \in Seq(Outcomes)
    BY <1>k, <1>7 DEF is_duplicate, Base, TypeOK
  <2>a. answers' \in [Keys -> Seq(Outcomes)]
    BY <1>k, <2>1, <2>b DEF Base, TypeOK
  <2>2. TypeOK'
    BY <1>4, <1>5, <2>1, <2>a DEF Base, TypeOK, local, chain
  <2>3. ChecksOwnRecentJobs'
    BY <1>4, <2>1, WindowFrame DEF Base, local
  <2> QED BY <1>4, <2>2, <2>3 DEF Base, JobsBounded
<1>8. CASE ~is_duplicate(k)
  <2>1. /\ dup' = [dup EXCEPT ![k] = "InFlight"]
        /\ pc' = [pc EXCEPT ![c] = "check"]
        /\ req' = [req EXCEPT ![c] = k]
        /\ cur' = [cur EXCEPT ![c] = jid]
        /\ work' = [work EXCEPT ![c] = jobs[c][jid]]
        /\ cid' = [cid EXCEPT ![c] = cid[c] + 1]
        /\ UNCHANGED <<meets, answers>>
    BY <1>8 DEF submit, jid, k, Go
  <2>2. TypeOK'
    <3>1. jid \in 0 .. MaxTemplates
      BY <1>k, JobAssumption DEF JobIds
    <3>2. cid' \in [Conns -> Nat]
      BY <2>1 DEF Base, TypeOK
    <3> QED BY <1>3, <1>4, <1>5, <1>k, <2>1, <3>1, <3>2 DEF Base, TypeOK, chain, Outcomes
  <2>3. ChecksOwnRecentJobs'
    <3> SUFFICES ASSUME NEW d \in Conns, pc'[d] # "idle"
                 PROVE  /\ req'[d] \in Keys
                        /\ cur'[d] \in 1 .. JobIdIn(req'[d])
                        /\ JobIdIn(req'[d]) <= Len(jobs[d])
                        /\ work'[d] = jobs[d][cur'[d]]
                        /\ JobIdIn(req'[d]) - cur'[d] < MaxCompat
      BY <1>4 DEF ChecksOwnRecentJobs
    <3>1. CASE d = c
      <4>1. req'[d] = k /\ cur'[d] = jid /\ work'[d] = jobs[c][jid]
        BY <2>1, <3>1 DEF Base, TypeOK
      <4>2. JobIdIn(k) = jid
        BY DEF JobIdIn, k
      <4>3. jid \in Nat /\ jid - jid = 0 /\ jid \in 1 .. jid /\ jid <= Len(jobs[c]) /\ 0 < MaxCompat
        BY <1>1, <1>2, JobAssumption
      <4> QED BY <3>1, <4>1, <4>2, <4>3, <1>k
    <3>2. CASE d # c
      BY <2>1, <3>2 DEF Base, TypeOK, ChecksOwnRecentJobs
    <3> QED BY <3>1, <3>2
  <2> QED BY <1>4, <2>2, <2>3 DEF Base, JobsBounded
<1> QED BY <1>7, <1>8

\* The steps of the handler that change neither the jobs nor which job the
\* submission is about, apart from the claim.
LEMMA HandlerBase ==
  ASSUME Base, NEW c \in Conns, handler(c), ~check_previous(c), ~claim_network_solution(c)
  PROVE  Base'
<1>0. pc[c] # "idle"
  BY DEF handler, check_network, check_pool, reject_low_diff, low_diff_recorded,
         submit_merged_parent_if_solved, announce_block, submit_block, block_judged,
         block_rpc_failed, reject_bad, reject_stale, credit_share
<1>u. req[c] \in Keys /\ NonceIn(req[c]) \in Nonces /\ work[c] \in Parents /\ ThisBlock(c) \in Blocks
  BY <1>0, UnderWay
<1>f. ThisFind(c) \in Events
  BY <1>u DEF ThisFind, Events, Base, TypeOK
<1>p. UNCHANGED <<jobs, pending, req, cur, work, cid, frames, forgets>>
  BY DEF handler, check_network, check_pool, reject_low_diff, low_diff_recorded,
         submit_merged_parent_if_solved, announce_block, submit_block, block_judged,
         block_rpc_failed, reject_bad, reject_stale, credit_share, shared, local
<1>q. \A d \in Conns : pc'[d] # "idle" => pc[d] # "idle"
  BY <1>0 DEF handler, check_network, check_pool, reject_low_diff, low_diff_recorded,
         submit_merged_parent_if_solved, announce_block, submit_block, block_judged,
         block_rpc_failed, reject_bad, reject_stale, credit_share, Go, Base, TypeOK
<1>a. \A o \in Outcomes : Answered(req[c], o) => answers' \in [Keys -> Seq(Outcomes)]
  <2>1. answers[req[c]] \in Seq(Outcomes)
    BY <1>u DEF Base, TypeOK
  <2> QED BY <1>u, <2>1 DEF Answered, Base, TypeOK
<1>r. Rejected(req[c]) => rejects' \in [Keys -> Nat]
  BY <1>u DEF Rejected, Base, TypeOK
<1>d. \A o \in Outcomes : set_outcome(req[c], o) => dup' \in [Keys -> Outcomes \union {"None"}]
  BY <1>u DEF set_outcome, Base, TypeOK
<1>g. \A step \in Steps : Go(c, step) => pc' \in [Conns -> Steps]
  BY DEF Go, Base, TypeOK, Steps
<1>1. TypeOK'
  <2>1. CASE check_network(c)
    <3>1. meets_network_target(c) \in BOOLEAN
      BY DEF meets_network_target
    <3> QED BY <2>1, <3>1 DEF check_network, Go, Base, TypeOK, shared, chain, books
  <2>2. CASE check_pool(c)
    BY <2>2 DEF check_pool, Go, Base, TypeOK, shared, chain, books
  <2>3. CASE reject_low_diff(c)
    BY <2>3, <1>a, <1>r, <1>g DEF reject_low_diff, Base, TypeOK, shared, chain, Outcomes, Steps
  <2>4. CASE low_diff_recorded(c)
    BY <2>4, <1>d, <1>g DEF low_diff_recorded, Base, TypeOK, chain, books, Outcomes, Steps
  <2>5. CASE submit_merged_parent_if_solved(c)
    <3>1. kas_sent' \in SUBSET (Parents \X Nonces)
      BY <2>5, <1>u DEF submit_merged_parent_if_solved, Base, TypeOK
    <3> QED BY <2>5, <3>1, <1>g DEF submit_merged_parent_if_solved, Base, TypeOK, shared, books, Steps
  <2>6. CASE announce_block(c)
    BY <2>6, <1>f DEF announce_block, Go, Base, TypeOK, books
  <2>7. CASE submit_block(c)
    <3>1. submits' \in [Blocks -> Nat]
      BY <2>7, <1>u DEF submit_block, Base, TypeOK
    <3>2. marked' \in SUBSET Blocks
      BY <2>7, <1>u DEF submit_block, Base, TypeOK
    <3> QED BY <2>7, <3>1, <3>2, <1>g DEF submit_block, Base, TypeOK, books, Steps
  <2>8. CASE block_judged(c)
    <3>1. judged' \in [Blocks -> Nat]
      BY <2>8, <1>u DEF block_judged, Base, TypeOK
    <3>2. block_accepted' \in SUBSET Events
      BY <2>8, <1>f DEF block_judged, Base, TypeOK
    <3> QED BY <2>8, <3>1, <3>2, <1>g DEF block_judged, Base, TypeOK, shared, books, Steps
  <2>9. CASE block_rpc_failed(c)
    BY <2>9, <1>u DEF block_rpc_failed, Go, Base, TypeOK, books
  <2>10. CASE reject_bad(c)
    BY <2>10, <1>a, <1>r, <1>d, <1>g DEF reject_bad, Base, TypeOK, chain, Outcomes, Steps
  <2>11. CASE reject_stale(c)
    BY <2>11, <1>a, <1>r, <1>d, <1>g DEF reject_stale, Base, TypeOK, chain, Outcomes, Steps
  <2>12. CASE credit_share(c)
    <3>1. credits' \in [Keys -> Nat]
      BY <2>12, <1>u DEF credit_share, Base, TypeOK
    <3>2. credited' \in SUBSET (Parents \X Nonces)
      BY <2>12, <1>u DEF credit_share, Base, TypeOK
    <3> QED BY <2>12, <3>1, <3>2, <1>a, <1>d, <1>g DEF credit_share, Base, TypeOK, chain, Outcomes, Steps
  <2> QED BY <2>1, <2>2, <2>3, <2>4, <2>5, <2>6, <2>7, <2>8, <2>9, <2>10, <2>11, <2>12 DEF handler
<1>2. ChecksOwnRecentJobs'
  BY <1>p, <1>q, WindowFrame DEF Base
<1> QED BY <1>p, <1>1, <1>2 DEF Base, JobsBounded

\* A step back of the loop stays inside the window: walk_ends stops it before.
LEMMA PreviousBase ==
  ASSUME Base, NEW c \in Conns, check_previous(c)
  PROVE  Base'
<1>0. pc[c] # "idle" /\ ~walk_ends(c)
  BY DEF check_previous
<1>1. /\ req[c] \in Keys /\ JobIdIn(req[c]) \in JobIds /\ cur[c] \in 1 .. JobIdIn(req[c])
      /\ JobIdIn(req[c]) <= Len(jobs[c])
  BY <1>0, UnderWay
<1>2. /\ cur[c] # 1 /\ cur[c] - 1 \in 1 .. Len(jobs[c])
      /\ ~((JobIdIn(req[c]) - cur[c]) + 1 >= MaxCompat)
  BY <1>0 DEF walk_ends, stored
<1>3. /\ UNCHANGED <<shared, pc, req, meets, cid, chain, books, frames, forgets>>
      /\ cur' = [cur EXCEPT ![c] = cur[c] - 1]
      /\ work' = [work EXCEPT ![c] = jobs[c][cur[c] - 1]]
  BY DEF check_previous
<1>4. jobs[c] \in Seq(Parents) /\ cur \in [Conns -> 0 .. MaxTemplates]
  BY DEF Base, TypeOK
<1>5. jobs[c][cur[c] - 1] \in Parents
  BY <1>2, <1>4
<1>6. cur[c] - 1 \in 0 .. MaxTemplates /\ cur[c] - 1 \in 1 .. JobIdIn(req[c])
      /\ JobIdIn(req[c]) - (cur[c] - 1) < MaxCompat
  BY <1>1, <1>2, JobAssumption DEF JobIds
<1>7. TypeOK'
  BY <1>3, <1>5, <1>6 DEF Base, TypeOK, shared, chain, books
<1>8. ChecksOwnRecentJobs'
  <2> SUFFICES ASSUME NEW d \in Conns, pc[d] # "idle"
               PROVE  /\ req[d] \in Keys
                      /\ cur'[d] \in 1 .. JobIdIn(req[d])
                      /\ JobIdIn(req[d]) <= Len(jobs[d])
                      /\ work'[d] = jobs[d][cur'[d]]
                      /\ JobIdIn(req[d]) - cur'[d] < MaxCompat
    BY <1>3 DEF ChecksOwnRecentJobs, shared
  <2>1. CASE d = c
    BY <2>1, <1>1, <1>3, <1>6 DEF Base, TypeOK
  <2>2. CASE d # c
    BY <2>2, <1>3 DEF Base, TypeOK, ChecksOwnRecentJobs
  <2> QED BY <2>1, <2>2
<1> QED BY <1>3, <1>7, <1>8 DEF Base, JobsBounded, shared

\* Whether or not the caller claims the lane, the table stays well formed.
ClaimStep(c) ==
    /\ UNCHANGED <<jobs, dup, marked, connected, refresh, req, cur, work, meets, cid,
                   chain, books, frames, forgets>>
    /\ Known(pending') = Known(pending)
    /\ WellFormed(Lanes, PendingCap, pending')
    /\ IF claims_network_solution(c)
       THEN /\ pc' = [pc EXCEPT ![c] = "found"]
            /\ Merged => /\ can_claim(pending, LaneOf[work[c]])
                         /\ pending'.solved = pending.solved \union {LaneOf[work[c]]}
       ELSE pc' = [pc EXCEPT ![c] = "credit"] /\ pending' = pending

\* claim_network_solution, as equations on the table and the submission.
LEMMA ClaimStepFacts ==
  ASSUME Base, NEW c \in Conns, claim_network_solution(c)
  PROVE  ClaimStep(c)
<1>0. pc[c] # "idle"
  BY DEF claim_network_solution
<1>1. LaneOf[work[c]] \in Lanes /\ WellFormed(Lanes, PendingCap, pending)
  BY <1>0, UnderWay DEF Base
<1>2. ClaimEffect(Lanes, PendingCap, pending, LaneOf[work[c]],
                  claim_solution(pending, LaneOf[work[c]]))
  BY <1>1, ClaimFacts, JobAssumption
<1>3. CASE claims_network_solution(c)
  <2>1. /\ pending' = IF Merged THEN claim_solution(pending, LaneOf[work[c]]) ELSE pending
        /\ pc' = [pc EXCEPT ![c] = "found"]
    BY <1>3 DEF claim_network_solution, Go
  <2>2. Merged => can_claim(pending, LaneOf[work[c]])
    BY <1>3 DEF claims_network_solution
  <2> QED BY <1>1, <1>2, <1>3, <2>1, <2>2 DEF ClaimStep, ClaimEffect, claim_network_solution
<1>4. CASE ~claims_network_solution(c)
  BY <1>1, <1>4 DEF ClaimStep, claim_network_solution, Go
<1> QED BY <1>3, <1>4

\* A claim keeps types, table and window.
LEMMA ClaimBase ==
  ASSUME Base, NEW c \in Conns, claim_network_solution(c)
  PROVE  Base'
<1>f. ClaimStep(c)
  BY ClaimStepFacts
<1>0. pc[c] # "idle"
  BY DEF claim_network_solution
<1>1. UNCHANGED <<jobs, dup, marked, connected, refresh, req, cur, work, meets, cid,
                  chain, books, frames, forgets>>
      /\ WellFormed(Lanes, PendingCap, pending')
      /\ (pc' = [pc EXCEPT ![c] = "found"] \/ pc' = [pc EXCEPT ![c] = "credit"])
  BY <1>f DEF ClaimStep
<1>2. pending' \in [order : Seq(Lanes), solved : SUBSET Lanes, fee_lane : SUBSET Lanes]
  BY <1>1 DEF WellFormed, Tables
<1>3. pc' \in [Conns -> Steps]
  BY <1>1 DEF Base, TypeOK, Steps
<1>4. TypeOK'
  BY <1>1, <1>2, <1>3 DEF Base, TypeOK, Steps, chain, books
<1>5. \A d \in Conns : pc'[d] # "idle" => pc[d] # "idle"
  BY <1>0, <1>1 DEF Base, TypeOK
<1>6. ChecksOwnRecentJobs'
  BY <1>1, <1>5, WindowFrame DEF Base
<1> QED BY <1>1, <1>4, <1>6 DEF Base, JobsBounded

\* An expiring guard entry concerns no submission.
LEMMA ExpireBase ==
  ASSUME Base, \/ \E k \in Keys : expire_submission(k)
               \/ \E b \in Blocks : expire_block(b)
  PROVE  Base'
<1>1. /\ UNCHANGED <<jobs, pending, connected, refresh, local, chain, books, frames>>
      /\ forgets' = forgets + 1 /\ forgets < MaxForgets
  BY DEF expire_submission, expire_block
<1>2. dup' \in [Keys -> Outcomes \union {"None"}] /\ marked' \in SUBSET Blocks
  <2>1. ASSUME NEW k \in Keys, expire_submission(k)
        PROVE  dup' \in [Keys -> Outcomes \union {"None"}] /\ marked' = marked
    BY <2>1 DEF expire_submission, Base, TypeOK
  <2>2. ASSUME NEW b \in Blocks, expire_block(b)
        PROVE  dup' = dup /\ marked' \in SUBSET Blocks
    BY <2>2 DEF expire_block, Base, TypeOK
  <2> QED BY <2>1, <2>2 DEF Base, TypeOK
<1>a. forgets' \in 0 .. MaxForgets
  BY <1>1, JobAssumption DEF Base, TypeOK
<1>3. TypeOK'
  BY <1>1, <1>2, <1>a DEF Base, TypeOK, local, chain, books
<1>4. ChecksOwnRecentJobs'
  BY <1>1, WindowFrame DEF Base, local
<1> QED BY <1>1, <1>3, <1>4 DEF Base, JobsBounded

\* The refresh coordinator publishes a job or does nothing.
LEMMA RefreshBase ==
  ASSUME Base, NEW c \in Conns, serve_refresh(c)
  PROVE  Base'
<1>1. refresh' \in SUBSET Conns
  BY DEF serve_refresh, Base, TypeOK
<1>2. CASE \E p \in Parents : publish(c, p)
  BY <1>1, <1>2, PublishBase DEF serve_refresh
<1>3. CASE UNCHANGED <<jobs, pending>>
  <2>1. UNCHANGED <<jobs, pending, dup, marked, connected, local, chain, books, frames, forgets>>
    BY <1>3 DEF serve_refresh
  <2>2. TypeOK'
    BY <1>1, <2>1 DEF Base, TypeOK, local, chain, books
  <2>3. ChecksOwnRecentJobs'
    BY <2>1, WindowFrame DEF Base, local
  <2> QED BY <2>1, <2>2, <2>3 DEF Base, JobsBounded
<1> QED BY <1>2, <1>3 DEF serve_refresh

\* Nothing changes, nothing breaks.
LEMMA StutterBase == Base /\ UNCHANGED vars => Base'
<1> SUFFICES ASSUME Base, UNCHANGED vars PROVE Base'
  OBVIOUS
<1>1. UNCHANGED <<shared, local, chain, books, frames, forgets>>
  BY DEF vars
<1>2. TypeOK'
  BY <1>1 DEF Base, TypeOK, shared, local, chain, books
<1>3. ChecksOwnRecentJobs'
  BY <1>1, WindowFrame DEF Base, shared, local
<1> QED BY <1>1, <1>2, <1>3 DEF Base, JobsBounded, shared

\* Every step keeps types, table and window.
LEMMA NextBase == Base /\ [Next]_vars => Base'
<1> SUFFICES ASSUME Base, [Next]_vars PROVE Base'
  OBVIOUS
<1>1. ASSUME NEW c \in Conns, NEW p \in Parents, new_job(c, p) PROVE Base'
  <2>1. refresh' \in SUBSET Conns
    BY <1>1 DEF new_job, Base, TypeOK
  <2> QED BY <1>1, <2>1, PublishBase DEF new_job
<1>2. ASSUME NEW c \in Conns, handler(c) PROVE Base'
  BY <1>2, HandlerBase, PreviousBase, ClaimBase
<1> QED BY <1>1, <1>2, FrameBase, SubmitBase, RefreshBase, ExpireBase, StutterBase DEF Next

\* Every variable keeps its type for any number of connections, jobs and frames.
THEOREM TypeCorrect == Spec => []TypeOK
<1>1. Spec => []Base
  BY InitBase, NextBase, PTL DEF Spec
<1> QED BY <1>1, PTL DEF Base

\* The validation loop never leaves the jobs of its own connection nor the
\* compatibility window, although jobs are published while it runs.
THEOREM WindowCorrect == Spec => []ChecksOwnRecentJobs
<1>1. Spec => []Base
  BY InitBase, NextBase, PTL DEF Spec
<1> QED BY <1>1, PTL DEF Base

-----------------------------------------------------------------------------
(* The Kaspa leg. *)

\* A step that credits nothing, forgets no parent that was sent, and moves no
\* submission past the parent leg.
LEMMA KasFrame ==
  ASSUME KasInv, kas_sent \subseteq kas_sent', credited' = credited,
         \A d \in Conns :
            pc'[d] \in {"claim", "found", "submit", "rpc", "bad", "credit"} =>
                /\ pc[d] \in {"claim", "found", "submit", "rpc", "bad", "credit"}
                /\ work'[d] = work[d] /\ req'[d] = req[d]
  PROVE  KasInv'
  BY DEF KasInv, hit

\* Before the first frame nothing is credited.
LEMMA InitKas == Init => KasInv
  BY DEF Init, KasInv

\* The steps of a handler: the parent leg comes before credit and claim.
LEMMA HandlerKas ==
  ASSUME Base, KasInv, NEW c \in Conns, handler(c)
  PROVE  KasInv'
<1> DEFINE Past == {"claim", "found", "submit", "rpc", "bad", "credit"}
<1>t. pc \in [Conns -> Steps]
  BY DEF Base, TypeOK, Steps
<1>1. CASE check_network(c) \/ low_diff_recorded(c) \/ reject_low_diff(c)
  BY <1>1, <1>t, KasFrame DEF check_network, low_diff_recorded, reject_low_diff, Go, chain, books
<1>2. CASE check_previous(c)
  <2>1. work' = [work EXCEPT ![c] = jobs[c][cur[c] - 1]] /\ pc[c] = "check" /\ work \in [Conns -> Parents \union {None}]
        /\ UNCHANGED <<pc, req, chain, books>>
    BY <1>2 DEF check_previous, Base, TypeOK
  <2> QED BY <2>1, KasFrame DEF chain, books
<1>3. CASE check_pool(c)
  <2>1. /\ UNCHANGED <<req, work, kas_sent, credited>>
        /\ pc' = [pc EXCEPT ![c] = "credit"] /\ ~takes_network_branch(c)
    BY <1>3 DEF check_pool, Go, chain, books
  <2>2. Merged => "kaspa" \notin hit(c)
    BY <2>1 DEF takes_network_branch, meets_network_target
  <2>3. \A d \in Conns : hit(d)' = hit(d)
    BY <2>1 DEF hit
  <2> QED BY <2>1, <2>2, <2>3, <1>t DEF KasInv
<1>4. CASE submit_merged_parent_if_solved(c)
  <2>1. /\ UNCHANGED <<req, work, credited>>
        /\ pc' = [pc EXCEPT ![c] = "claim"] /\ kas_sent \subseteq kas_sent'
    BY <1>4 DEF submit_merged_parent_if_solved, Go, books
  <2>2. (Merged /\ KaspaClient /\ "kaspa" \in hit(c)) => <<work[c], NonceIn(req[c])>> \in kas_sent'
    BY <1>4 DEF submit_merged_parent_if_solved
  <2>3. \A d \in Conns : hit(d)' = hit(d)
    BY <2>1 DEF hit
  <2> QED BY <2>1, <2>2, <2>3, <1>t DEF KasInv
<1>5. CASE claim_network_solution(c) \/ announce_block(c) \/ submit_block(c)
           \/ block_judged(c) \/ block_rpc_failed(c) \/ reject_bad(c) \/ reject_stale(c)
  <2>1. UNCHANGED <<req, work, kas_sent, credited>>
    BY <1>5 DEF claim_network_solution, announce_block, submit_block, block_judged,
                block_rpc_failed, reject_bad, reject_stale, chain, books
  <2>2. \A d \in Conns : pc'[d] \in Past => pc[d] \in Past
    BY <1>5, <1>t DEF claim_network_solution, announce_block, submit_block, block_judged,
                block_rpc_failed, reject_bad, reject_stale, Go
  <2> QED BY <2>1, <2>2, KasFrame
<1>6. CASE credit_share(c)
  <2>1. /\ UNCHANGED <<req, work, kas_sent>> /\ pc[c] = "credit"
        /\ credited' = credited \union {<<work[c], NonceIn(req[c])>>}
        /\ pc' = [pc EXCEPT ![c] = "idle"]
    BY <1>6 DEF credit_share, Go, chain
  <2>2. \A d \in Conns : hit(d)' = hit(d)
    BY <2>1 DEF hit
  <2>3. <<work[c], NonceIn(req[c])>>[1] = work[c] /\ <<work[c], NonceIn(req[c])>>[2] = NonceIn(req[c])
    OBVIOUS
  <2> QED BY <2>1, <2>2, <2>3, <1>t DEF KasInv, hit
<1> QED BY <1>1, <1>2, <1>3, <1>4, <1>5, <1>6 DEF handler

\* Every step keeps the Kaspa leg ahead.
LEMMA NextKas == Base /\ KasInv /\ [Next]_vars => KasInv'
<1> SUFFICES ASSUME Base, KasInv, [Next]_vars PROVE KasInv'
  OBVIOUS
<1>1. ASSUME NEW c \in Conns, NEW id \in JobIds, NEW n \in Nonces, submit(c, id, n) PROVE KasInv'
  <2>1. /\ UNCHANGED <<kas_sent, credited>> /\ pc[c] = "idle"
        /\ \A d \in Conns : d # c => pc'[d] = pc[d] /\ work'[d] = work[d] /\ req'[d] = req[d]
        /\ pc'[c] \in {"idle", "check"}
    BY <1>1 DEF submit, receive, Go, chain, local, Base, TypeOK
  <2> QED BY <2>1, KasFrame
<1>2. CASE UNCHANGED <<pc, req, work, kas_sent, credited>>
  BY <1>2, KasFrame
<1>3. ASSUME NEW c \in Conns,
             \/ \E p \in Parents : new_job(c, p)
             \/ serve_refresh(c) \/ malformed_frame(c) \/ unparsable_frame(c) \/ missing_job(c)
      PROVE  UNCHANGED <<pc, req, work, kas_sent, credited>>
  BY <1>3 DEF new_job, serve_refresh, malformed_frame, unparsable_frame, missing_job,
              local, chain, books
<1>4. ASSUME \/ \E k \in Keys : expire_submission(k)
             \/ \E b \in Blocks : expire_block(b)
             \/ UNCHANGED vars
      PROVE  UNCHANGED <<pc, req, work, kas_sent, credited>>
  BY <1>4 DEF expire_submission, expire_block, vars, local, chain, books
<1> QED BY <1>1, <1>2, <1>3, <1>4, HandlerKas DEF Next

\* No interleaving of submissions, new jobs, evictions and expiring guards makes
\* the bridge credit a share, or decide its ZKas block, before a parent that is
\* good for Kaspa has been sent to the Kaspa node.
THEOREM KasRewardKept == Spec => []KasRewardPreserved
<1>1. Spec => [](Base /\ KasInv)
  <2>1. Init => Base /\ KasInv
    BY InitBase, InitKas
  <2>2. Base /\ KasInv /\ [Next]_vars => Base' /\ KasInv'
    BY NextBase, NextKas
  <2> QED BY <2>1, <2>2, PTL DEF Spec
<1>2. KasInv => KasRewardPreserved
  BY DEF KasInv, KasRewardPreserved
<1> QED BY <1>1, <1>2, PTL

-----------------------------------------------------------------------------
(* The ZKas leg in merged mode. *)

\* A step that changes neither jobs, table nor verdicts, and makes no new owner.
LEMMA LaneFrame ==
  ASSUME LaneInv, UNCHANGED <<jobs, pending, judged>>,
         \A d \in Conns : Owner(d)' => Owner(d) /\ work'[d] = work[d]
  PROVE  LaneInv'
<1>1. UsedLanes' = UsedLanes
  BY DEF UsedLanes, Used
<1> QED BY <1>1 DEF LaneInv, can_claim

\* Before the first frame no lane is owned.
LEMMA InitLane == Init => LaneInv
<1> SUFFICES ASSUME Init PROVE LaneInv
  OBVIOUS
<1>1. Known(pending) = {}
  BY EmptyFacts, JobAssumption DEF Init
<1>2. \A c \in Conns : ~Owner(c)
  BY DEF Init, Owner
<1>3. \A b \in Blocks : judged[b] = 0
  BY DEF Init
<1> QED BY <1>1, <1>2, <1>3 DEF LaneInv

\* A new lane is unlike every lane in use, so nothing that was claimed becomes
\* claimable; a refreshed parent changes no flag.
LEMMA PublishLane ==
  ASSUME Base, LaneInv, NEW c \in Conns, NEW p \in Parents, publish(c, p),
         UNCHANGED <<pc, work, judged>>
  PROVE  LaneInv'
<1> SUFFICES ASSUME Merged PROVE LaneInv'
  BY DEF LaneInv
<1>f. PublishEffect(c, p)
  BY PublishFacts
<1>1. Used' = Used \union {p}
  <2>1. jobs' = [jobs EXCEPT ![c] = Append(jobs[c], p)] /\ jobs \in [Conns -> Seq(Parents)]
    BY <1>f DEF PublishEffect, Base, TypeOK
  <2>2. {jobs'[c][i] : i \in 1 .. Len(jobs'[c])} = {jobs[c][i] : i \in 1 .. Len(jobs[c])} \union {p}
    BY <2>1
  <2>3. \A d \in Conns : d # c => jobs'[d] = jobs[d]
    BY <2>1
  <2> DEFINE A(d) == {jobs[d][i] : i \in 1 .. Len(jobs[d])}
             B(d) == {jobs'[d][i] : i \in 1 .. Len(jobs'[d])}
  <2>4. B(c) = A(c) \union {p} /\ \A d \in Conns : d # c => B(d) = A(d)
    BY <2>2, <2>3
  <2>5. Used = UNION {A(d) : d \in Conns} /\ Used' = UNION {B(d) : d \in Conns}
    BY DEF Used
  <2> HIDE DEF A, B
  <2>6. \A x : x \in Used <=> \E d \in Conns : x \in A(d)
    BY <2>5, Zenon
  <2>7. \A x : x \in Used' <=> \E d \in Conns : x \in B(d)
    BY <2>5, Zenon
  <2>8. \A x : x \in Used' <=> (x \in Used \/ x = p)
    BY <2>4, <2>6, <2>7
  <2> QED BY <2>8
<1>2. UsedLanes' = UsedLanes \union {LaneOf[p]}
  BY <1>1 DEF UsedLanes
<1>3. /\ Known(pending') \subseteq UsedLanes'
      /\ \A b \in UsedLanes : ~can_claim(pending, b) => ~can_claim(pending', b)
  <2>1. CASE UNCHANGED pending
    BY <1>2, <2>1 DEF LaneInv, can_claim
  <2>2. CASE ~UNCHANGED pending
    <3>1. /\ LaneOf[p] \notin UsedLanes
          /\ pending' = insert_with_payee(pending, LaneOf[p], FALSE, PendingCap)
      BY <2>2 DEF publish, UsedLanes
    <3>2. WellFormed(Lanes, PendingCap, pending) /\ LaneOf[p] \in Lanes /\ FALSE \in BOOLEAN
      BY ShapeAssumption DEF Base
    <3>3. InsertEffect(Lanes, PendingCap, pending, LaneOf[p], FALSE, pending')
      BY <3>1, <3>2, InsertFacts, JobAssumption
    <3>4. /\ Known(pending') \subseteq Known(pending) \union {LaneOf[p]}
          /\ pending'.solved = pending.solved \intersect Known(pending')
      BY <3>3 DEF InsertEffect
    <3>5. Known(pending) \subseteq UsedLanes
      BY DEF LaneInv
    <3> QED BY <1>2, <3>1, <3>4, <3>5 DEF can_claim
  <2> QED BY <2>1, <2>2
<1>4. \A d \in Conns : Owner(d) => LaneOf[work[d]] \in UsedLanes
  <2> SUFFICES ASSUME NEW d \in Conns, Owner(d) PROVE LaneOf[work[d]] \in UsedLanes
    OBVIOUS
  <2>1. pc[d] # "idle"
    BY DEF Owner
  <2>2. work[d] \in Used
    BY <2>1, UnderWay
  <2> QED BY <2>2 DEF UsedLanes
<1>5. \A d \in Conns : Owner(d)' <=> Owner(d)
  BY DEF Owner
<1>6. \A d \in Conns : Owner(d)' =>
         judged'[LaneOf[work'[d]]] = 0 /\ ~can_claim(pending', LaneOf[work'[d]])
  BY <1>3, <1>4, <1>5 DEF LaneInv
<1>7. \A d, e \in Conns :
         (Owner(d)' /\ Owner(e)' /\ LaneOf[work'[d]] = LaneOf[work'[e]]) => d = e
  BY <1>5 DEF LaneInv
<1>8. \A b \in Blocks : judged'[b] # 0 =>
         judged'[b] = 1 /\ b \in UsedLanes' /\ ~can_claim(pending', b)
  BY <1>2, <1>3 DEF LaneInv
<1> QED BY <1>3, <1>6, <1>7, <1>8 DEF LaneInv

\* A claim gives the lane its only owner.
LEMMA ClaimLane ==
  ASSUME Base, LaneInv, NEW c \in Conns, claim_network_solution(c)
  PROVE  LaneInv'
<1> SUFFICES ASSUME Merged PROVE LaneInv'
  BY DEF LaneInv
<1> DEFINE h == LaneOf[work[c]]
<1>f. ClaimStep(c)
  BY ClaimStepFacts
<1>0. pc[c] = "claim" /\ UNCHANGED <<jobs, work, judged>> /\ pc \in [Conns -> Steps]
  BY DEF claim_network_solution, chain, Base, TypeOK, Steps
<1>1. CASE ~claims_network_solution(c)
  <2>1. pc' = [pc EXCEPT ![c] = "credit"] /\ pending' = pending
    BY <1>f, <1>1 DEF ClaimStep
  <2>2. \A d \in Conns : Owner(d)' => Owner(d)
    BY <1>0, <2>1 DEF Owner
  <2> QED BY <1>0, <2>1, <2>2, LaneFrame
<1>2. CASE claims_network_solution(c)
  <2>1. /\ pc' = [pc EXCEPT ![c] = "found"] /\ can_claim(pending, h)
        /\ pending'.solved = pending.solved \union {h} /\ Known(pending') = Known(pending)
    BY <1>f, <1>2 DEF ClaimStep
  <2>2. h \in Lanes /\ h \in Blocks
    BY <1>0, UnderWay DEF Blocks
  <2>3. \A d \in Conns : Owner(d)' <=> Owner(d) \/ d = c
    BY <1>0, <2>1 DEF Owner
  <2>4. \A d \in Conns : Owner(d) => LaneOf[work[d]] # h
    BY <2>1 DEF LaneInv
  <2>5. judged[h] = 0
    BY <2>1, <2>2 DEF LaneInv
  <2>6. \A b : ~can_claim(pending, b) => ~can_claim(pending', b)
    BY <2>1 DEF can_claim
  <2>7. ~can_claim(pending', h)
    BY <2>1 DEF can_claim
  <2>8. UsedLanes' = UsedLanes
    BY <1>0 DEF UsedLanes, Used
  <2> HIDE DEF h
  <2>a. Known(pending') \subseteq UsedLanes'
    BY <2>1, <2>8 DEF LaneInv
  <2>b. \A d \in Conns : Owner(d)' =>
           judged'[LaneOf[work'[d]]] = 0 /\ ~can_claim(pending', LaneOf[work'[d]])
    BY <1>0, <2>3, <2>5, <2>6, <2>7 DEF LaneInv, h
  <2>c. \A d, e \in Conns :
           (Owner(d)' /\ Owner(e)' /\ LaneOf[work'[d]] = LaneOf[work'[e]]) => d = e
    BY <1>0, <2>3, <2>4 DEF LaneInv, h
  <2>d. \A b \in Blocks : judged'[b] # 0 =>
           judged'[b] = 1 /\ b \in UsedLanes' /\ ~can_claim(pending', b)
    BY <1>0, <2>6, <2>8 DEF LaneInv
  <2> QED BY <2>a, <2>b, <2>c, <2>d DEF LaneInv
<1> QED BY <1>1, <1>2

\* A verdict ends the ownership and leaves the lane claimed.
LEMMA JudgedLane ==
  ASSUME Base, LaneInv, NEW c \in Conns, block_judged(c)
  PROVE  LaneInv'
<1> SUFFICES ASSUME Merged PROVE LaneInv'
  BY DEF LaneInv
<1> DEFINE h == LaneOf[work[c]]
<1>1. /\ pc[c] = "rpc" /\ UNCHANGED <<jobs, pending, work>>
      /\ judged' = [judged EXCEPT ![h] = judged[h] + 1]
      /\ pc' = [pc EXCEPT ![c] = "credit"]
  BY DEF block_judged, Go, shared, ThisBlock, BlockOf
<1>2. h \in Blocks /\ work[c] \in Used
  BY <1>1, UnderWay DEF Blocks
<1>3. Owner(c) /\ judged \in [Blocks -> Nat] /\ pc \in [Conns -> Steps]
  BY <1>1 DEF Owner, Base, TypeOK, Steps
<1>4. judged[h] = 0 /\ ~can_claim(pending, h) /\ h \in UsedLanes
  BY <1>2, <1>3 DEF LaneInv, UsedLanes
<1>5. \A d \in Conns : Owner(d)' => Owner(d) /\ d # c
  BY <1>1, <1>3 DEF Owner
<1>6. \A d \in Conns : Owner(d)' => LaneOf[work[d]] # h
  BY <1>3, <1>5 DEF LaneInv
<1>7. UsedLanes' = UsedLanes
  BY <1>1 DEF UsedLanes, Used
<1> HIDE DEF h
<1>8. \A b \in Blocks : judged'[b] = IF b = h THEN 1 ELSE judged[b]
  BY <1>1, <1>2, <1>3, <1>4
<1>a. \A d \in Conns : Owner(d)' =>
         judged'[LaneOf[work[d]]] = 0 /\ ~can_claim(pending, LaneOf[work[d]])
  <2> SUFFICES ASSUME NEW d \in Conns, Owner(d)'
               PROVE  judged'[LaneOf[work[d]]] = 0 /\ ~can_claim(pending, LaneOf[work[d]])
    OBVIOUS
  <2>1. Owner(d) /\ pc[d] # "idle"
    BY <1>5 DEF Owner
  <2>2. LaneOf[work[d]] \in Blocks
    BY <2>1, UnderWay DEF Blocks
  <2> QED BY <2>1, <2>2, <1>6, <1>8 DEF LaneInv
<1>b. \A d, e \in Conns :
         (Owner(d)' /\ Owner(e)' /\ LaneOf[work[d]] = LaneOf[work[e]]) => d = e
  BY <1>5 DEF LaneInv
<1>c. \A b \in Blocks : judged'[b] # 0 =>
         judged'[b] = 1 /\ b \in UsedLanes /\ ~can_claim(pending, b)
  BY <1>4, <1>8 DEF LaneInv
<1> QED BY <1>1, <1>7, <1>a, <1>b, <1>c DEF LaneInv

\* Every step keeps the ownership of lanes.
LEMMA NextLane == Base /\ LaneInv /\ [Next]_vars => LaneInv'
<1> SUFFICES ASSUME Base, LaneInv, [Next]_vars PROVE LaneInv'
  OBVIOUS
<1>t. pc \in [Conns -> Steps]
  BY DEF Base, TypeOK, Steps
<1>1. ASSUME NEW c \in Conns, NEW p \in Parents, new_job(c, p) PROVE LaneInv'
  BY <1>1, PublishLane DEF new_job, local, chain
<1>2. ASSUME NEW c \in Conns, serve_refresh(c) PROVE LaneInv'
  <2>1. UNCHANGED <<pc, work, judged>>
    BY <1>2 DEF serve_refresh, local, chain
  <2>2. CASE \E p \in Parents : publish(c, p)
    BY <2>1, <2>2, PublishLane
  <2>3. CASE UNCHANGED <<jobs, pending>>
    BY <2>1, <2>3, LaneFrame DEF Owner
  <2> QED BY <1>2, <2>2, <2>3 DEF serve_refresh
<1>3. ASSUME NEW c \in Conns,
             malformed_frame(c) \/ unparsable_frame(c) \/ missing_job(c)
      PROVE  LaneInv'
  BY <1>3, LaneFrame DEF malformed_frame, unparsable_frame, missing_job, shared, local, chain, Owner
<1>4. ASSUME NEW c \in Conns, NEW id \in JobIds, NEW n \in Nonces, submit(c, id, n) PROVE LaneInv'
  <2>1. /\ UNCHANGED <<jobs, pending, judged>>
        /\ \A d \in Conns : d # c => pc'[d] = pc[d] /\ work'[d] = work[d]
        /\ pc'[c] \in {"idle", "check"}
    BY <1>4 DEF submit, receive, Go, chain, local, Base, TypeOK
  <2> QED BY <2>1, LaneFrame DEF Owner
<1>5. ASSUME NEW c \in Conns, handler(c), ~claim_network_solution(c), ~block_judged(c)
      PROVE  LaneInv'
  <2>1. UNCHANGED <<jobs, pending, judged>>
    BY <1>5 DEF handler, check_network, check_pool, check_previous, reject_low_diff,
         low_diff_recorded, submit_merged_parent_if_solved, announce_block, submit_block,
         block_rpc_failed, reject_bad, reject_stale, credit_share, shared, chain
  <2>2. CASE check_previous(c)
    <3>1. UNCHANGED pc /\ pc[c] = "check" /\ \A d \in Conns : d # c => work'[d] = work[d]
      BY <2>2 DEF check_previous, Base, TypeOK
    <3> QED BY <2>1, <3>1, LaneFrame DEF Owner
  <2>3. CASE ~check_previous(c)
    <3>1. UNCHANGED work
      BY <1>5, <2>3 DEF handler, check_network, check_pool, reject_low_diff,
         low_diff_recorded, submit_merged_parent_if_solved, announce_block, submit_block,
         block_rpc_failed, reject_bad, reject_stale, credit_share
    <3>2. \A d \in Conns : Owner(d)' => Owner(d)
      BY <1>5, <2>3, <1>t DEF handler, check_network, check_pool, reject_low_diff,
         low_diff_recorded, submit_merged_parent_if_solved, announce_block, submit_block,
         block_rpc_failed, reject_bad, reject_stale, credit_share, Go, Owner
    <3> QED BY <2>1, <3>1, <3>2, LaneFrame
  <2> QED BY <2>2, <2>3
<1>6. ASSUME \/ \E k \in Keys : expire_submission(k)
             \/ \E b \in Blocks : expire_block(b)
             \/ UNCHANGED vars
      PROVE  LaneInv'
  <2>1. UNCHANGED <<jobs, pending, judged, pc, work>>
    BY <1>6 DEF expire_submission, expire_block, vars, shared, local, chain
  <2> QED BY <2>1, LaneFrame DEF Owner
<1> QED BY <1>1, <1>2, <1>3, <1>4, <1>5, <1>6, ClaimLane, JudgedLane DEF Next

-----------------------------------------------------------------------------
(* The block guard, as long as nothing expires. *)

\* A step that changes neither guard nor verdicts, and starts no call.
LEMMA MarkFrame ==
  ASSUME MarkInv, UNCHANGED <<marked, judged>>, forgets' = 0 => forgets = 0,
         \A d \in Conns : pc'[d] = "rpc" => pc[d] = "rpc" /\ work'[d] = work[d] /\ req'[d] = req[d]
  PROVE  MarkInv'
<1>1. \A d \in Conns : pc'[d] = "rpc" => ThisBlock(d)' = ThisBlock(d)
  BY DEF ThisBlock, BlockOf
<1> QED BY <1>1 DEF MarkInv

\* Before the first frame nothing is marked.
LEMMA InitMark == Init => MarkInv
  BY DEF Init, MarkInv

\* A call starts only for a block that the guard did not hold.
LEMMA SubmitBlockMark ==
  ASSUME Base, MarkInv, NEW c \in Conns, submit_block(c)
  PROVE  MarkInv'
<1> SUFFICES ASSUME forgets' = 0 PROVE MarkInv'
  BY DEF MarkInv
<1>1. /\ pc[c] = "submit" /\ UNCHANGED <<work, req, judged, forgets>>
      /\ ThisBlock(c) \notin marked /\ marked' = marked \union {ThisBlock(c)}
      /\ pc' = [pc EXCEPT ![c] = "rpc"] /\ pc \in [Conns -> Steps]
  BY DEF submit_block, try_mark, Go, Base, TypeOK, Steps
<1>2. forgets = 0 /\ ThisBlock(c) \in Blocks
  BY <1>1, UnderWay
<1>3. judged[ThisBlock(c)] = 0
  BY <1>1, <1>2 DEF MarkInv
<1>4. \A d \in Conns : ThisBlock(d)' = ThisBlock(d)
  BY <1>1 DEF ThisBlock, BlockOf
<1>5. \A d \in Conns : pc'[d] = "rpc" <=> (d = c \/ pc[d] = "rpc")
  BY <1>1
<1>6. \A d \in Conns : pc[d] = "rpc" => ThisBlock(d) # ThisBlock(c)
  BY <1>1, <1>2 DEF MarkInv
<1>7. \A d \in Conns : pc'[d] = "rpc" => ThisBlock(d) \in marked' /\ judged[ThisBlock(d)] = 0
  BY <1>1, <1>2, <1>3, <1>5 DEF MarkInv
<1>8. \A d, e \in Conns :
         (pc'[d] = "rpc" /\ pc'[e] = "rpc" /\ ThisBlock(d) = ThisBlock(e)) => d = e
  BY <1>2, <1>5, <1>6 DEF MarkInv
<1>9. \A b \in Blocks : judged[b] # 0 => judged[b] = 1 /\ b \in marked'
  BY <1>1, <1>2 DEF MarkInv
<1> QED BY <1>1, <1>4, <1>7, <1>8, <1>9 DEF MarkInv

\* The node answers or the call fails; either way this submission leaves the call.
LEMMA AnswerMark ==
  ASSUME Base, MarkInv, NEW c \in Conns, block_judged(c) \/ block_rpc_failed(c)
  PROVE  MarkInv'
<1> SUFFICES ASSUME forgets' = 0 PROVE MarkInv'
  BY DEF MarkInv
<1>1. /\ pc[c] = "rpc" /\ UNCHANGED <<work, req, forgets>>
      /\ (pc' = [pc EXCEPT ![c] = "credit"] \/ pc' = [pc EXCEPT ![c] = "bad"])
      /\ pc \in [Conns -> Steps] /\ judged \in [Blocks -> Nat]
  BY DEF block_judged, block_rpc_failed, Go, Base, TypeOK, Steps
<1>2. forgets = 0 /\ ThisBlock(c) \in Blocks
  BY <1>1, UnderWay
<1>3. ThisBlock(c) \in marked /\ judged[ThisBlock(c)] = 0
  BY <1>1, <1>2 DEF MarkInv
<1>4. \A d \in Conns : ThisBlock(d)' = ThisBlock(d)
  BY <1>1 DEF ThisBlock, BlockOf
<1>5. \A d \in Conns : pc'[d] = "rpc" => d # c /\ pc[d] = "rpc"
  BY <1>1
<1>6. \A d \in Conns : pc'[d] = "rpc" => ThisBlock(d) # ThisBlock(c)
  BY <1>1, <1>2, <1>5 DEF MarkInv
<1>7. \A d, e \in Conns :
         (pc'[d] = "rpc" /\ pc'[e] = "rpc" /\ ThisBlock(d) = ThisBlock(e)) => d = e
  BY <1>2, <1>5 DEF MarkInv
<1>u. \A d \in Conns : pc'[d] = "rpc" => ThisBlock(d) \in Blocks
  BY <1>5, UnderWay
<1>8. CASE block_judged(c)
  <2>1. marked' = marked /\ judged' = [judged EXCEPT ![ThisBlock(c)] = judged[ThisBlock(c)] + 1]
    BY <1>8 DEF block_judged, shared
  <2>2. \A b \in Blocks : judged'[b] = IF b = ThisBlock(c) THEN 1 ELSE judged[b]
    BY <1>1, <1>2, <1>3, <2>1
  <2>3. \A d \in Conns : pc'[d] = "rpc" => ThisBlock(d) \in marked' /\ judged'[ThisBlock(d)] = 0
    BY <1>2, <1>5, <1>6, <1>u, <2>1, <2>2 DEF MarkInv
  <2>4. \A b \in Blocks : judged'[b] # 0 => judged'[b] = 1 /\ b \in marked'
    BY <1>2, <1>3, <2>1, <2>2 DEF MarkInv
  <2> QED BY <1>4, <1>7, <2>3, <2>4 DEF MarkInv
<1>9. CASE block_rpc_failed(c)
  <2>1. marked' = marked \ {ThisBlock(c)} /\ judged' = judged
    BY <1>9 DEF block_rpc_failed
  <2>2. \A d \in Conns : pc'[d] = "rpc" => ThisBlock(d) \in marked' /\ judged[ThisBlock(d)] = 0
    BY <1>2, <1>5, <1>6, <2>1 DEF MarkInv
  <2>3. \A b \in Blocks : judged[b] # 0 => judged[b] = 1 /\ b \in marked'
    BY <1>2, <1>3, <2>1 DEF MarkInv
  <2> QED BY <1>4, <1>7, <2>1, <2>2, <2>3 DEF MarkInv
<1> QED BY <1>8, <1>9

\* Every step keeps the guard ahead of the calls.
LEMMA NextMark == Base /\ MarkInv /\ [Next]_vars => MarkInv'
<1> SUFFICES ASSUME Base, MarkInv, [Next]_vars PROVE MarkInv'
  OBVIOUS
<1>t. pc \in [Conns -> Steps] /\ forgets \in Nat
  BY JobAssumption DEF Base, TypeOK, Steps
<1>1. ASSUME NEW c \in Conns,
             \/ \E p \in Parents : new_job(c, p)
             \/ serve_refresh(c) \/ malformed_frame(c) \/ unparsable_frame(c) \/ missing_job(c)
      PROVE  UNCHANGED <<pc, req, work, marked, judged, forgets>>
  BY <1>1 DEF new_job, serve_refresh, malformed_frame, unparsable_frame, missing_job,
              shared, local, chain
<1>2. CASE UNCHANGED <<pc, req, work, marked, judged, forgets>>
  BY <1>2, MarkFrame
<1>3. ASSUME NEW c \in Conns, NEW id \in JobIds, NEW n \in Nonces, submit(c, id, n) PROVE MarkInv'
  <2>1. /\ UNCHANGED <<marked, judged, forgets>>
        /\ \A d \in Conns : d # c => pc'[d] = pc[d] /\ work'[d] = work[d] /\ req'[d] = req[d]
        /\ pc'[c] \in {"idle", "check"}
    BY <1>3 DEF submit, receive, Go, chain, local, Base, TypeOK
  <2> QED BY <2>1, MarkFrame
<1>4. ASSUME NEW c \in Conns, handler(c), ~submit_block(c), ~block_judged(c), ~block_rpc_failed(c)
      PROVE  MarkInv'
  <2>1. UNCHANGED <<marked, judged, req, forgets>>
    BY <1>4 DEF handler, check_network, check_pool, check_previous, reject_low_diff,
         low_diff_recorded, submit_merged_parent_if_solved, claim_network_solution,
         announce_block, reject_bad, reject_stale, credit_share, shared, chain
  <2>2. CASE check_previous(c)
    <3>1. UNCHANGED pc /\ pc[c] = "check" /\ \A d \in Conns : d # c => work'[d] = work[d]
      BY <2>2 DEF check_previous, Base, TypeOK
    <3> QED BY <2>1, <3>1, MarkFrame
  <2>3. CASE ~check_previous(c)
    <3>1. UNCHANGED work
      BY <1>4, <2>3 DEF handler, check_network, check_pool, reject_low_diff,
         low_diff_recorded, submit_merged_parent_if_solved, claim_network_solution,
         announce_block, reject_bad, reject_stale, credit_share
    <3>2. \A d \in Conns : pc'[d] = "rpc" => pc[d] = "rpc"
      BY <1>4, <2>3, <1>t DEF handler, check_network, check_pool, reject_low_diff,
         low_diff_recorded, submit_merged_parent_if_solved, claim_network_solution,
         announce_block, reject_bad, reject_stale, credit_share, Go
    <3> QED BY <2>1, <3>1, <3>2, MarkFrame
  <2> QED BY <2>2, <2>3
<1>5. ASSUME \/ \E k \in Keys : expire_submission(k)
             \/ \E b \in Blocks : expire_block(b)
      PROVE  MarkInv'
  <2>1. forgets' # 0
    BY <1>5, <1>t DEF expire_submission, expire_block
  <2> QED BY <2>1 DEF MarkInv
<1>6. CASE UNCHANGED vars
  BY <1>6, <1>2 DEF vars, shared, local, chain
<1> QED BY <1>1, <1>2, <1>3, <1>4, <1>5, <1>6, SubmitBlockMark, AnswerMark DEF Next

-----------------------------------------------------------------------------

\* The inductive invariant holds throughout.
LEMMA Invariance == Spec => []IInv
<1>1. Init => IInv
  BY InitBase, InitKas, InitLane, InitMark DEF IInv
<1>2. IInv /\ [Next]_vars => IInv'
  BY NextBase, NextKas, NextLane, NextMark DEF IInv
<1> QED BY <1>1, <1>2, PTL DEF Spec

\* The node is asked to judge a ZKas block at most once: always in merged mode,
\* whatever the guards forget and the table evicts, because of the claim; and
\* without merged mining for as long as no guard entry has expired.
THEOREM JudgedOnce == Spec => []((Merged \/ forgets = 0) => NodeJudgesOnce)
<1>1. IInv => ((Merged \/ forgets = 0) => NodeJudgesOnce)
  <2> SUFFICES ASSUME IInv, Merged \/ forgets = 0, NEW b \in Blocks
               PROVE  /\ judged[b] <= 1
                      /\ judged[b] = 1 => \A c \in Conns : ~(pc[c] = "rpc" /\ ThisBlock(c) = b)
    BY DEF NodeJudgesOnce
  <2>1. judged[b] = 0 \/ judged[b] = 1
    BY DEF IInv, LaneInv, MarkInv
  <2>2. ASSUME NEW c \in Conns, pc[c] = "rpc", ThisBlock(c) = b PROVE judged[b] = 0
    BY <2>2 DEF IInv, LaneInv, MarkInv, Owner, ThisBlock, BlockOf
  <2> QED BY <2>1, <2>2
<1> QED BY Invariance, <1>1, PTL
-----------------------------------------------------------------------------
(* The books of the duplicate guard, as long as nothing expires. *)

\* What the entry of a key says of the books.
EntryTrue(k) ==
    /\ dup[k] = "Accepted" => credits[k] = 1 /\ rejects[k] = 0
    /\ dup[k] \in {"Stale", "LowDiff", "Bad"} => credits[k] = 0 /\ rejects[k] = 1
    /\ dup[k] = "InFlight" => credits[k] = 0
    /\ dup[k] = "None" => credits[k] = 0 /\ rejects[k] = 0

\* A submission under way holds its key alone: the guard has it in flight, and
\* nothing is booked under it but the rejection of a weak share whose outcome is
\* still to be recorded.
BooksInv ==
    forgets = 0 =>
        /\ \A c \in Conns : pc[c] # "idle" =>
              /\ dup[req[c]] = "InFlight" /\ credits[req[c]] = 0
              /\ rejects[req[c]] = IF pc[c] = "low" THEN 1 ELSE 0
        /\ \A c, d \in Conns : (pc[c] # "idle" /\ pc[d] # "idle" /\ req[c] = req[d]) => c = d
        /\ \A k \in Keys : EntryTrue(k)

\* Before the first frame there is no entry and nothing is booked.
LEMMA InitBooks == Init => BooksInv
  BY DEF Init, BooksInv, EntryTrue

\* A step that books nothing, starts no submission, and leaves weak ones weak.
LEMMA BooksFrame ==
  ASSUME BooksInv, UNCHANGED <<dup, credits, rejects>>, forgets' = 0 => forgets = 0,
         \A d \in Conns : pc'[d] # "idle" =>
            pc[d] # "idle" /\ (pc'[d] = "low" <=> pc[d] = "low") /\ req'[d] = req[d]
  PROVE  BooksInv'
  BY DEF BooksInv, EntryTrue

\* The submission of connection c ends with its key at a true entry.
LEMMA BooksEnd ==
  ASSUME Base, BooksInv, NEW c \in Conns, pc[c] # "idle",
         UNCHANGED <<req, forgets>>, pc' = [pc EXCEPT ![c] = "idle"],
         \A k \in Keys : k # req[c] =>
            dup'[k] = dup[k] /\ credits'[k] = credits[k] /\ rejects'[k] = rejects[k],
         forgets = 0 => EntryTrue(req[c])'
  PROVE  BooksInv'
<1> SUFFICES ASSUME forgets = 0 PROVE BooksInv'
  BY DEF BooksInv
<1>1. \A d \in Conns : pc'[d] # "idle" => d # c /\ pc'[d] = pc[d] /\ pc[d] # "idle"
  BY DEF Base, TypeOK
<1>2. \A d \in Conns : pc'[d] # "idle" => req[d] \in Keys /\ req[d] # req[c]
  BY <1>1, UnderWay DEF BooksInv
<1>3. \A d \in Conns : pc'[d] # "idle" =>
         /\ dup'[req'[d]] = "InFlight" /\ credits'[req'[d]] = 0
         /\ rejects'[req'[d]] = IF pc'[d] = "low" THEN 1 ELSE 0
  <2> SUFFICES ASSUME NEW d \in Conns, pc'[d] # "idle"
               PROVE  /\ dup'[req[d]] = "InFlight" /\ credits'[req[d]] = 0
                      /\ rejects'[req[d]] = IF pc'[d] = "low" THEN 1 ELSE 0
    OBVIOUS
  <2>1. /\ dup'[req[d]] = dup[req[d]] /\ credits'[req[d]] = credits[req[d]]
        /\ rejects'[req[d]] = rejects[req[d]]
    BY <1>2
  <2> QED BY <1>1, <2>1 DEF BooksInv
<1>4. \A d, e \in Conns :
         (pc'[d] # "idle" /\ pc'[e] # "idle" /\ req'[d] = req'[e]) => d = e
  BY <1>1 DEF BooksInv
<1>5. \A k \in Keys : EntryTrue(k)'
  <2> SUFFICES ASSUME NEW k \in Keys, k # req[c] PROVE EntryTrue(k)'
    OBVIOUS
  <2>1. EntryTrue(k)
    BY DEF BooksInv
  <2> QED BY <2>1 DEF EntryTrue
<1> QED BY <1>3, <1>4, <1>5 DEF BooksInv

\* The steps that end a submission record the outcome they book.
LEMMA EndBooks ==
  ASSUME Base, BooksInv, NEW c \in Conns,
         low_diff_recorded(c) \/ reject_bad(c) \/ reject_stale(c) \/ credit_share(c)
  PROVE  BooksInv'
<1> DEFINE k == req[c]
<1>0. pc[c] # "idle" /\ UNCHANGED <<req, forgets>> /\ pc' = [pc EXCEPT ![c] = "idle"]
  BY DEF low_diff_recorded, reject_bad, reject_stale, credit_share, Go
<1>1. k \in Keys
  BY <1>0, UnderWay
<1>t. /\ dup \in [Keys -> Outcomes \union {"None"}]
      /\ credits \in [Keys -> Nat] /\ rejects \in [Keys -> Nat]
  BY DEF Base, TypeOK
<1>f. forgets = 0 => /\ dup[k] = "InFlight" /\ credits[k] = 0
                     /\ rejects[k] = IF pc[c] = "low" THEN 1 ELSE 0
  BY <1>0 DEF BooksInv
<1> HIDE DEF k
<1>2. CASE low_diff_recorded(c)
  <2>1. /\ dup' = [dup EXCEPT ![k] = IF dup[k] = "None" THEN dup[k] ELSE "LowDiff"]
        /\ UNCHANGED <<credits, rejects>> /\ pc[c] = "low"
    BY <1>2 DEF low_diff_recorded, set_outcome, books, k
  <2>2. forgets = 0 => dup'[k] = "LowDiff" /\ credits'[k] = 0 /\ rejects'[k] = 1
    BY <1>1, <1>t, <1>f, <2>1
  <2>3. \A j \in Keys : j # k =>
            dup'[j] = dup[j] /\ credits'[j] = credits[j] /\ rejects'[j] = rejects[j]
    BY <1>1, <1>t, <2>1
  <2> QED BY <1>0, <2>2, <2>3, BooksEnd DEF k, EntryTrue
<1>3. CASE reject_bad(c) \/ reject_stale(c)
  <2>1. /\ \/ dup' = [dup EXCEPT ![k] = IF dup[k] = "None" THEN dup[k] ELSE "Bad"]
           \/ dup' = [dup EXCEPT ![k] = IF dup[k] = "None" THEN dup[k] ELSE "Stale"]
        /\ rejects' = [rejects EXCEPT ![k] = rejects[k] + 1]
        /\ UNCHANGED credits /\ pc[c] # "low"
    BY <1>3 DEF reject_bad, reject_stale, set_outcome, Rejected, k
  <2>2. forgets = 0 => dup'[k] \in {"Bad", "Stale"} /\ credits'[k] = 0 /\ rejects'[k] = 1
    BY <1>1, <1>t, <1>f, <2>1
  <2>3. \A j \in Keys : j # k =>
            dup'[j] = dup[j] /\ credits'[j] = credits[j] /\ rejects'[j] = rejects[j]
    BY <1>1, <1>t, <2>1
  <2> QED BY <1>0, <2>2, <2>3, BooksEnd DEF k, EntryTrue
<1>4. CASE credit_share(c)
  <2>1. /\ dup' = [dup EXCEPT ![k] = IF dup[k] = "None" THEN dup[k] ELSE "Accepted"]
        /\ credits' = [credits EXCEPT ![k] = credits[k] + 1]
        /\ UNCHANGED rejects /\ pc[c] # "low"
    BY <1>4 DEF credit_share, set_outcome, k
  <2>2. forgets = 0 => dup'[k] = "Accepted" /\ credits'[k] = 1 /\ rejects'[k] = 0
    BY <1>1, <1>t, <1>f, <2>1
  <2>3. \A j \in Keys : j # k =>
            dup'[j] = dup[j] /\ credits'[j] = credits[j] /\ rejects'[j] = rejects[j]
    BY <1>1, <1>t, <2>1
  <2> QED BY <1>0, <2>2, <2>3, BooksEnd DEF k, EntryTrue
<1> QED BY <1>2, <1>3, <1>4

\* A weak share is booked before its outcome is recorded; its key is its own.
LEMMA LowBooks ==
  ASSUME Base, BooksInv, NEW c \in Conns, reject_low_diff(c)
  PROVE  BooksInv'
<1> SUFFICES ASSUME forgets = 0 PROVE BooksInv'
  BY DEF BooksInv, reject_low_diff
<1>1. /\ pc[c] = "check" /\ UNCHANGED <<req, dup, credits, forgets>>
      /\ rejects' = [rejects EXCEPT ![req[c]] = rejects[req[c]] + 1]
      /\ pc' = [pc EXCEPT ![c] = "low"]
  BY DEF reject_low_diff, Rejected, Go, shared
<1>2. req[c] \in Keys /\ pc \in [Conns -> Steps] /\ rejects \in [Keys -> Nat]
  BY <1>1, UnderWay DEF Base, TypeOK, Steps
<1>3. dup[req[c]] = "InFlight" /\ credits[req[c]] = 0 /\ rejects[req[c]] = 0
  BY <1>1 DEF BooksInv
<1>4. \A d \in Conns : pc'[d] # "idle" <=> pc[d] # "idle"
  BY <1>1, <1>2
<1>5. \A d \in Conns : d # c /\ pc[d] # "idle" => req[d] # req[c] /\ req[d] \in Keys
  BY <1>1, UnderWay DEF BooksInv
<1>6. rejects'[req[c]] = 1 /\ \A k \in Keys : k # req[c] => rejects'[k] = rejects[k]
  BY <1>1, <1>2, <1>3
<1>7. \A d \in Conns : pc'[d] # "idle" =>
         /\ dup'[req'[d]] = "InFlight" /\ credits'[req'[d]] = 0
         /\ rejects'[req'[d]] = IF pc'[d] = "low" THEN 1 ELSE 0
  <2> SUFFICES ASSUME NEW d \in Conns, pc[d] # "idle"
               PROVE  /\ dup[req[d]] = "InFlight" /\ credits[req[d]] = 0
                      /\ rejects'[req[d]] = IF pc'[d] = "low" THEN 1 ELSE 0
    BY <1>1, <1>4
  <2>1. CASE d = c
    BY <2>1, <1>1, <1>2, <1>3, <1>6
  <2>2. CASE d # c
    BY <2>2, <1>1, <1>2, <1>5, <1>6 DEF BooksInv
  <2> QED BY <2>1, <2>2
<1>8. \A d, e \in Conns :
         (pc'[d] # "idle" /\ pc'[e] # "idle" /\ req'[d] = req'[e]) => d = e
  BY <1>1, <1>4 DEF BooksInv
<1>9. \A k \in Keys : EntryTrue(k)'
  <2> SUFFICES ASSUME NEW k \in Keys PROVE EntryTrue(k)'
    OBVIOUS
  <2>1. EntryTrue(k)
    BY DEF BooksInv
  <2> QED BY <2>1, <1>1, <1>3, <1>6 DEF EntryTrue
<1> QED BY <1>7, <1>8, <1>9 DEF BooksInv

\* A key without an entry has nothing booked under it and no holder.
LEMMA SubmitBooks ==
  ASSUME Base, BooksInv, NEW c \in Conns, NEW id \in JobIds, NEW n \in Nonces, submit(c, id, n)
  PROVE  BooksInv'
<1> SUFFICES ASSUME forgets = 0 PROVE BooksInv'
  BY DEF BooksInv, submit
<1> DEFINE k == <<WorkerOf[c], effective_job_id(c, id), n>>
<1>0. UNCHANGED <<credits, rejects, forgets>> /\ pc[c] = "idle"
  BY DEF submit, receive
<1>1. CASE is_duplicate(k)
  <2>1. UNCHANGED <<dup, local>>
    BY <1>1 DEF submit
  <2> QED BY <1>0, <2>1, BooksFrame DEF local
<1>2. CASE ~is_duplicate(k)
  <2>1. /\ dup' = [dup EXCEPT ![k] = "InFlight"] /\ pc' = [pc EXCEPT ![c] = "check"]
        /\ req' = [req EXCEPT ![c] = k] /\ dup[k] = "None"
    BY <1>2 DEF submit, Go, is_duplicate
  <2>a. Base'
    BY SubmitBase
  <2>2. /\ pc \in [Conns -> Steps] /\ dup \in [Keys -> Outcomes \union {"None"}]
        /\ req \in [Conns -> Keys \union {None}]
    BY DEF Base, TypeOK, Steps
  <2> HIDE DEF k
  <2>3. pc'[c] = "check" /\ req'[c] = k /\ \A d \in Conns : d # c => pc'[d] = pc[d] /\ req'[d] = req[d]
    BY <2>1, <2>2
  <2>4. k \in Keys
    BY <2>a, <2>3 DEF Base, ChecksOwnRecentJobs
  <2>5. credits[k] = 0 /\ rejects[k] = 0
    BY <2>1, <2>4 DEF BooksInv, EntryTrue
  <2>6. \A d \in Conns : pc[d] # "idle" => req[d] # k /\ req[d] \in Keys
    BY <2>1, UnderWay DEF BooksInv
  <2>7. dup'[k] = "InFlight" /\ \A j \in Keys : j # k => dup'[j] = dup[j]
    BY <2>1, <2>2, <2>4
  <2>8. \A d \in Conns : pc'[d] # "idle" =>
           /\ dup'[req'[d]] = "InFlight" /\ credits'[req'[d]] = 0
           /\ rejects'[req'[d]] = IF pc'[d] = "low" THEN 1 ELSE 0
    <3> SUFFICES ASSUME NEW d \in Conns, pc'[d] # "idle"
                 PROVE  /\ dup'[req'[d]] = "InFlight" /\ credits[req'[d]] = 0
                        /\ rejects[req'[d]] = IF pc'[d] = "low" THEN 1 ELSE 0
      BY <1>0
    <3>1. CASE d = c
      BY <3>1, <2>3, <2>5, <2>7
    <3>2. CASE d # c
      BY <3>2, <2>3, <2>6, <2>7 DEF BooksInv
    <3> QED BY <3>1, <3>2
  <2>9. \A d, e \in Conns :
           (pc'[d] # "idle" /\ pc'[e] # "idle" /\ req'[d] = req'[e]) => d = e
    BY <2>3, <2>6 DEF BooksInv
  <2>10. \A j \in Keys : EntryTrue(j)'
    <3> SUFFICES ASSUME NEW j \in Keys PROVE EntryTrue(j)'
      OBVIOUS
    <3>1. EntryTrue(j)
      BY DEF BooksInv
    <3> QED BY <3>1, <1>0, <2>5, <2>7 DEF EntryTrue
  <2> QED BY <2>8, <2>9, <2>10 DEF BooksInv
<1> QED BY <1>1, <1>2

\* The other steps of a handler book nothing.
LEMMA QuietBooks ==
  ASSUME Base, BooksInv, NEW c \in Conns,
         \/ check_network(c) \/ check_pool(c) \/ check_previous(c)
         \/ submit_merged_parent_if_solved(c) \/ claim_network_solution(c)
         \/ announce_block(c) \/ submit_block(c) \/ block_judged(c) \/ block_rpc_failed(c)
  PROVE  BooksInv'
<1>t. pc \in [Conns -> Steps]
  BY DEF Base, TypeOK, Steps
<1>1. UNCHANGED <<dup, credits, rejects, req, forgets>> /\ pc[c] # "idle" /\ pc[c] # "low"
  BY DEF check_network, check_pool, check_previous, submit_merged_parent_if_solved,
         claim_network_solution, announce_block, submit_block, block_judged,
         block_rpc_failed, shared, books
<1>2. pc' = pc \/ \E s \in Steps \ {"idle", "low"} : pc' = [pc EXCEPT ![c] = s]
  BY DEF check_network, check_pool, check_previous, submit_merged_parent_if_solved,
         claim_network_solution, announce_block, submit_block, block_judged,
         block_rpc_failed, Go, Steps
<1> QED BY <1>t, <1>1, <1>2, BooksFrame

\* Every step keeps the books and the guard together.
LEMMA NextBooks == Base /\ BooksInv /\ [Next]_vars => BooksInv'
<1> SUFFICES ASSUME Base, BooksInv, [Next]_vars PROVE BooksInv'
  OBVIOUS
<1>1. ASSUME NEW c \in Conns, handler(c) PROVE BooksInv'
  BY <1>1, QuietBooks, EndBooks, LowBooks DEF handler
<1>2. CASE UNCHANGED <<pc, req, dup, credits, rejects, forgets>>
  BY <1>2, BooksFrame
<1>3. ASSUME NEW c \in Conns,
             \/ \E p \in Parents : new_job(c, p)
             \/ serve_refresh(c) \/ malformed_frame(c) \/ unparsable_frame(c) \/ missing_job(c)
      PROVE  UNCHANGED <<pc, req, dup, credits, rejects, forgets>>
  BY <1>3 DEF new_job, serve_refresh, malformed_frame, unparsable_frame, missing_job,
              shared, local, books
<1>4. ASSUME \/ \E k \in Keys : expire_submission(k)
             \/ \E b \in Blocks : expire_block(b)
      PROVE  BooksInv'
  <2>1. forgets' # 0
    BY <1>4, JobAssumption DEF expire_submission, expire_block, Base, TypeOK
  <2> QED BY <2>1 DEF BooksInv
<1>5. CASE UNCHANGED vars
  BY <1>5, <1>2 DEF vars, shared, local, books
<1> QED BY <1>1, <1>2, <1>3, <1>4, <1>5, SubmitBooks DEF Next

\* Types and books together.
LEMMA BooksInvariance == Spec => [](Base /\ BooksInv)
<1>1. Init => Base /\ BooksInv
  BY InitBase, InitBooks
<1>2. Base /\ BooksInv /\ [Next]_vars => Base' /\ BooksInv'
  BY NextBase, NextBooks
<1> QED BY <1>1, <1>2, PTL DEF Spec

-----------------------------------------------------------------------------
(* What the frames are told, as long as nothing expires. *)

\* A verdict told is the one recorded and is told ever after; a weak share is told
\* so between its booking and its record, and from then on.
ToldTrue(k) ==
    /\ dup[k] = "None" => answers[k] = <<>>
    /\ \A i \in 1 .. Len(answers[k]) :
          /\ answers[k][i] \notin {"InFlight", "LowDiff"} =>
                /\ answers[k][i] = dup[k]
                /\ \A j \in i .. Len(answers[k]) : answers[k][j] = answers[k][i]
          /\ answers[k][i] = "LowDiff" => dup[k] \in {"InFlight", "LowDiff"} /\ rejects[k] = 1

AnswersInv == forgets = 0 => \A k \in Keys : ToldTrue(k)

\* Before the first frame nobody has been told anything.
LEMMA InitAnswers == Init => AnswersInv
<1> SUFFICES ASSUME Init, NEW k \in Keys PROVE ToldTrue(k)
  BY DEF AnswersInv
<1>1. answers[k] = <<>>
  BY DEF Init
<1>2. Len(answers[k]) = 0
  BY <1>1
<1> QED BY <1>1, <1>2 DEF ToldTrue

\* A step that concerns one key at most, and keeps that one told the truth.
LEMMA AnswersFrame ==
  ASSUME AnswersInv, forgets' = 0 => forgets = 0, NEW k,
         \A j \in Keys : j # k =>
            dup'[j] = dup[j] /\ rejects'[j] = rejects[j] /\ answers'[j] = answers[j],
         forgets' = 0 => (k \in Keys => ToldTrue(k)')
  PROVE  AnswersInv'
<1> SUFFICES ASSUME forgets' = 0, NEW j \in Keys, j # k PROVE ToldTrue(j)'
  BY DEF AnswersInv
<1>1. ToldTrue(j)
  BY DEF AnswersInv
<1>2. dup'[j] = dup[j] /\ rejects'[j] = rejects[j] /\ answers'[j] = answers[j]
  OBVIOUS
<1> QED BY <1>1, <1>2 DEF ToldTrue

\* The holder of a key that has not been booked: whoever asked meanwhile was told
\* that it is in flight.
LEMMA HolderAnswers ==
  ASSUME Base, BooksInv, AnswersInv, forgets = 0, NEW c \in Conns, pc[c] # "idle"
  PROVE  /\ req[c] \in Keys /\ answers[req[c]] \in Seq(Outcomes)
         /\ dup[req[c]] = "InFlight"
         /\ pc[c] # "low" => /\ rejects[req[c]] = 0
                             /\ \A i \in 1 .. Len(answers[req[c]]) : answers[req[c]][i] = "InFlight"
<1>1. req[c] \in Keys /\ answers[req[c]] \in Seq(Outcomes)
  BY UnderWay DEF Base, TypeOK
<1>2. dup[req[c]] = "InFlight" /\ rejects[req[c]] = IF pc[c] = "low" THEN 1 ELSE 0
  BY DEF BooksInv
<1>3. ToldTrue(req[c])
  BY <1>1 DEF AnswersInv
<1> QED BY <1>1, <1>2, <1>3 DEF ToldTrue

\* The first verdict on a key is told.
LEMMA VerdictAnswers ==
  ASSUME Base, BooksInv, AnswersInv, NEW c \in Conns,
         reject_bad(c) \/ reject_stale(c) \/ credit_share(c)
  PROVE  AnswersInv'
<1>0. pc[c] # "idle" /\ pc[c] # "low" /\ forgets' = forgets
  BY DEF reject_bad, reject_stale, credit_share
<1>1. PICK k \in Keys : k = req[c]
  BY <1>0, UnderWay
<1>t. /\ dup \in [Keys -> Outcomes \union {"None"}]
      /\ rejects \in [Keys -> Nat] /\ answers \in [Keys -> Seq(Outcomes)]
  BY DEF Base, TypeOK
<1>2. PICK v \in {"Bad", "Stale", "Accepted"} :
         /\ dup' = [dup EXCEPT ![k] = IF dup[k] = "None" THEN dup[k] ELSE v]
         /\ answers' = [answers EXCEPT ![k] = Append(answers[k], v)]
         /\ rejects' = rejects \/ rejects' = [rejects EXCEPT ![k] = rejects[k] + 1]
  BY <1>1 DEF reject_bad, reject_stale, credit_share, set_outcome, Answered, Rejected
<1>3. forgets = 0 => /\ answers[k] \in Seq(Outcomes) /\ dup[k] = "InFlight"
                     /\ \A i \in 1 .. Len(answers[k]) : answers[k][i] = "InFlight"
  BY <1>0, <1>1, HolderAnswers
<1>4. \A j \in Keys : j # k =>
         dup'[j] = dup[j] /\ rejects'[j] = rejects[j] /\ answers'[j] = answers[j]
  BY <1>t, <1>2
<1>5. ASSUME forgets = 0 PROVE ToldTrue(k)'
  <2>1. dup'[k] = v /\ answers'[k] = Append(answers[k], v)
    BY <1>1, <1>t, <1>2, <1>3, <1>5
  <2>2. /\ Len(answers'[k]) = Len(answers[k]) + 1 /\ Len(answers[k]) \in Nat
        /\ answers'[k][Len(answers[k]) + 1] = v
        /\ \A i \in 1 .. Len(answers[k]) : answers'[k][i] = "InFlight"
    BY <2>1, <1>3, <1>5
  <2> QED BY <2>1, <2>2 DEF ToldTrue
<1> QED BY <1>0, <1>4, <1>5, AnswersFrame

\* A weak share is told so and booked; its outcome is recorded after that.
LEMMA LowAnswers ==
  ASSUME Base, BooksInv, AnswersInv, NEW c \in Conns,
         reject_low_diff(c) \/ low_diff_recorded(c)
  PROVE  AnswersInv'
<1>0. pc[c] # "idle" /\ forgets' = forgets
  BY DEF reject_low_diff, low_diff_recorded
<1>1. PICK k \in Keys : k = req[c]
  BY <1>0, UnderWay
<1>t. /\ dup \in [Keys -> Outcomes \union {"None"}]
      /\ rejects \in [Keys -> Nat] /\ answers \in [Keys -> Seq(Outcomes)]
  BY DEF Base, TypeOK
<1>2. CASE reject_low_diff(c)
  <2>1. /\ pc[c] = "check" /\ UNCHANGED dup
        /\ answers' = [answers EXCEPT ![k] = Append(answers[k], "LowDiff")]
        /\ rejects' = [rejects EXCEPT ![k] = rejects[k] + 1]
    BY <1>1, <1>2 DEF reject_low_diff, Answered, Rejected, shared
  <2>3. forgets = 0 => /\ answers[k] \in Seq(Outcomes) /\ dup[k] = "InFlight" /\ rejects[k] = 0
                       /\ \A i \in 1 .. Len(answers[k]) : answers[k][i] = "InFlight"
    BY <1>0, <1>1, <2>1, HolderAnswers
  <2>4. \A j \in Keys : j # k =>
           dup'[j] = dup[j] /\ rejects'[j] = rejects[j] /\ answers'[j] = answers[j]
    BY <1>t, <2>1
  <2>5. ASSUME forgets = 0 PROVE ToldTrue(k)'
    <3>1. /\ dup'[k] = "InFlight" /\ rejects'[k] = 1
          /\ answers'[k] = Append(answers[k], "LowDiff")
      BY <1>1, <1>t, <2>1, <2>3, <2>5
    <3>2. /\ Len(answers'[k]) = Len(answers[k]) + 1 /\ Len(answers[k]) \in Nat
          /\ answers'[k][Len(answers[k]) + 1] = "LowDiff"
          /\ \A i \in 1 .. Len(answers[k]) : answers'[k][i] = "InFlight"
      BY <3>1, <2>3, <2>5
    <3> QED BY <3>1, <3>2 DEF ToldTrue
  <2> QED BY <1>0, <2>4, <2>5, AnswersFrame
<1>3. CASE low_diff_recorded(c)
  <2>1. /\ dup' = [dup EXCEPT ![k] = IF dup[k] = "None" THEN dup[k] ELSE "LowDiff"]
        /\ UNCHANGED <<rejects, answers>>
    BY <1>1, <1>3 DEF low_diff_recorded, set_outcome, books
  <2>3. forgets = 0 => dup[k] = "InFlight"
    BY <1>0, <1>1, HolderAnswers
  <2>4. \A j \in Keys : j # k =>
           dup'[j] = dup[j] /\ rejects'[j] = rejects[j] /\ answers'[j] = answers[j]
    BY <1>t, <2>1
  <2>5. ASSUME forgets = 0 PROVE ToldTrue(k)'
    <3>1. dup'[k] = "LowDiff" /\ dup[k] = "InFlight" /\ rejects' = rejects /\ answers' = answers
      BY <1>1, <1>t, <2>1, <2>3, <2>5
    <3>2. ToldTrue(k)
      BY <1>1, <2>5 DEF AnswersInv
    <3> QED BY <3>1, <3>2 DEF ToldTrue
  <2> QED BY <1>0, <2>4, <2>5, AnswersFrame
<1> QED BY <1>2, <1>3

\* A repeat is told what is recorded; a new key has told nobody anything.
LEMMA SubmitAnswers ==
  ASSUME Base, BooksInv, AnswersInv, NEW c \in Conns, NEW id \in JobIds, NEW n \in Nonces,
         submit(c, id, n)
  PROVE  AnswersInv'
<1>k. PICK k : k = <<WorkerOf[c], effective_job_id(c, id), n>>
  OBVIOUS
<1>0. UNCHANGED <<rejects, forgets>>
  BY DEF submit
<1>t. /\ dup \in [Keys -> Outcomes \union {"None"}]
      /\ rejects \in [Keys -> Nat] /\ answers \in [Keys -> Seq(Outcomes)]
  BY DEF Base, TypeOK
<1>1. CASE is_duplicate(k)
  <2>1. UNCHANGED dup /\ answers' = [answers EXCEPT ![k] = Append(answers[k], dup[k])] /\ dup[k] # "None"
    BY <1>1, <1>k DEF submit, Answered, is_duplicate
  <2>2. \A j \in Keys : j # k =>
           dup'[j] = dup[j] /\ rejects'[j] = rejects[j] /\ answers'[j] = answers[j]
    BY <1>0, <1>t, <2>1
  <2>3. ASSUME forgets = 0, k \in Keys PROVE ToldTrue(k)'
    <3>1. /\ answers'[k] = Append(answers[k], dup[k]) /\ answers[k] \in Seq(Outcomes)
          /\ dup[k] \in Outcomes
      BY <1>t, <2>1, <2>3
    <3>2. /\ Len(answers'[k]) = Len(answers[k]) + 1 /\ Len(answers[k]) \in Nat
          /\ answers'[k][Len(answers[k]) + 1] = dup[k]
          /\ \A i \in 1 .. Len(answers[k]) : answers'[k][i] = answers[k][i]
      BY <3>1
    <3>3. ToldTrue(k) /\ (dup[k] = "LowDiff" => rejects[k] = 1)
      BY <2>3 DEF AnswersInv, BooksInv, EntryTrue
    <3>4. dup'[k] = dup[k] /\ rejects'[k] = rejects[k] /\ dup'[k] # "None"
      BY <1>0, <2>1
    <3>5. ASSUME NEW i \in 1 .. Len(answers'[k])
          PROVE  /\ answers'[k][i] \notin {"InFlight", "LowDiff"} =>
                       /\ answers'[k][i] = dup'[k]
                       /\ \A j \in i .. Len(answers'[k]) : answers'[k][j] = answers'[k][i]
                 /\ answers'[k][i] = "LowDiff" =>
                       dup'[k] \in {"InFlight", "LowDiff"} /\ rejects'[k] = 1
      <4>1. CASE i \in 1 .. Len(answers[k])
        BY <4>1, <3>2, <3>3, <3>4 DEF ToldTrue
      <4>2. CASE i = Len(answers[k]) + 1
        BY <4>2, <3>2, <3>3, <3>4
      <4> QED BY <4>1, <4>2, <3>2
    <3> QED BY <3>4, <3>5 DEF ToldTrue
  <2> QED BY <1>0, <2>2, <2>3, AnswersFrame
<1>2. CASE ~is_duplicate(k)
  <2>1. dup' = [dup EXCEPT ![k] = "InFlight"] /\ dup[k] = "None" /\ UNCHANGED answers
    BY <1>2, <1>k DEF submit, is_duplicate
  <2>2. \A j \in Keys : j # k =>
           dup'[j] = dup[j] /\ rejects'[j] = rejects[j] /\ answers'[j] = answers[j]
    BY <1>0, <1>t, <2>1
  <2>3. ASSUME forgets = 0, k \in Keys PROVE ToldTrue(k)'
    <3>1. answers'[k] = <<>> /\ dup'[k] = "InFlight"
      BY <1>t, <2>1, <2>3 DEF AnswersInv, ToldTrue
    <3>2. Len(answers'[k]) = 0
      BY <3>1
    <3> QED BY <3>1, <3>2 DEF ToldTrue
  <2> QED BY <1>0, <2>2, <2>3, AnswersFrame
<1> QED BY <1>1, <1>2

\* Every step keeps the answers true.
LEMMA NextAnswers == Base /\ BooksInv /\ AnswersInv /\ [Next]_vars => AnswersInv'
<1> SUFFICES ASSUME Base, BooksInv, AnswersInv, [Next]_vars PROVE AnswersInv'
  OBVIOUS
<1>1. CASE UNCHANGED <<dup, rejects, answers, forgets>>
  BY <1>1 DEF AnswersInv, ToldTrue
<1>2. ASSUME NEW c \in Conns,
             \/ check_network(c) \/ check_pool(c) \/ check_previous(c)
             \/ submit_merged_parent_if_solved(c) \/ claim_network_solution(c)
             \/ announce_block(c) \/ submit_block(c) \/ block_judged(c) \/ block_rpc_failed(c)
      PROVE  UNCHANGED <<dup, rejects, answers, forgets>>
  BY <1>2 DEF check_network, check_pool, check_previous, submit_merged_parent_if_solved,
         claim_network_solution, announce_block, submit_block, block_judged,
         block_rpc_failed, shared, books
<1>3. ASSUME NEW c \in Conns, handler(c) PROVE AnswersInv'
  BY <1>1, <1>2, <1>3, VerdictAnswers, LowAnswers DEF handler
<1>4. ASSUME NEW c \in Conns,
             \/ \E p \in Parents : new_job(c, p)
             \/ serve_refresh(c) \/ malformed_frame(c) \/ unparsable_frame(c) \/ missing_job(c)
      PROVE  UNCHANGED <<dup, rejects, answers, forgets>>
  BY <1>4 DEF new_job, serve_refresh, malformed_frame, unparsable_frame, missing_job,
              shared, books
<1>5. ASSUME \/ \E k \in Keys : expire_submission(k)
             \/ \E b \in Blocks : expire_block(b)
      PROVE  AnswersInv'
  <2>1. forgets' # 0
    BY <1>5, JobAssumption DEF expire_submission, expire_block, Base, TypeOK
  <2> QED BY <2>1 DEF AnswersInv
<1>6. CASE UNCHANGED vars
  BY <1>6, <1>1 DEF vars, shared, books
<1> QED BY <1>1, <1>3, <1>4, <1>5, <1>6, SubmitAnswers DEF Next

\* However many submissions of one worker name race, and wherever each of them
\* ends, a key is booked once, and every frame is told what is booked or, while the
\* booking is still to come, that it is in flight.
THEOREM AnswersTrue == Spec => []AnswersAreTrue
<1>1. Init => Base /\ BooksInv /\ AnswersInv
  BY InitBase, InitBooks, InitAnswers
<1>2. Base /\ BooksInv /\ AnswersInv /\ [Next]_vars => (Base /\ BooksInv /\ AnswersInv)'
  BY NextBase, NextBooks, NextAnswers
<1>3. Base /\ BooksInv /\ AnswersInv => AnswersAreTrue
  <2> SUFFICES ASSUME Base, BooksInv, AnswersInv, forgets = 0, NEW k \in Keys
               PROVE  /\ dup[k] = "None" => credits[k] + rejects[k] = 0 /\ answers[k] = <<>>
                      /\ dup[k] # "None" => Fared(k, dup[k])
                      /\ \A i \in 1 .. Len(answers[k]) :
                            /\ answers[k][i] # "InFlight" => Fared(k, answers[k][i])
                            /\ answers[k][i] \notin {"InFlight", "LowDiff"} =>
                                  \A j \in i .. Len(answers[k]) : answers[k][j] = answers[k][i]
    BY DEF AnswersAreTrue
  <2>1. /\ EntryTrue(k) /\ ToldTrue(k) /\ dup[k] \in Outcomes \union {"None"}
        /\ answers[k] \in Seq(Outcomes)
    BY DEF BooksInv, AnswersInv, Base, TypeOK
  <2>2. dup[k] = "None" => credits[k] + rejects[k] = 0 /\ answers[k] = <<>>
    BY <2>1 DEF EntryTrue, ToldTrue
  <2>3. dup[k] # "None" => Fared(k, dup[k])
    BY <2>1 DEF EntryTrue, Fared, Outcomes, Refusals
  <2>4. ASSUME NEW i \in 1 .. Len(answers[k]), answers[k][i] # "InFlight"
        PROVE  Fared(k, answers[k][i])
    <3>1. CASE answers[k][i] = "LowDiff"
      <4>1. credits[k] = 0 /\ rejects[k] = 1
        BY <2>1, <3>1 DEF ToldTrue, EntryTrue
      <4> QED BY <3>1, <4>1 DEF Fared, Refusals
    <3>2. CASE answers[k][i] # "LowDiff"
      <4>1. answers[k][i] = dup[k] /\ dup[k] \in Outcomes
        BY <2>1, <2>4, <3>2 DEF ToldTrue
      <4>2. dup[k] # "None"
        BY <4>1 DEF Outcomes
      <4> QED BY <2>3, <4>1, <4>2
    <3> QED BY <3>1, <3>2
  <2> QED BY <2>1, <2>2, <2>3, <2>4 DEF ToldTrue
<1> QED BY <1>1, <1>2, <1>3, PTL DEF Spec

\* Only the submission that holds a key in flight records an outcome for it, so
\* a recorded outcome never changes while no entry expires.
THEOREM OutcomesFinal == Spec => OutcomesAreFinal
<1> DEFINE Final == forgets' = 0 =>
                      \A k \in Keys : dup[k] \notin {"None", "InFlight"} => dup'[k] = dup[k]
<1>1. Base /\ BooksInv /\ [Next]_vars => [Final]_vars
  <2> SUFFICES ASSUME Base, BooksInv, Next, forgets' = 0,
                      NEW k \in Keys, dup[k] \notin {"None", "InFlight"}
               PROVE  dup'[k] = dup[k]
    OBVIOUS
  <2>t. dup \in [Keys -> Outcomes \union {"None"}] /\ forgets \in Nat
    BY JobAssumption DEF Base, TypeOK
  <2>1. ASSUME NEW c \in Conns, pc[c] # "idle", forgets = 0 PROVE req[c] # k
    BY <2>1 DEF BooksInv
  <2>2. ASSUME NEW c \in Conns, handler(c) PROVE dup'[k] = dup[k]
    <3>1. /\ pc[c] # "idle" /\ forgets = 0
          /\ \/ dup' = dup
             \/ \E o \in Outcomes : set_outcome(req[c], o)
      BY <2>2 DEF handler, check_network, check_pool, check_previous, reject_low_diff,
           low_diff_recorded, submit_merged_parent_if_solved, claim_network_solution,
           announce_block, submit_block, block_judged, block_rpc_failed, reject_bad,
           reject_stale, credit_share, shared, Outcomes
    <3> QED BY <2>t, <2>1, <3>1 DEF set_outcome
  <2>3. ASSUME NEW c \in Conns, NEW id \in JobIds, NEW n \in Nonces, submit(c, id, n)
        PROVE  dup'[k] = dup[k]
    BY <2>3, <2>t DEF submit, is_duplicate
  <2>4. ASSUME NEW c \in Conns,
             \/ \E p \in Parents : new_job(c, p)
             \/ serve_refresh(c) \/ malformed_frame(c) \/ unparsable_frame(c) \/ missing_job(c)
        PROVE  dup'[k] = dup[k]
    BY <2>4 DEF new_job, serve_refresh, malformed_frame, unparsable_frame, missing_job, shared
  <2>5. ~(\E j \in Keys : expire_submission(j)) /\ ~(\E b \in Blocks : expire_block(b))
    BY <2>t DEF expire_submission, expire_block
  <2> QED BY <2>2, <2>3, <2>4, <2>5 DEF Next
<1>2. Spec => [][Final]_vars
  BY BooksInvariance, <1>1, PTL DEF Spec
<1> QED BY <1>2 DEF OutcomesAreFinal
-----------------------------------------------------------------------------
(* The events of a block. *)

\* A find is announced before the call that may accept it, and an accepted block
\* has been judged, so that a block judged once has one event.
PairInv ==
    /\ \A c \in Conns : (pc[c] \in {"submit", "rpc"} /\ WorkerOf[c] \in ValidWorkers) =>
          ThisFind(c) \in block_found
    /\ \A f \in block_accepted :
          judged[f[3]] # 0 /\ (WorkerOf[f[1]] \in ValidWorkers => f \in block_found)
    /\ (Merged \/ forgets = 0) => \A f, g \in block_accepted : f[3] = g[3] => f = g

\* Before the first frame there are no events.
LEMMA InitPair == Init => PairInv
  BY DEF Init, PairInv

\* A step that announces nothing and judges nothing.
LEMMA PairFrame ==
  ASSUME PairInv, UNCHANGED <<block_found, block_accepted, judged>>, forgets' = 0 => forgets = 0,
         \A d \in Conns : pc'[d] \in {"submit", "rpc"} =>
            /\ pc[d] \in {"submit", "rpc"}
            /\ work'[d] = work[d] /\ req'[d] = req[d] /\ cid'[d] = cid[d]
  PROVE  PairInv'
<1>1. \A d \in Conns : pc'[d] \in {"submit", "rpc"} => ThisFind(d)' = ThisFind(d)
  BY DEF ThisFind, ThisBlock, BlockOf
<1> QED BY <1>1 DEF PairInv

\* BlockFound goes out before the submission reaches the call.
LEMMA AnnouncePair ==
  ASSUME Base, PairInv, NEW c \in Conns, announce_block(c)
  PROVE  PairInv'
<1>1. /\ UNCHANGED <<work, req, cid, judged, block_accepted, forgets>>
      /\ block_found \subseteq block_found'
      /\ WorkerOf[c] \in ValidWorkers => ThisFind(c) \in block_found'
      /\ pc' = [pc EXCEPT ![c] = "submit"] /\ pc \in [Conns -> Steps]
  BY DEF announce_block, Go, Base, TypeOK, Steps
<1>2. \A d \in Conns : ThisFind(d)' = ThisFind(d)
  BY <1>1 DEF ThisFind, ThisBlock, BlockOf
<1>3. \A d \in Conns : (pc'[d] \in {"submit", "rpc"} /\ WorkerOf[d] \in ValidWorkers) =>
         ThisFind(d) \in block_found'
  BY <1>1 DEF PairInv
<1> QED BY <1>1, <1>2, <1>3 DEF PairInv

\* The block of a call has not been judged, by the claim in merged mode and by the
\* guard otherwise, so no event of it went out.
LEMMA JudgedPair ==
  ASSUME IInv, PairInv, NEW c \in Conns, block_judged(c)
  PROVE  PairInv'
<1> DEFINE t == ThisFind(c)
<1>1. /\ UNCHANGED <<work, req, cid, block_found, forgets>> /\ pc[c] = "rpc"
      /\ judged' = [judged EXCEPT ![ThisBlock(c)] = judged[ThisBlock(c)] + 1]
      /\ block_accepted' = block_accepted \/ block_accepted' = block_accepted \union {t}
      /\ pc' = [pc EXCEPT ![c] = "credit"] /\ pc \in [Conns -> Steps]
      /\ judged \in [Blocks -> Nat] /\ block_accepted \in SUBSET Events
  BY DEF block_judged, Go, IInv, Base, TypeOK, Steps
<1>2. ThisBlock(c) \in Blocks
  BY <1>1, UnderWay DEF IInv
<1>3. judged'[ThisBlock(c)] # 0 /\ \A b \in Blocks : judged[b] # 0 => judged'[b] # 0
  BY <1>1, <1>2
<1>4. \A d \in Conns : ThisFind(d)' = ThisFind(d)
  BY <1>1 DEF ThisFind, ThisBlock, BlockOf
<1>5. /\ t[1] = c /\ t[3] = ThisBlock(c)
      /\ WorkerOf[c] \in ValidWorkers => t \in block_found
  BY <1>1 DEF ThisFind, PairInv
<1>6. \A d \in Conns : pc'[d] \in {"submit", "rpc"} => pc[d] \in {"submit", "rpc"}
  BY <1>1
<1>7. (Merged \/ forgets = 0) => judged[ThisBlock(c)] = 0
  BY <1>1 DEF IInv, LaneInv, MarkInv, Owner, ThisBlock, BlockOf
<1> HIDE DEF t
<1>8. ASSUME Merged \/ forgets = 0, NEW f \in block_accepted PROVE f[3] # t[3]
  BY <1>5, <1>7, <1>8 DEF PairInv
<1>9. \A f \in block_accepted' :
         judged'[f[3]] # 0 /\ (WorkerOf[f[1]] \in ValidWorkers => f \in block_found)
  <2>1. \A f \in block_accepted : f[3] \in Blocks
    BY <1>1 DEF Events
  <2> QED BY <1>1, <1>3, <1>5, <2>1 DEF PairInv
<1>a. (Merged \/ forgets = 0) => \A f, g \in block_accepted' : f[3] = g[3] => f = g
  BY <1>1, <1>8 DEF PairInv
<1>b. \A d \in Conns : (pc'[d] \in {"submit", "rpc"} /\ WorkerOf[d] \in ValidWorkers) =>
         ThisFind(d)' \in block_found'
  BY <1>1, <1>4, <1>6 DEF PairInv
<1> QED BY <1>1, <1>9, <1>a, <1>b DEF PairInv

\* Every step keeps the events paired.
LEMMA NextPair == IInv /\ PairInv /\ [Next]_vars => PairInv'
<1> SUFFICES ASSUME IInv, PairInv, [Next]_vars PROVE PairInv'
  OBVIOUS
<1>t. Base /\ pc \in [Conns -> Steps]
  BY DEF IInv, Base, TypeOK, Steps
<1>1. CASE UNCHANGED <<judged, block_found, block_accepted, pc, work, req, cid, forgets>>
  BY <1>1, PairFrame
<1>2. ASSUME NEW c \in Conns,
             \/ \E p \in Parents : new_job(c, p)
             \/ serve_refresh(c) \/ malformed_frame(c) \/ unparsable_frame(c) \/ missing_job(c)
      PROVE  UNCHANGED <<judged, block_found, block_accepted, pc, work, req, cid, forgets>>
  BY <1>2 DEF new_job, serve_refresh, malformed_frame, unparsable_frame, missing_job, local, chain
<1>4. ASSUME NEW c \in Conns, NEW id \in JobIds, NEW n \in Nonces, submit(c, id, n) PROVE PairInv'
  <2>1. /\ UNCHANGED <<judged, block_found, block_accepted, forgets>>
        /\ \A d \in Conns : d # c =>
              pc'[d] = pc[d] /\ work'[d] = work[d] /\ req'[d] = req[d] /\ cid'[d] = cid[d]
        /\ pc'[c] \in {"idle", "check"}
    BY <1>4, <1>t DEF submit, receive, Go, chain, local, Base, TypeOK
  <2> QED BY <2>1, PairFrame
<1>5. ASSUME NEW c \in Conns, handler(c), ~announce_block(c), ~block_judged(c)
      PROVE  PairInv'
  <2>1. UNCHANGED <<judged, block_found, block_accepted, req, cid, forgets>>
    BY <1>5 DEF handler, check_network, check_pool, check_previous, reject_low_diff,
         low_diff_recorded, submit_merged_parent_if_solved, claim_network_solution, submit_block,
         block_rpc_failed, reject_bad, reject_stale, credit_share, chain
  <2>2. CASE check_previous(c)
    <3>1. UNCHANGED pc /\ pc[c] = "check" /\ \A d \in Conns : d # c => work'[d] = work[d]
      BY <2>2, <1>t DEF check_previous, Base, TypeOK
    <3> QED BY <2>1, <3>1, PairFrame
  <2>3. CASE ~check_previous(c)
    <3>1. UNCHANGED work
      BY <1>5, <2>3 DEF handler, check_network, check_pool, reject_low_diff,
         low_diff_recorded, submit_merged_parent_if_solved, claim_network_solution, submit_block,
         block_rpc_failed, reject_bad, reject_stale, credit_share
    <3>2. \A d \in Conns : pc'[d] \in {"submit", "rpc"} => pc[d] \in {"submit", "rpc"}
      BY <1>5, <2>3, <1>t DEF handler, check_network, check_pool, reject_low_diff,
         low_diff_recorded, submit_merged_parent_if_solved, claim_network_solution, submit_block,
         block_rpc_failed, reject_bad, reject_stale, credit_share, Go
    <3> QED BY <2>1, <3>1, <3>2, PairFrame
  <2> QED BY <2>2, <2>3
<1>6. ASSUME \/ \E k \in Keys : expire_submission(k)
             \/ \E b \in Blocks : expire_block(b)
      PROVE  PairInv'
  <2>1. /\ UNCHANGED <<judged, block_found, block_accepted, pc, work, req, cid>>
        /\ forgets' # 0
    BY <1>6, <1>t, JobAssumption DEF expire_submission, expire_block, local, chain, Base, TypeOK
  <2> QED BY <2>1, PairFrame
<1>7. CASE UNCHANGED vars
  BY <1>1, <1>7 DEF vars, local, chain
<1> QED BY <1>1, <1>2, <1>4, <1>5, <1>6, <1>7, <1>t, AnnouncePair, JudgedPair DEF Next

\* Consumers that pair the events of a block find the announcement of every
\* acceptance, and book one reward per block: always in merged mode, whatever the
\* guards forget and the table evicts; otherwise while no guard entry has expired.
THEOREM EventsPair == Spec => []AcceptedPairsWithFound
<1>1. Init => PairInv
  BY InitPair
<1>2. IInv /\ PairInv /\ [Next]_vars => PairInv'
  BY NextPair
<1>3. PairInv => AcceptedPairsWithFound
  BY DEF PairInv, AcceptedPairsWithFound
<1> QED BY Invariance, <1>1, <1>2, <1>3, PTL DEF Spec

-----------------------------------------------------------------------------
(* The lanes, as the rest of the bridge sees them. *)

Ledger == INSTANCE LaneLedger WITH
    offered <- Known(pending), claimed <- pending.solved, pool_paid <- pending.fee_lane

\* A published template is an offer; a refreshed parent changes nothing.
LEMMA PublishOffers ==
  ASSUME Base, NEW c \in Conns, NEW p \in Parents, publish(c, p)
  PROVE  Ledger!Next \/ UNCHANGED Ledger!ledger
<1>1. CASE pending' = pending
  BY <1>1 DEF Ledger!ledger
<1>2. CASE pending' = insert_with_payee(pending, LaneOf[p], FALSE, PendingCap)
  <2>1. WellFormed(Lanes, PendingCap, pending) /\ LaneOf[p] \in Lanes /\ FALSE \in BOOLEAN
    BY ShapeAssumption DEF Base
  <2>2. InsertEffect(Lanes, PendingCap, pending, LaneOf[p], FALSE, pending')
    BY <1>2, <2>1, InsertFacts, JobAssumption
  <2>3. Ledger!Offer(LaneOf[p], FALSE)
    <3>1. OfferEffect(pending, LaneOf[p], FALSE, pending')
      BY <2>1, <2>2, InsertOffers
    <3> QED BY <3>1 DEF OfferEffect, Ledger!Offer
  <2> QED BY <2>1, <2>3 DEF Ledger!Next
<1> QED BY <1>1, <1>2 DEF publish

\* A claim of the ledger, or a submission that finds the lane claimed or gone.
LEMMA SubmissionClaims ==
  ASSUME Base, NEW c \in Conns, claim_network_solution(c)
  PROVE  Ledger!Next \/ UNCHANGED Ledger!ledger
<1>0. pc[c] # "idle"
  BY DEF claim_network_solution
<1>1. LaneOf[work[c]] \in Lanes /\ WellFormed(Lanes, PendingCap, pending)
  BY <1>0, UnderWay DEF Base
<1>2. pending' = pending \/ pending' = claim_solution(pending, LaneOf[work[c]])
  BY DEF claim_network_solution
<1>3. CASE pending' = pending
  BY <1>3 DEF Ledger!ledger
<1>4. CASE pending' = claim_solution(pending, LaneOf[work[c]])
  <2>1. ClaimEffect(Lanes, PendingCap, pending, LaneOf[work[c]], pending')
    BY <1>1, <1>4, ClaimFacts, JobAssumption
  <2>2. CASE can_claim(pending, LaneOf[work[c]])
    BY <1>1, <2>1, <2>2 DEF ClaimEffect, can_claim, Ledger!Claim, Ledger!Next
  <2>3. CASE ~can_claim(pending, LaneOf[work[c]])
    BY <2>1, <2>3 DEF ClaimEffect, Ledger!ledger
  <2> QED BY <2>2, <2>3
<1> QED BY <1>2, <1>3, <1>4

\* However submissions, new jobs and refreshes interleave, the lanes behave as the
\* ledger says: a lane on offer is claimed by one submission.
THEOREM SubmissionsRefineLedger == Spec => Ledger!Spec
<1>1. Init => Ledger!Init
  <2> SUFFICES ASSUME Init PROVE Ledger!Init
    OBVIOUS
  <2>1. pending.solved = {} /\ pending.fee_lane = {}
    BY DEF Init, EmptyTable
  <2>2. Known(pending) = {}
    BY EmptyFacts, JobAssumption DEF Init
  <2> QED BY <2>1, <2>2 DEF Ledger!Init
<1>2. Base /\ [Next]_vars => [Ledger!Next]_(Ledger!ledger)
  <2> SUFFICES ASSUME Base, [Next]_vars PROVE Ledger!Next \/ UNCHANGED Ledger!ledger
    OBVIOUS
  <2>1. CASE pending' = pending
    BY <2>1 DEF Ledger!ledger
  <2>2. ASSUME NEW c \in Conns, NEW p \in Parents, new_job(c, p)
        PROVE  Ledger!Next \/ UNCHANGED Ledger!ledger
    BY <2>2, PublishOffers DEF new_job
  <2>3. ASSUME NEW c \in Conns, serve_refresh(c)
        PROVE  Ledger!Next \/ UNCHANGED Ledger!ledger
    BY <2>1, <2>3, PublishOffers DEF serve_refresh
  <2>4. ASSUME NEW c \in Conns, handler(c), ~claim_network_solution(c) PROVE pending' = pending
    BY <2>4 DEF handler, check_network, check_pool, check_previous, reject_low_diff,
         low_diff_recorded, submit_merged_parent_if_solved, announce_block, submit_block,
         block_judged, block_rpc_failed, reject_bad, reject_stale, credit_share, shared
  <2>5. ASSUME NEW c \in Conns, malformed_frame(c) \/ unparsable_frame(c) \/ missing_job(c)
        PROVE  pending' = pending
    BY <2>5 DEF malformed_frame, unparsable_frame, missing_job, shared
  <2>6. ASSUME NEW c \in Conns, NEW id \in JobIds, NEW n \in Nonces, submit(c, id, n)
        PROVE  pending' = pending
    BY <2>6 DEF submit
  <2>7. ASSUME \/ \E k \in Keys : expire_submission(k)
               \/ \E b \in Blocks : expire_block(b)
               \/ UNCHANGED vars
        PROVE  pending' = pending
    BY <2>7 DEF expire_submission, expire_block, vars, shared
  <2> QED BY <2>1, <2>2, <2>3, <2>4, <2>5, <2>6, <2>7, SubmissionClaims DEF Next
<1>3. Spec => []Base
  BY InitBase, NextBase, PTL DEF Spec
<1> QED BY <1>1, <1>2, <1>3, PTL DEF Spec, Ledger!Spec
=============================================================================
