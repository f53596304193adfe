---------------------------- MODULE ShareSubmit ----------------------------
(***************************************************************************)
(* From a mining.submit frame to its verdict (ShareHandler::handle_submit  *)
(* in share_handler.rs, with KaspaApi::submit_merged_parent_if_solved,     *)
(* claim_network_solution and submit_block in kaspaapi.rs).                *)
(*                                                                         *)
(* The listener awaits the handler of a frame before it reads the next     *)
(* one, so a connection has at most one submission under way; those of     *)
(* different connections interleave at every lock and every await, which   *)
(* are the steps here. The connections share the table of pending ZKas     *)
(* blocks (LaneTable), the duplicate-submission guard and the block-       *)
(* submission guard. The job store of a connection appears through what    *)
(* MiningStateProofs shows of it: the last MaxJobs ids answer exactly.     *)
(***************************************************************************)
EXTENDS Naturals, Sequences, FiniteSets, LaneTable

CONSTANTS
    Conns,          \* Stratum connections
    Workers,        \* effective worker names
    WorkerOf,       \* connection -> worker name; several rigs may share one
    ValidWorkers,   \* names the event types accept (WorkerName::new)
    Parents,        \* the block contents handed out as jobs, each used once
    Lanes,          \* H_fc hashes
    LaneOf,         \* parent -> the lane its coinbase commits to
    Nonces,
    Clears,         \* parent -> nonce -> which of Targets the hash clears
    Merged,         \* BOOLEAN: merged mining is on
    KaspaClient,    \* BOOLEAN: a Kaspa node is configured for the parent leg
    MaxJobs,        \* MAX_JOBS
    MaxCompat,      \* MAX_COMPAT_JOB_ATTEMPTS
    PendingCap,     \* capacity of the table of pending ZKas blocks
    MaxTemplates,   \* bound: jobs published to one connection
    MaxSubmits,     \* bound: frames received
    MaxForgets,     \* bound: guard entries that expire
    None            \* no value yet

Targets == {"pool", "zkas", "kaspa"}

ASSUME JobAssumption ==
    /\ MaxJobs \in Nat \ {0} /\ MaxCompat \in Nat \ {0} /\ PendingCap \in Nat \ {0}
    /\ MaxTemplates \in Nat /\ MaxSubmits \in Nat /\ MaxForgets \in Nat
ASSUME ShapeAssumption ==
    /\ WorkerOf \in [Conns -> Workers] /\ ValidWorkers \in SUBSET Workers
    /\ LaneOf \in [Parents -> Lanes]
    /\ Clears \in [Parents -> [Nonces -> SUBSET Targets]]
    /\ Merged \in BOOLEAN /\ KaspaClient \in BOOLEAN
JobIds == 1 .. MaxTemplates
\* submit_key: worker name, job id and nonce.
Keys == Workers \X JobIds \X Nonces
JobIdIn(k) == k[2]
NonceIn(k) == k[3]
\* What the ZKas node knows a block by: H_fc in merged mode, else the solved header.
Blocks == Lanes \union (Parents \X Nonces)
BlockOf(p, n) == IF Merged THEN LaneOf[p] ELSE <<p, n>>

ASSUME DistinctAssumption == Lanes \intersect (Parents \X Nonces) = {} /\ None \notin Parents \union Keys

Outcomes == {"InFlight", "Accepted", "Stale", "LowDiff", "Bad"}
Refusals == {"Stale", "LowDiff", "Bad"}
\* BlockFound and BlockAccepted: a submission has one correlation id for all its
\* events, here its connection and its number there. With it, the block.
Events == Conns \X Nat \X Blocks

VARIABLES
    jobs,       \* connection -> sequence of the parents published to it
    pending,    \* MergedPending
    dup,        \* DuplicateSubmitGuard: key -> outcome, "None" without an entry
    marked,     \* BlockSubmitGuard: blocks with an entry
    connected,  \* connection -> not disconnecting
    refresh,    \* connections with a job-refresh broadcast not yet served
    pc,         \* connection -> where its submission is
    req,        \* connection -> its submit_key
    cur,        \* connection -> current_job_id of the validation loop
    work,       \* connection -> current_job
    meets,      \* connection -> meets_network_target
    cid,        \* connection -> correlation_id, a number not used there before
    kas_sent,   \* solved parents sent to the Kaspa node
    submits,    \* block -> calls of the ZKas node's submit_block
    judged,     \* block -> those the node answered with a verdict
    failed,     \* blocks with a call that ended in an RPC error
    block_found, block_accepted,  \* the events sent
    credits,    \* key -> shares_found; each has a ShareCredited event if the name is valid
    credited,   \* the <<parent, nonce>> behind them
    rejects,    \* key -> shares rejected as stale, weak or bad; a ShareRejected event likewise
    refused,    \* frames rejected without a key (malformed, missing job)
    answers,    \* key -> the outcomes its frames were answered by, in order
    frames, forgets  \* counters of the bounds

shared == <<jobs, pending, dup, marked, connected, refresh>>
local  == <<pc, req, cur, work, meets, cid>>
chain  == <<kas_sent, submits, judged, failed, block_found, block_accepted>>
books  == <<credits, credited, rejects, refused, answers>>
vars   == <<shared, local, chain, books, frames, forgets>>

Init ==
    /\ jobs = [c \in Conns |-> <<>>]
    /\ pending = EmptyTable
    /\ dup = [k \in Keys |-> "None"]
    /\ marked = {} /\ refresh = {}
    /\ connected = [c \in Conns |-> TRUE]
    /\ pc = [c \in Conns |-> "idle"]
    /\ req = [c \in Conns |-> None]
    /\ cur = [c \in Conns |-> 0]
    /\ work = [c \in Conns |-> None]
    /\ meets = [c \in Conns |-> FALSE]
    /\ cid = [c \in Conns |-> 0]
    /\ kas_sent = {}
    /\ submits = [b \in Blocks |-> 0] /\ judged = [b \in Blocks |-> 0] /\ failed = {}
    /\ block_found = {} /\ block_accepted = {}
    /\ credits = [k \in Keys |-> 0] /\ credited = {}
    /\ rejects = [k \in Keys |-> 0] /\ refused = 0
    /\ answers = [k \in Keys |-> <<>>]
    /\ frames = 0 /\ forgets = 0

-----------------------------------------------------------------------------
(* Jobs reach a connection while submissions are under way. *)

Used == UNION {{jobs[c][i] : i \in 1 .. Len(jobs[c])} : c \in Conns}

\* A new template: its ZKas block has a hash of its own and enters the table
\* before the job is published. A refreshed parent: another Kaspa parent for the
\* lane of the connection's newest job; whether that lane is still unsolved was
\* tested before the Kaspa node was asked, and may have changed since. So was
\* whether the connection is still up.
publish(c, p) ==
    /\ Len(jobs[c]) < MaxTemplates
    /\ p \notin Used
    /\ jobs' = [jobs EXCEPT ![c] = Append(@, p)]
    /\ \/ /\ Merged => LaneOf[p] \notin {LaneOf[q] : q \in Used}
          /\ pending' = IF Merged THEN insert_with_payee(pending, LaneOf[p], FALSE, PendingCap)
                        ELSE pending
       \/ /\ Merged /\ jobs[c] # <<>>
          /\ LaneOf[p] = LaneOf[jobs[c][Len(jobs[c])]]
          /\ pending' = pending

new_job(c, p) ==
    /\ publish(c, p)
    /\ UNCHANGED <<dup, marked, connected, refresh, local, chain, books, frames, forgets>>

\* The refresh coordinator takes a broadcast and sends replacement work; it does
\* nothing for a connection that is gone or whose template request fails.
serve_refresh(c) ==
    /\ c \in refresh
    /\ refresh' = refresh \ {c}
    /\ \/ connected[c] /\ \E p \in Parents : publish(c, p)
       \/ UNCHANGED <<jobs, pending>>
    /\ UNCHANGED <<dup, marked, connected, local, chain, books, frames, forgets>>

-----------------------------------------------------------------------------
(* A frame arrives. *)

Go(c, step) == pc' = [pc EXCEPT ![c] = step]
\* Accepted and InFlight are answered true, each other outcome by its error.
Answered(k, outcome) == answers' = [answers EXCEPT ![k] = Append(@, outcome)]
Rejected(k) == rejects' = [rejects EXCEPT ![k] = @ + 1]

\* Lines of a chunk that has been read are handled even if the connection has
\* been marked as disconnecting meanwhile.
receive(c) ==
    /\ pc[c] = "idle"
    /\ frames < MaxSubmits
    /\ frames' = frames + 1

\* Fewer than three parameters.
malformed_frame(c) ==
    /\ receive(c)
    /\ refused' = refused + 1
    /\ UNCHANGED <<shared, local, chain, credits, credited, rejects, answers, forgets>>

\* A job id or nonce that is not a number ends the handler with no event.
unparsable_frame(c) ==
    /\ receive(c)
    /\ UNCHANGED <<shared, local, chain, books, forgets>>

\* MiningState::get_job.
stored(c, id) == id \in 1 .. Len(jobs[c]) /\ id + MaxJobs > Len(jobs[c])

missing_job(c) ==
    /\ receive(c)
    /\ jobs[c] = <<>>
    /\ refused' = refused + 1
    /\ UNCHANGED <<shared, local, chain, credits, credited, rejects, answers, forgets>>

\* An id that is not stored falls back to the newest stored job, under whose id
\* the submission then counts.
effective_job_id(c, id) == IF stored(c, id) THEN id ELSE Len(jobs[c])

\* Fault: only finished submissions count as duplicates.
is_duplicate_finished(k) == dup[k] \notin {"None", "InFlight"}

is_duplicate(k) == dup[k] # "None"

\* A duplicate is answered from the recorded outcome, with no event; anything
\* else is registered as in flight, under the same lock.
submit(c, id, n) ==
    LET jid == effective_job_id(c, id)
        k == <<WorkerOf[c], jid, n>>
    IN  /\ receive(c)
        /\ jobs[c] # <<>>
        /\ IF is_duplicate(k)
           THEN /\ Answered(k, dup[k])
                /\ UNCHANGED <<dup, local>>
           ELSE /\ dup' = [dup EXCEPT ![k] = "InFlight"]
                /\ Go(c, "check")
                /\ req' = [req EXCEPT ![c] = k]
                /\ cur' = [cur EXCEPT ![c] = jid]
                /\ work' = [work EXCEPT ![c] = jobs[c][jid]]
                /\ cid' = [cid EXCEPT ![c] = @ + 1]
                /\ UNCHANGED <<meets, answers>>
        /\ UNCHANGED <<jobs, pending, marked, connected, refresh, chain,
                       credits, credited, rejects, refused, forgets>>

-----------------------------------------------------------------------------
(* The validation loop. *)

hit(c) == Clears[work[c]][NonceIn(req[c])]

\* merged_fc_target knows the lane only while it is in the table.
merged_mode(c) == Merged /\ LaneOf[work[c]] \in Known(pending)

meets_network_target(c) == (IF merged_mode(c) THEN "zkas" ELSE "kaspa") \in hit(c)

\* Fault: a nonce that clears the Kaspa target alone is an ordinary share.
takes_network_branch_zkas_only(c) == meets_network_target(c)

takes_network_branch(c) == meets_network_target(c) \/ (merged_mode(c) /\ "kaspa" \in hit(c))

check_network(c) ==
    /\ pc[c] = "check"
    /\ takes_network_branch(c)
    /\ meets' = [meets EXCEPT ![c] = meets_network_target(c)]
    /\ Go(c, "parent")
    /\ UNCHANGED <<shared, req, cur, work, cid, chain, books, frames, forgets>>

\* The share meets the pool difficulty of the job under consideration.
check_pool(c) ==
    /\ pc[c] = "check"
    /\ ~takes_network_branch(c)
    /\ "pool" \in hit(c)
    /\ Go(c, "credit")
    /\ UNCHANGED <<shared, req, cur, work, meets, cid, chain, books, frames, forgets>>

\* Fault: the attempts are not counted.
walk_ends_at_ring(c) ==
    \/ cur[c] = 1
    \/ cur[c] % MaxJobs = ((JobIdIn(req[c]) % MaxJobs) + 1) % MaxJobs
    \/ ~stored(c, cur[c] - 1)

\* The loop stops at the first job, when it has been round the ring, or after
\* MaxCompat attempts; it has made one attempt for each id it went back.
walk_ends(c) ==
    \/ cur[c] = 1
    \/ cur[c] % MaxJobs = ((JobIdIn(req[c]) % MaxJobs) + 1) % MaxJobs
    \/ (JobIdIn(req[c]) - cur[c]) + 1 >= MaxCompat
    \/ ~stored(c, cur[c] - 1)

\* Fault: the loop goes round on the job it has just tried.
check_previous_stuck(c) ==
    /\ pc[c] = "check"
    /\ ~takes_network_branch(c)
    /\ "pool" \notin hit(c)
    /\ ~walk_ends(c)
    /\ UNCHANGED vars

\* The job before is tried: firmware is known to submit under the wrong id.
check_previous(c) ==
    /\ pc[c] = "check"
    /\ ~takes_network_branch(c)
    /\ "pool" \notin hit(c)
    /\ ~walk_ends(c)
    /\ cur' = [cur EXCEPT ![c] = @ - 1]
    /\ work' = [work EXCEPT ![c] = jobs[c][cur[c] - 1]]
    /\ UNCHANGED <<shared, pc, req, meets, cid, chain, books, frames, forgets>>

\* No job fits: the event and the reply go out first, the outcome is recorded
\* after the reply has been awaited.
reject_low_diff(c) ==
    /\ pc[c] = "check"
    /\ ~takes_network_branch(c)
    /\ "pool" \notin hit(c)
    /\ walk_ends(c)
    /\ Rejected(req[c])
    /\ Answered(req[c], "LowDiff")
    /\ Go(c, "low")
    /\ UNCHANGED <<shared, req, cur, work, meets, cid, chain, credits, credited, refused, frames, forgets>>

\* An entry that has expired meanwhile is not brought back.
set_outcome(k, outcome) == dup' = [dup EXCEPT ![k] = IF @ = "None" THEN @ ELSE outcome]

low_diff_recorded(c) ==
    /\ pc[c] = "low"
    /\ set_outcome(req[c], "LowDiff")
    /\ Go(c, "idle")
    /\ UNCHANGED <<jobs, pending, marked, connected, refresh, req, cur, work, meets, cid,
                   chain, books, frames, forgets>>

-----------------------------------------------------------------------------
(* The network branch: Kaspa parent first, then the ZKas block. *)

\* submit_merged_parent_if_solved: what the Kaspa node answers is only reported.
submit_merged_parent_if_solved(c) ==
    /\ pc[c] = "parent"
    /\ kas_sent' = IF Merged /\ KaspaClient /\ "kaspa" \in hit(c)
                   THEN kas_sent \union {<<work[c], NonceIn(req[c])>>} ELSE kas_sent
    /\ Go(c, "claim")
    /\ UNCHANGED <<shared, req, cur, work, meets, cid, submits, judged, failed,
                   block_found, block_accepted, books, frames, forgets>>

\* claim_network_solution answers true for every caller when mining is not merged.
claims_network_solution(c) ==
    meets[c] /\ (Merged => can_claim(pending, LaneOf[work[c]]))

\* Only the caller that claims the ZKas block goes on to submit it; every other
\* submission in this branch is a credited share.
claim_network_solution(c) ==
    /\ pc[c] = "claim"
    /\ IF claims_network_solution(c)
       THEN /\ pending' = IF Merged THEN claim_solution(pending, LaneOf[work[c]]) ELSE pending
            /\ Go(c, "found")
       ELSE /\ pending' = pending
            /\ Go(c, "credit")
    /\ UNCHANGED <<jobs, dup, marked, connected, refresh, req, cur, work, meets, cid,
                   chain, books, frames, forgets>>

ThisBlock(c) == BlockOf(work[c], NonceIn(req[c]))
ThisFind(c) == <<c, cid[c], ThisBlock(c)>>

\* The connection's work is to be replaced, a rig on a template more than ten
\* seconds old is disconnected, and BlockFound goes out before the node is asked,
\* unless the worker's name is one the event cannot carry.
announce_block(c) ==
    /\ pc[c] = "found"
    /\ refresh' = refresh \union {c}
    /\ \E stale \in BOOLEAN : connected' = [connected EXCEPT ![c] = @ /\ ~stale]
    /\ block_found' = IF WorkerOf[c] \in ValidWorkers
                      THEN block_found \union {ThisFind(c)} ELSE block_found
    /\ Go(c, "submit")
    /\ UNCHANGED <<jobs, pending, dup, marked, req, cur, work, meets, cid,
                   kas_sent, submits, judged, failed, block_accepted, books, frames, forgets>>

\* submit_block, up to the call. The ZKas block must still be in the table, and
\* the guard must not have seen its hash.
block_gone(c) == Merged /\ LaneOf[work[c]] \notin Known(pending)

try_mark(b) == b \notin marked

submit_block(c) ==
    /\ pc[c] = "submit"
    /\ ~block_gone(c) /\ try_mark(ThisBlock(c))
    /\ marked' = marked \union {ThisBlock(c)}
    /\ submits' = [submits EXCEPT ![ThisBlock(c)] = @ + 1]
    /\ Go(c, "rpc")
    /\ UNCHANGED <<jobs, pending, dup, connected, refresh, req, cur, work, meets, cid,
                   kas_sent, judged, failed, block_found, block_accepted, books, frames, forgets>>

\* The node accepts the block, or gives a verdict against it: a share either way.
\* What it says of a block it has judged before is open.
block_judged(c) ==
    /\ pc[c] = "rpc"
    /\ judged' = [judged EXCEPT ![ThisBlock(c)] = @ + 1]
    /\ \E accepted \in BOOLEAN :
          block_accepted' = IF accepted THEN block_accepted \union {ThisFind(c)} ELSE block_accepted
    /\ Go(c, "credit")
    /\ UNCHANGED <<shared, req, cur, work, meets, cid, kas_sent, submits, failed, block_found,
                   books, frames, forgets>>

\* The call fails: the guard forgets the block. The error text the code searches
\* for "duplicate" is that of the context it adds, so no node error is exempt.
block_rpc_failed(c) ==
    /\ pc[c] = "rpc"
    /\ marked' = marked \ {ThisBlock(c)}
    /\ failed' = failed \union {ThisBlock(c)}
    /\ Go(c, "bad")
    /\ UNCHANGED <<jobs, pending, dup, connected, refresh, req, cur, work, meets, cid,
                   kas_sent, submits, judged, block_found, block_accepted, books, frames, forgets>>

\* An RPC error, or a lane that left the table after it was claimed.
reject_bad(c) ==
    /\ \/ pc[c] = "bad"
       \/ pc[c] = "submit" /\ block_gone(c)
    /\ Rejected(req[c])
    /\ set_outcome(req[c], "Bad")
    /\ Answered(req[c], "Bad")
    /\ Go(c, "idle")
    /\ UNCHANGED <<jobs, pending, marked, connected, refresh, req, cur, work, meets, cid,
                   chain, credits, credited, refused, frames, forgets>>

\* ErrDuplicateBlock.
reject_stale(c) ==
    /\ pc[c] = "submit"
    /\ ~block_gone(c) /\ ~try_mark(ThisBlock(c))
    /\ Rejected(req[c])
    /\ set_outcome(req[c], "Stale")
    /\ Answered(req[c], "Stale")
    /\ Go(c, "idle")
    /\ UNCHANGED <<jobs, pending, marked, connected, refresh, req, cur, work, meets, cid,
                   chain, credits, credited, refused, frames, forgets>>

credit_share(c) ==
    /\ pc[c] = "credit"
    /\ credits' = [credits EXCEPT ![req[c]] = @ + 1]
    /\ credited' = credited \union {<<work[c], NonceIn(req[c])>>}
    /\ set_outcome(req[c], "Accepted")
    /\ Answered(req[c], "Accepted")
    /\ Go(c, "idle")
    /\ UNCHANGED <<jobs, pending, marked, connected, refresh, req, cur, work, meets, cid,
                   chain, rejects, refused, frames, forgets>>

-----------------------------------------------------------------------------
(* Guard entries expire: after 180 seconds for submissions, 600 for blocks. *)

expire_submission(k) ==
    /\ forgets < MaxForgets
    /\ forgets' = forgets + 1
    /\ dup[k] # "None"
    /\ dup' = [dup EXCEPT ![k] = "None"]
    /\ UNCHANGED <<jobs, pending, marked, connected, refresh, local, chain, books, frames>>

expire_block(b) ==
    /\ forgets < MaxForgets
    /\ forgets' = forgets + 1
    /\ b \in marked
    /\ marked' = marked \ {b}
    /\ UNCHANGED <<jobs, pending, dup, connected, refresh, local, chain, books, frames>>

-----------------------------------------------------------------------------

\* The steps of the handler of one connection.
handler(c) ==
    \/ check_network(c) \/ check_pool(c) \/ check_previous(c)
    \/ reject_low_diff(c) \/ low_diff_recorded(c)
    \/ submit_merged_parent_if_solved(c) \/ claim_network_solution(c)
    \/ announce_block(c) \/ submit_block(c) \/ block_judged(c) \/ block_rpc_failed(c)
    \/ reject_bad(c) \/ reject_stale(c) \/ credit_share(c)

Next ==
    \/ \E c \in Conns :
          \/ \E p \in Parents : new_job(c, p)
          \/ serve_refresh(c)
          \/ malformed_frame(c) \/ unparsable_frame(c) \/ missing_job(c)
          \/ \E id \in JobIds, n \in Nonces : submit(c, id, n)
          \/ handler(c)
    \/ \E k \in Keys : expire_submission(k)
    \/ \E b \in Blocks : expire_block(b)

Spec == Init /\ [][Next]_vars

\* The runtime polls every task that can make progress, and each RPC ends with an
\* answer or an error.
FairSpec == Spec /\ \A c \in Conns : WF_vars(handler(c))

-----------------------------------------------------------------------------
(* Properties. *)

\* Every variable has its type.
TypeOK ==
    /\ jobs \in [Conns -> Seq(Parents)]
    /\ pending \in [order : Seq(Lanes), solved : SUBSET Lanes, fee_lane : SUBSET Lanes]
    /\ dup \in [Keys -> Outcomes \union {"None"}]
    /\ marked \in SUBSET Blocks
    /\ connected \in [Conns -> BOOLEAN]
    /\ refresh \in SUBSET Conns
    /\ pc \in [Conns -> {"idle", "check", "parent", "claim", "found", "submit", "rpc",
                         "bad", "low", "credit"}]
    /\ req \in [Conns -> Keys \union {None}]
    /\ cur \in [Conns -> 0 .. MaxTemplates]
    /\ work \in [Conns -> Parents \union {None}]
    /\ meets \in [Conns -> BOOLEAN]
    /\ cid \in [Conns -> Nat]
    /\ kas_sent \in SUBSET (Parents \X Nonces)
    /\ submits \in [Blocks -> Nat] /\ judged \in [Blocks -> Nat]
    /\ failed \in SUBSET Blocks
    /\ block_found \in SUBSET Events /\ block_accepted \in SUBSET Events
    /\ credits \in [Keys -> Nat]
    /\ credited \in SUBSET (Parents \X Nonces)
    /\ rejects \in [Keys -> Nat] /\ refused \in Nat
    /\ answers \in [Keys -> Seq(Outcomes)]
    /\ frames \in 0 .. MaxSubmits /\ forgets \in 0 .. MaxForgets

\* A submission under way is about a job that was published to its own
\* connection, and the loop has gone back fewer than MaxCompat jobs from the one
\* submitted ("eight-job compatibility bound").
ChecksOwnRecentJobs ==
    \A c \in Conns : pc[c] # "idle" =>
        /\ req[c] \in Keys
        /\ cur[c] \in 1 .. JobIdIn(req[c])
        /\ JobIdIn(req[c]) <= Len(jobs[c])
        /\ work[c] = jobs[c][cur[c]]
        /\ JobIdIn(req[c]) - cur[c] < MaxCompat

\* No ZKas block is put to the node again once the node has judged it: in merged
\* mode because its lane is claimed once, whatever the guards forget; otherwise
\* because the block guard keeps the hashes the node has given a verdict on.
NodeJudgesOnce ==
    \A b \in Blocks :
        /\ judged[b] <= 1
        /\ judged[b] = 1 => \A c \in Conns : ~(pc[c] = "rpc" /\ ThisBlock(c) = b)

\* "submit_parent_then_claim_zkas ... preserve the independent Kaspa reward": a
\* nonce that clears the Kaspa target has been sent to the Kaspa node before its
\* share is credited and before its ZKas block is claimed, also when the lane is
\* solved already or has left the table.
KasRewardPreserved ==
    (Merged /\ KaspaClient) =>
        /\ \A w \in credited : "kaspa" \in Clears[w[1]][w[2]] => w \in kas_sent
        /\ \A c \in Conns :
              (pc[c] \in {"found", "submit", "rpc", "bad"} /\ "kaspa" \in hit(c)) =>
                  <<work[c], NonceIn(req[c])>> \in kas_sent

\* Every BlockAccepted of a validly named worker pairs with an earlier BlockFound
\* of the same submission, and a ZKas block has one BlockAccepted at most, so that
\* consumers book one reward per block: in merged mode whatever the guards forget,
\* otherwise while no entry has expired, since the same nonce sent again is then a
\* new submission and the node may accept its block again.
AcceptedPairsWithFound ==
    /\ \A e \in block_accepted : WorkerOf[e[1]] \in ValidWorkers => e \in block_found
    /\ (Merged \/ forgets = 0) => \A e, f \in block_accepted : e[3] = f[3] => e = f

\* "matches the corresponding `BlockFound` event so consumers can pair them":
\* every BlockAccepted has its BlockFound, whatever the worker is called.
BlockEventsPair == block_accepted \subseteq block_found

\* How the submission of a key fared, by the books.
Fared(k, outcome) ==
    CASE outcome = "Accepted" -> credits[k] = 1 /\ rejects[k] = 0
      [] outcome \in Refusals -> credits[k] = 0 /\ rejects[k] = 1
      [] OTHER -> credits[k] = 0

\* While no entry expires, a key is booked once, whoever submits it and however
\* often, and what the frames are told is what is booked. The exception is the
\* code's: a repeat of a submission under way is told true before its fate is known,
\* and may be told better than it fares. No answer is worse than that, and once one
\* frame has been told the outcome all later ones are told the same; only a weak
\* share, whose outcome is recorded after the reply, can still be told true.
AnswersAreTrue ==
    forgets = 0 =>
        \A k \in Keys :
            /\ dup[k] = "None" => credits[k] + rejects[k] = 0 /\ answers[k] = <<>>
            /\ dup[k] # "None" => Fared(k, dup[k])
            /\ \A i \in 1 .. Len(answers[k]) :
                  /\ answers[k][i] # "InFlight" => Fared(k, answers[k][i])
                  /\ answers[k][i] \notin {"InFlight", "LowDiff"} =>
                        \A j \in i .. Len(answers[k]) : answers[k][j] = answers[k][i]

\* A verdict is final: while no entry expires, a recorded outcome other than
\* InFlight never changes, so a miner that repeats a submission is told the same.
OutcomesAreFinal ==
    [][forgets' = 0 => \A k \in Keys : dup[k] \notin {"None", "InFlight"} => dup'[k] = dup[k]]_vars

\* "(so the submit can be retried)": a ZKas block whose submission failed at the
\* RPC layer, and that the node has not judged, can be claimed and submitted
\* again as long as it is in the table.
FailedSubmitIsRetryable ==
    \A b \in failed :
        (Merged /\ judged[b] = 0 /\ b \in Known(pending)
            /\ \A c \in Conns : pc[c] = "idle" \/ ThisBlock(c) # b) => can_claim(pending, b)

\* "every accepted share, every rejected share ... produces one event": once no
\* submission is under way, each frame that was answered has its event.
AnsweredFramesHaveEvents ==
    (\A c \in Conns : pc[c] = "idle") =>
        \A k \in Keys : Len(answers[k]) <= IF k[1] \in ValidWorkers THEN credits[k] + rejects[k] ELSE 0

\* Every submission ends: the walk through earlier jobs is finite, and no
\* interleaving of the guards and the lane table leaves a handler without a step.
SubmissionsEnd == \A c \in Conns : pc[c] # "idle" ~> pc[c] = "idle"
=============================================================================
