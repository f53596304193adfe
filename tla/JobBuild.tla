----------------------------- MODULE JobBuild -----------------------------
(***************************************************************************)
(* How one connection gets its work: mining.authorize (default_client.rs), *)
(* the three tasks that build and send jobs (client_handler.rs), and the   *)
(* template and parent requests behind them (kaspaapi.rs).                 *)
(*                                                                         *)
(* send_immediate_job_to_client waits for the connection's build lock,     *)
(* new_block_available gives up if it is taken, and new_parent_available   *)
(* asks for its parent without the lock and takes it only to publish. Each *)
(* await is a boundary between steps; between them run the authorize       *)
(* handler, the first-job watchdog, vardiff, and the submissions that      *)
(* claim lanes. A lane is named by its template generation, which its      *)
(* coinbase tag carries.                                                   *)
(***************************************************************************)
EXTENDS Naturals, Sequences, FiniteSets, LaneTable

CONSTANTS
    Immediates,     \* tasks of send_immediate_job_to_client that may be alive at once
    Block, Parent,  \* the task of new_block_available; that of new_parent_available
    Addresses,      \* Kaspa addresses a miner may give as its password
    Pool,           \* the pool's Kaspa address
    Diffs,          \* difficulties
    Merged,         \* BOOLEAN: merged mining with a Kaspa node
    PendingCap,     \* capacity of the table of pending ZKas blocks
    MaxAuths,       \* bound: authorizations
    MaxGenerations, \* bound: templates requested
    MaxJobs,        \* bound: jobs published
    MaxTurns,       \* bound: changes of the fee minute and of the vardiff
    None

Tasks == Immediates \union {Block, Parent}
Lanes == 1 .. MaxGenerations
Payees == Addresses \union {Pool}
Identities == 0 .. MaxAuths
JobIds == 1 .. MaxJobs

ASSUME BuildAssumption ==
    /\ Block \notin Immediates /\ Parent \notin Immediates /\ Block # Parent
    /\ None \notin Tasks /\ Pool \notin Addresses
    /\ Merged \in BOOLEAN /\ PendingCap \in Nat \ {0}
    /\ MaxAuths \in Nat /\ MaxGenerations \in Nat /\ MaxJobs \in Nat /\ MaxTurns \in Nat

VARIABLES
    connected,
    auth,         \* where the authorize handler is
    identity,     \* the wallet: number of the authorize that set it, 0 for none
    payout,       \* kas_payout, Pool when there is none
    authorized,   \* authorized_at: number of the authorize, 0 for none
    delivered,    \* last_job_sent_at: owner of the job sent since then, or None
    watchdogs,    \* first-job watchdogs still asleep, by authorize
    cut_short,    \* history: the last authorize ended between its epoch and its watchdog
    hasty,        \* history: a watchdog cut off an authorize later than its own
    generation,   \* template_generation
    pending,      \* MergedPending
    jobs,         \* the job store, newest last
    lock,         \* holder of job_build_lock
    pc,           \* task -> where it is
    gen,          \* task -> generation; for Parent the lane it refreshes
    owner,        \* task -> identity its wallet was read from
    payee,        \* task -> who the Kaspa parent will pay
    job,          \* task -> id of the job it has added
    fee_minute,   \* the lane's minute of the hour is now
    stratum_diff, initialized, var_diff,
    initial,      \* task -> initial_diff
    told,         \* the difficulty last sent to the miner
    working,      \* the job last sent to the miner
    turns         \* counter of the bound

session == <<connected, auth, identity, payout, authorized, delivered, watchdogs, cut_short, hasty>>
local == <<pc, gen, owner, payee, job, initial>>
store == <<generation, pending, jobs, lock>>
diffs == <<stratum_diff, initialized, var_diff, told, working>>
vars == <<session, local, store, diffs, fee_minute, turns>>

Init ==
    /\ connected = TRUE /\ auth = "idle"
    /\ identity = 0 /\ payout = Pool /\ authorized = 0
    /\ delivered = None /\ watchdogs = {} /\ cut_short = FALSE /\ hasty = FALSE
    /\ generation = 0 /\ pending = EmptyTable /\ jobs = <<>> /\ lock = None
    /\ pc = [t \in Tasks |-> "idle"]
    /\ gen = [t \in Tasks |-> 0] /\ owner = [t \in Tasks |-> 0]
    /\ payee = [t \in Tasks |-> Pool] /\ job = [t \in Tasks |-> 0]
    /\ fee_minute \in BOOLEAN
    /\ var_diff \in Diffs /\ stratum_diff = var_diff /\ initialized = FALSE
    /\ initial = [t \in Tasks |-> None]
    /\ told = None /\ working = 0
    /\ turns = 0

Go(t, step) == pc' = [pc EXCEPT ![t] = step]
Newest == jobs[Len(jobs)]

-----------------------------------------------------------------------------
(* mining.authorize: the wallet, then the payout, then the reply; then a new  *)
(* epoch for the watchdog and an immediate job.                               *)

authorize(a) ==
    /\ auth = "idle"
    /\ a <= MaxAuths /\ a = identity + 1
    /\ identity' = a
    /\ auth' = "wallet"
    /\ UNCHANGED <<connected, payout, authorized, delivered, watchdogs, cut_short, hasty,
                   local, store, diffs, fee_minute, turns>>

\* A password that is no Kaspa address pays the pool.
authorize_payout ==
    /\ auth = "wallet"
    /\ payout' \in Payees
    /\ auth' = "reply"
    /\ UNCHANGED <<connected, identity, authorized, delivered, watchdogs, cut_short, hasty,
                   local, store, diffs, fee_minute, turns>>

\* The reply fails: the handler returns, the new wallet and payout stay.
authorize_reply_failed ==
    /\ auth = "reply"
    /\ auth' = "idle"
    /\ UNCHANGED <<connected, identity, payout, authorized, delivered, watchdogs, cut_short, hasty,
                   local, store, diffs, fee_minute, turns>>

mark_authorized ==
    /\ auth = "reply"
    /\ authorized' = identity
    /\ delivered' = None
    /\ auth' = "marked"
    /\ UNCHANGED <<connected, identity, payout, watchdogs, cut_short, hasty,
                   local, store, diffs, fee_minute, turns>>

\* The extranonce does not reach the miner: the handler returns with neither
\* watchdog nor job. A write that finds the socket busy leaves the connection up.
authorize_extranonce_failed ==
    /\ auth = "marked"
    /\ connected' \in {connected, FALSE}
    /\ auth' = "idle" /\ cut_short' = TRUE
    /\ UNCHANGED <<identity, payout, authorized, delivered, watchdogs, hasty,
                   local, store, diffs, fee_minute, turns>>

\* register_client_vardiff gives the worker's difficulty, and the connection gets
\* it at once, before the task exists.
start_immediate(t) ==
    /\ pc[t] = "idle"
    /\ identity # 0 /\ connected
    /\ initial' = [initial EXCEPT ![t] = var_diff]
    /\ stratum_diff' = var_diff
    /\ Go(t, "waiting")

\* Fault: the handler starts the job and no watchdog.
authorize_job_unwatched(t) ==
    /\ auth = "marked"
    /\ start_immediate(t)
    /\ auth' = "idle" /\ cut_short' = FALSE
    /\ UNCHANGED <<connected, identity, payout, authorized, delivered, watchdogs, hasty, gen, owner,
                   payee, job, store, initialized, var_diff, told, working, fee_minute, turns>>

authorize_job(t) ==
    /\ auth = "marked"
    /\ watchdogs' = watchdogs \union {identity}
    /\ start_immediate(t)
    /\ auth' = "idle" /\ cut_short' = FALSE
    /\ UNCHANGED <<connected, identity, payout, authorized, delivered, hasty, gen, owner, payee, job,
                   store, initialized, var_diff, told, working, fee_minute, turns>>

\* A client that is gone gets a watchdog and no job.
authorize_gone ==
    /\ auth = "marked"
    /\ ~connected
    /\ watchdogs' = watchdogs \union {identity}
    /\ auth' = "idle" /\ cut_short' = FALSE
    /\ UNCHANGED <<connected, identity, payout, authorized, delivered, hasty,
                   local, store, diffs, fee_minute, turns>>

\* The refresh coordinator: a claimed lane's work is replaced.
serve_refresh(t) ==
    /\ start_immediate(t)
    /\ jobs # <<>> /\ Newest.lane \in pending.solved
    /\ UNCHANGED <<session, gen, owner, payee, job, store,
                   initialized, var_diff, told, working, fee_minute, turns>>

\* received_job_since_authorization.
received_job == authorized # 0 /\ delivered # None

\* Thirty seconds after the authorize that started it.
watchdog(a) ==
    /\ a \in watchdogs
    /\ watchdogs' = watchdogs \ {a}
    /\ connected' = (connected /\ received_job)
    /\ hasty' = (hasty \/ (connected /\ ~received_job /\ a # authorized))
    /\ UNCHANGED <<auth, identity, payout, authorized, delivered, cut_short,
                   local, store, diffs, fee_minute, turns>>

-----------------------------------------------------------------------------
(* A full template, for send_immediate_job_to_client and new_block_available. *)

\* Fault: builders do not exclude each other.
can_lock_always == TRUE

\* job_build_lock is free: lock_job_build returns, try_lock_job_build succeeds.
can_lock == lock = None

\* Under the lock: identity, generation and payout are read, then the ZKas node
\* is asked.
request_template(t) ==
    /\ can_lock
    /\ generation < MaxGenerations
    /\ lock' = t
    /\ generation' = generation + 1
    /\ gen' = [gen EXCEPT ![t] = generation + 1]
    /\ owner' = [owner EXCEPT ![t] = identity]
    /\ payee' = [payee EXCEPT ![t] = payout]
    /\ Go(t, "template")
    /\ UNCHANGED <<session, pending, jobs, job, initial, diffs, fee_minute, turns>>

immediate_locks(t) ==
    /\ t \in Immediates /\ pc[t] = "waiting"
    /\ request_template(t)

\* new_block_available: a lock that is taken means the notification is dropped.
\* Nothing happens between the test of the connection and the task's start that
\* a hang-up just after would not do as well.
block_locks ==
    /\ pc[Block] = "idle"
    /\ connected /\ identity # 0
    /\ request_template(Block)

\* Fault: the guard outlives the task.
Finish_locked(t) ==
    /\ Go(t, "idle")
    /\ lock' = lock
    /\ gen' = [gen EXCEPT ![t] = 0] /\ owner' = [owner EXCEPT ![t] = 0]
    /\ payee' = [payee EXCEPT ![t] = Pool] /\ job' = [job EXCEPT ![t] = 0]
    /\ initial' = [initial EXCEPT ![t] = None]

\* The task ends: its guard and its locals go out of scope.
Finish(t) ==
    /\ Go(t, "idle")
    /\ lock' = IF lock = t THEN None ELSE lock
    /\ gen' = [gen EXCEPT ![t] = 0] /\ owner' = [owner EXCEPT ![t] = 0]
    /\ payee' = [payee EXCEPT ![t] = Pool] /\ job' = [job EXCEPT ![t] = 0]
    /\ initial' = [initial EXCEPT ![t] = None]

\* A client that has given no wallet within the time allowed is cut off.
block_no_wallet ==
    /\ pc[Block] = "idle"
    /\ connected /\ identity = 0
    /\ can_lock
    /\ connected' = FALSE
    /\ UNCHANGED <<auth, identity, payout, authorized, delivered, watchdogs, cut_short, hasty,
                   local, store, diffs, fee_minute, turns>>

\* The node has no template, or a malformed one, for three attempts; an address it
\* cannot decode disconnects the client.
template_failed(t) ==
    /\ pc[t] = "template"
    /\ Finish(t)
    /\ connected' \in {connected, FALSE}
    /\ UNCHANGED <<auth, identity, payout, authorized, delivered, watchdogs, cut_short, hasty,
                   generation, pending, jobs, diffs, fee_minute, turns>>

\* The payee is decided once, before the Kaspa node is asked for a parent: the
\* pool in the lane's fee minute, else the payout.
template_arrives(t) ==
    /\ pc[t] = "template"
    /\ payee' = [payee EXCEPT ![t] = IF fee_minute THEN Pool ELSE @]
    /\ Go(t, "parent")
    /\ UNCHANGED <<session, gen, owner, job, initial, store, diffs, fee_minute, turns>>

Job(t, p) == [lane |-> gen[t], payee |-> p, owner |-> owner[t], diff |-> stratum_diff]

add_job(t, p) ==
    /\ Len(jobs) < MaxJobs
    /\ jobs' = Append(jobs, Job(t, p))
    /\ job' = [job EXCEPT ![t] = Len(jobs) + 1]

\* Fault: the flag is worked out from the clock when the lane is recorded.
records_paid_pool_late(t) == fee_minute \/ payee[t] = Pool

\* What insert_with_payee records: the decision taken before the parent was asked.
records_paid_pool(t) == payee[t] = Pool

\* The parent arrives, or a synthetic one that earns no KAS stands in for it. The
\* lane enters the table with its payee.
insert_lane(t) ==
    /\ pc[t] = "parent"
    /\ pending' = IF Merged THEN insert_with_payee(pending, gen[t], records_paid_pool(t), PendingCap)
                  ELSE pending

\* The block does not serialize: its lane stays behind and there is no job.
serialize_failed(t) ==
    /\ t # Parent
    /\ insert_lane(t)
    /\ Finish(t)
    /\ UNCHANGED <<session, generation, jobs, diffs, fee_minute, turns>>

\* The job is added to the store with the difficulty in force so far.
publish_template(t) ==
    /\ insert_lane(t)
    /\ \E p \in {payee[t], None} : add_job(t, IF Merged THEN p ELSE None)
    /\ initialized' = TRUE

\* send_immediate_job_to_client always sends the difficulty.
immediate_published(t) ==
    /\ t \in Immediates
    /\ publish_template(t)
    /\ stratum_diff' = IF initialized THEN stratum_diff ELSE initial[t]
    /\ Go(t, "difficulty")
    /\ UNCHANGED <<session, gen, owner, payee, initial, generation, lock, var_diff, told, working,
                   fee_minute, turns>>

\* new_block_available sends it the first time and when vardiff has moved.
block_published ==
    /\ publish_template(Block)
    /\ stratum_diff' = var_diff
    /\ Go(Block, IF initialized /\ var_diff = stratum_diff THEN "notify" ELSE "difficulty")
    /\ UNCHANGED <<session, gen, owner, payee, initial, generation, lock, var_diff, told, working,
                   fee_minute, turns>>

send_client_diff(t) ==
    /\ pc[t] = "difficulty"
    /\ connected
    /\ told' = stratum_diff
    /\ Go(t, "notify")
    /\ UNCHANGED <<session, gen, owner, payee, job, initial, store, stratum_diff, initialized,
                   var_diff, working, fee_minute, turns>>

\* mining.notify reaches the miner, and the job counts for the watchdog.
send_notify(t) ==
    /\ pc[t] = "notify"
    /\ connected
    /\ working' = job[t]
    /\ delivered' = jobs[job[t]].owner
    /\ Finish(t)
    /\ UNCHANGED <<connected, auth, identity, payout, authorized, watchdogs, cut_short, hasty,
                   generation, pending, jobs, stratum_diff, initialized, var_diff, told,
                   fee_minute, turns>>

\* A write that fails; also one that finds the socket busy for three attempts.
send_failed(t) ==
    /\ pc[t] \in {"difficulty", "notify"}
    /\ Finish(t)
    /\ connected' \in {connected, FALSE}
    /\ UNCHANGED <<auth, identity, payout, authorized, delivered, watchdogs, cut_short, hasty,
                   generation, pending, jobs, diffs, fee_minute, turns>>

-----------------------------------------------------------------------------
(* new_parent_available: a fresh Kaspa parent for the lane of the newest job. *)

\* The permit admits one refresh per connection. The implementation of the trait
\* that the task calls does not override merged_lane_paid_pool, whose default is
\* false, so the parent always pays the payout in force now. Whether the lane is
\* unsolved is asked before the Kaspa node is.
parent_starts ==
    /\ Merged
    /\ pc[Parent] = "idle"
    /\ connected
    /\ jobs # <<>>
    /\ is_unsolved(pending, Newest.lane)
    /\ gen' = [gen EXCEPT ![Parent] = Newest.lane]
    /\ owner' = [owner EXCEPT ![Parent] = Newest.owner]
    /\ payee' = [payee EXCEPT ![Parent] = payout]
    /\ Go(Parent, "parent")
    /\ UNCHANGED <<session, job, initial, store, diffs, fee_minute, turns>>

\* Fault: what was the newest lane before the request is taken for it still.
still_newest_assumed == TRUE

still_newest == Newest.lane = gen[Parent]

\* The parent arrives. The lock must be free and the lane still the newest.
parent_arrives ==
    /\ pc[Parent] = "parent"
    /\ can_lock
    /\ still_newest
    /\ lock' = Parent
    /\ add_job(Parent, payee[Parent])
    /\ Go(Parent, "notify")
    /\ UNCHANGED <<session, gen, owner, payee, initial, generation, pending, diffs, fee_minute, turns>>

\* The request fails, the lock is taken, or the lane is obsolete.
parent_dropped ==
    /\ pc[Parent] = "parent"
    /\ Finish(Parent)
    /\ UNCHANGED <<session, generation, pending, jobs, diffs, fee_minute, turns>>

-----------------------------------------------------------------------------
(* What goes on around the tasks. *)

\* A submission claims the lane of a job the miner has been given.
claim(h) ==
    /\ \E i \in 1 .. Len(jobs) : jobs[i].lane = h
    /\ can_claim(pending, h)
    /\ pending' = claim_solution(pending, h)
    /\ UNCHANGED <<session, local, generation, jobs, lock, diffs, fee_minute, turns>>

turn(d, f) ==
    /\ turns < MaxTurns
    /\ turns' = turns + 1
    /\ var_diff' = d /\ fee_minute' = f
    /\ UNCHANGED <<session, local, store, stratum_diff, initialized, told, working>>

hang_up ==
    /\ connected
    /\ connected' = FALSE
    /\ UNCHANGED <<auth, identity, payout, authorized, delivered, watchdogs, cut_short, hasty,
                   local, store, diffs, fee_minute, turns>>

-----------------------------------------------------------------------------

build(t) ==
    \/ immediate_locks(t) \/ template_failed(t) \/ template_arrives(t)
    \/ serialize_failed(t) \/ immediate_published(t) \/ send_client_diff(t) \/ send_notify(t) \/ send_failed(t)
    \/ t = Block /\ block_published
    \/ t = Parent /\ (parent_arrives \/ parent_dropped)

authorizing ==
    authorize_payout \/ mark_authorized \/ authorize_gone \/ \E t \in Immediates : authorize_job(t)

Next ==
    \/ \E a \in 1 .. MaxAuths : authorize(a)
    \/ authorizing \/ authorize_reply_failed \/ authorize_extranonce_failed
    \/ \E t \in Immediates : serve_refresh(t)
    \/ \E a \in 1 .. MaxAuths : watchdog(a)
    \/ block_locks \/ block_no_wallet \/ parent_starts
    \/ \E t \in Tasks : build(t)
    \/ \E h \in Lanes : claim(h)
    \/ \E d \in Diffs, f \in BOOLEAN : turn(d, f)
    \/ hang_up

Spec == Init /\ [][Next]_vars

\* Every spawned task runs on, the timers fire, and a node answers or fails.
FairSpec ==
    /\ Spec
    /\ WF_vars(authorizing)
    /\ \A a \in 1 .. MaxAuths : WF_vars(watchdog(a))
    /\ \A t \in Tasks : WF_vars(build(t))

-----------------------------------------------------------------------------
(* Properties. *)

\* Every variable has its type, and the table of pending blocks its capacity.
TypeOK ==
    /\ connected \in BOOLEAN /\ auth \in {"idle", "wallet", "reply", "marked"}
    /\ identity \in Identities /\ payout \in Payees /\ authorized \in Identities
    /\ delivered \in Identities \union {None} /\ watchdogs \in SUBSET Identities
    /\ cut_short \in BOOLEAN /\ hasty \in BOOLEAN
    /\ generation \in 0 .. MaxGenerations
    /\ pending \in [order : Seq(Lanes), solved : SUBSET Lanes, fee_lane : SUBSET Lanes]
    /\ Len(pending.order) <= PendingCap
    /\ jobs \in Seq([lane : Lanes, payee : Payees \union {None}, owner : Identities, diff : Diffs])
    /\ lock \in Tasks \union {None}
    /\ pc \in [Tasks -> {"idle", "waiting", "template", "parent", "difficulty", "notify"}]
    /\ gen \in [Tasks -> 0 .. MaxGenerations] /\ owner \in [Tasks -> Identities]
    /\ payee \in [Tasks -> Payees] /\ job \in [Tasks -> 0 .. MaxJobs]
    /\ fee_minute \in BOOLEAN /\ initialized \in BOOLEAN
    /\ stratum_diff \in Diffs /\ var_diff \in Diffs /\ initial \in [Tasks -> Diffs \union {None}]
    /\ told \in Diffs \union {None} /\ working \in 0 .. MaxJobs
    /\ turns \in 0 .. MaxTurns

\* "Never publish a carrier for obsolete work": each job is for the lane of the
\* job before it or for a later template, whichever tasks race to publish.
LanesMoveForward ==
    \A i \in 2 .. Len(jobs) : jobs[i - 1].lane <= jobs[i].lane

\* The miner is never left with an older job than the one it has: jobs are sent in
\* the order in which they were added.
NeverSendsOlderJob == [][working' >= working]_vars

\* What the table records of a lane is what its template's Kaspa parent pays, also
\* when the fee minute begins or ends while the parent is being fetched.
AttributionIsTrue ==
    \A i \in 1 .. Len(jobs) :
        (/\ jobs[i].payee # None
         /\ jobs[i].lane \in Known(pending)
         /\ \A j \in 1 .. i - 1 : jobs[j].lane # jobs[i].lane) =>
            (paid_pool(pending, jobs[i].lane) <=> jobs[i].payee = Pool)

\* "The watchdog only disconnects if no work is published at all", and then it
\* does: once authorize is done, the miner gets a job or is cut off, whatever
\* fails and however often it authorizes again. Left out is an authorize that ended
\* at its extranonce, which starts no watchdog (see WorklessIsCutOff).
FirstJobOrGone == (authorized # 0 /\ auth = "idle" /\ ~cut_short) ~> (received_job \/ ~connected)

\* "an authorized miner must receive a first `mining.notify` or it cannot make
\* progress": however its authorize ended, it gets a job or is cut off.
WorklessIsCutOff == (authorized # 0 /\ auth = "idle") ~> (received_job \/ ~connected)

\* No builder keeps job_build_lock, whichever of its steps fails.
LockIsReleased == \A t \in Tasks : (lock = t) ~> (lock # t)

\* "A parent-only refresh must keep paying whoever the ORIGINAL template paid":
\* all Kaspa parents of a lane pay the same.
RefreshKeepsPayee ==
    \A i, j \in 1 .. Len(jobs) :
        (jobs[i].lane = jobs[j].lane /\ None \notin {jobs[i].payee, jobs[j].payee}) =>
            jobs[i].payee = jobs[j].payee

\* "otherwise a stale job from an earlier identity could satisfy the watchdog": a
\* job that counts for the watchdog was built for the identity in force.
WatchdogNeedsFreshJob == received_job => delivered >= authorized

\* "authorized worker received no mining.notify within 30s": the watchdog that
\* drops a client is that of the authorization in force.
WatchdogWaitsItsTime == ~hasty

\* "Difficulty/target that was active when this exact job was published": with no
\* task at work, the job the miner has was recorded with the difficulty it was
\* told.
JobHasToldDifficulty ==
    (working # 0 /\ lock = None /\ \A t \in Tasks : pc[t] = "idle") => jobs[working].diff = told
=============================================================================
