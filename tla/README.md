# Verification of the solo dual-mode bridge

TLA+ models, TLC runs and TLAPS proofs for the Stratum bridge in
`src/bridge-src/bridge` (with the domain types of
`src/bridge-src/crates/katpool-domain`). The bridge lets ASIC miners speak Stratum
while the blocks go to a ZKas node, and, in merged mode, to a Kaspa node as well:
one nonce can solve the Kaspa parent, the ZKas block its coinbase commits to, or
both.

Paths below are relative to `src/bridge-src/bridge/src` unless they start with
`src/`.

## 1. Inventory

| component | source | state | operations | model |
|---|---|---|---|---|
| job store | `mining_state.rs` | ring of 300 jobs, their ids and difficulties, counter, current difficulty | `add_job`, `get_job`, `get_job_diff`, `latest_job`, `set_stratum_diff` | `MiningState` |
| pending ZKas blocks | `merged.rs`, `MergedPending` | lanes (`H_fc`) in insertion order, solved lanes, lanes whose parent pays the pool | `insert_with_payee`, `claim_solution`, `paid_pool`, `is_unsolved`, look-ups | `LaneTable`, `MergedPending`, abstractly `LaneLedger` |
| share submission | `share_handler.rs`, `kaspaapi.rs` | the submission under way per connection; shared: lane table, two guards, books, events | `handle_submit` with the parent leg, the claim and `submit_block` | `ShareSubmit` |
| submission guards | `share_handler.rs`, `kaspaapi.rs` | recent submissions and recent blocks, expiring | `begin`/`set_outcome`, `try_mark`/`remove` | in `ShareSubmit`, as sets of entries |
| anti-abuse guard | `anti_abuse.rs` | per address: connections, tokens, time of the last refill | `try_accept_connection`, `try_consume_frame`, `ConnTicket::drop` | `Listener` |
| stratum listener | `stratum_listener.rs` | accept loops, a read loop per connection, a teardown task per listener | accept, read, parse, dispatch, tear down, stop | `Listener` |
| client registry, sessions | `client_handler.rs`, `stratum_context.rs` | clients by id, session events | `on_connect`, `on_disconnect`, `disconnect_all` | `Listener` |
| job building | `client_handler.rs`, `default_client.rs`, `kaspaapi.rs`, `stratum_server.rs` | identity, payout, authorization epoch, build lock, template generation, difficulty | `handle_authorize`, `send_immediate_job_to_client`, `new_block_available`, `new_parent_available`, the refresh coordinator, the first-job watchdog | `JobBuild` |
| subscribe, extranonce | `default_client.rs`, `client_handler.rs` | one extranonce counter for the process, 0 to 65535; per connection: kind of miner, extranonce, wallet, first-job watchdogs | `handle_subscribe`, `handle_extranonce_subscribe`, `handle_authorize`, `assign_extranonce_for_miner` | `Handshake` |
| vardiff, worker statistics | `share_handler.rs`, `client_handler.rs`, `stratum_context.rs` | per wallet and worker: connections, difficulty, observation window, last activity | `activate_client_vardiff`, `deactivate_client_vardiff`, `register_client_vardiff`, `set_client_vardiff`, the vardiff and prune threads | `VarDiff`, `WorkStats` |
| message writing | `stratum_context.rs` | the write half, shared by all tasks of a connection | `reply`, `send`, `write_data`, `check_disconnect`, `disconnect` | `StratumWrite`, composed in `Handshake`; elsewhere every write may fail |
| node access | `kaspaapi.rs`, `inprocess_node.rs` | RPC clients, sync state, notification channels | connect, subscribe, wait for sync, listen and poll for new work; template, parent and submit calls | `Bridge`; the calls in `JobBuild` and `ShareSubmit` |
| AuxPoW assembly, hashing | `merged.rs`, `hasher.rs`, `pow_diagnostic.rs` | none | pure functions | partly planned |
| start-up and shutdown | `main.rs`, `kaspaapi.rs`, `stratum_server.rs` | where main is, the shutdown channel, a task per instance and its feeds | start, serve, Ctrl-C, drain, exit | `Bridge` |
| configuration, metrics, CPU miner, scripts | `app_config.rs`, `prom.rs`, … | – | – | not modelled |

How they interact. A listener accepts a connection, takes a ticket from the guard,
registers a client and runs its read loop, which awaits the handler of each line
before it takes the next one. `mining.authorize` sets the identity and spawns a task
that builds a job; block notifications and Kaspa parent notifications spawn others.
All of them share the connection's build lock, its job store and the table of pending
ZKas blocks. `mining.submit` reads the job store and the table, and asks both nodes.
A claimed block broadcasts a request for fresh work, which the refresh coordinator
turns into an immediate job. The read loop, the job tasks and the first-job watchdog
of a connection share one write half. Teardown runs through a channel to a task that
removes the client and closes its session. Around all this, `main` connects to the
nodes, waits until the ZKas node is synced, starts the instances and their feeds of new
work, and passes a shutdown on through a watch channel that each task looks at for
itself.

What is hard here: every connection is a task and several more tasks build jobs for
it; locks are released between a check and its use (`get_job_diff`, the guard's clock
reading, the lane test before a parent is requested); tables have a capacity and
forget; guards expire under submissions in flight; RPCs fail after state has been
changed; timers outlive what started them; a shutdown races with the teardown it
causes; a writer gives up on a busy lock and the message is gone, or begins a line
again of which a part is already out; what a miner knows depends on the order in which
three tasks write to it. `PROJECT.json` lists these hazards with their lines.

What makes the components correct:

* a job id answers with its own job or with nothing, for ever;
* a ZKas block is claimed and judged once, and the KAS reward of a nonce never
  depends on what becomes of its ZKas block;
* what the table says about who is paid is what the template pays;
* a submission is booked once; a repeat of it is told true while the first is under way,
  and what was booked afterwards;
* the connection limits and the frame rate hold, and every slot comes back;
* a worker's connections are counted exactly, its difficulty survives a reconnect,
  and its entry does not survive for ever;
* a miner gets newer work only, gets some work or is cut off, and no failure leaves
  the build lock taken;
* lines of different tasks do not mix on the wire, and a message that is lost takes the
  connection with it, unless the lock was busy;
* extranonces are distinct until the counter has gone round, a miner that has subscribed
  and authorized knows its own, and a difficulty comes before the first job;
* nothing is served before the node is ready, new work reaches every port, one failed
  instance leaves the others, and a shutdown ends the process.

## 2. Modules

The definitions keep the names of the functions they model. History variables, the
counters behind bounds and the definitions marked *Fault* (plausible bugs, used to
see that a property can fail) have no counterpart in the code.

**`MiningState`** – one job store with concurrent readers. `add_job` and `get_job`
hold all of their locks at once and are atomic; `get_job_diff` and `latest_job` take
two locks in turn and are two steps each.

**`LaneTable`** – the value of the table of pending blocks and its operations as
operators; **`MergedPending`** – the table behind its mutex, each operation one
step; **`LaneLedger`** – what users of the table rely on, with no order and no
capacity. `MergedPending` implements it: `offered` is the set of known lanes,
`claimed` the solved ones, `pool_paid` the fee lanes. So do the two compositions that
use the table, `ShareSubmit` and `JobBuild`, under the same mapping.

**`ShareSubmit`** – composes the lane table, the job stores (by what
`MiningStateProofs` proves of them), the two guards and the two nodes with one
`handle_submit` per connection. `pc` is the place between two awaits or locks:
`check` (the validation loop, with its walk back through earlier jobs), `parent`
(the Kaspa leg), `claim`, `found`, `submit`, `rpc`, `bad`, `low`, `credit`. Which of
the pool, ZKas and Kaspa targets a nonce clears on a parent is a constant: hashing
itself is not modelled. `cid` stands for the correlation id, a number of its own for
every submission, so two acceptances of one block are two events. `answers` keeps what
each frame was told: by the handler that carried its submission, or from the guard.

**`Listener`** – composes the accept loops of several ports, the connection tasks,
the guard, the registry and the teardown tasks. `phase` is the place of a
connection's task. Time is counted in ticks, a tick refills one token, and a frame
costs `FrameCost` of them, which gives any rational rate; a fraction of a tick is
rounded away.

**`JobBuild`** – composes, for one connection, the authorize handler, the immediate,
block and parent tasks with the build lock, the watchdogs, the lane table and the
submissions that claim lanes. A lane is named by the template generation in its
coinbase tag. `owner` of a job is the identity its template was requested for.
An authorize can end early twice: its reply fails, before the epoch begins, or its
extranonce does, after the epoch has begun and before the watchdog is started. The second
is recorded in `cut_short`, and `FirstJobOrGone` leaves it out: when the write found the
socket busy, the miner stays connected and nobody watches it.

**`VarDiff`** – the step of the vardiff thread as operators. Difficulties are whole
numbers, the square root is compared by squares, and the result is clamped to powers
of two, as the shipped configurations have it (`pow2_clamp: true` in
`src/bridge.yaml.template`).

**`WorkStats`** – the map from wallet and worker to an entry, for any number of
connections. An entry is a bundle of `Arc`s, so `activate_client_vardiff` is three
steps: `Claim` gets the entry under the lock of the map, `Count` and `Fresh` write to
it without that lock; `holds` says whether the entry written to is still the one in
the map. `stats_key` reads wallet and worker under two locks, so a task that meets a
re-authorization sees a pair of the two identities. Time is counted in units; a
handler's statements take less than one. `raced` and `cached` are history.

**`StratumWrite`** – `write_data` for any number of writers of one connection: the lock,
the write half that is taken out of its slot and put back, the attempts, the deadline,
and `disconnect` beside them. A line is two pieces, so that a deadline can pass with a
part of it on the wire; `lines` is what the miner has read, `fragments` what waits for a
newline. `stalls`, `crowded` and `lost` record the ways in which a call failed.

**`Handshake`** – composes `StratumWrite` with the three tasks that write: the read loop
with its handlers, the job task and the watchdog. A handler is the list of messages it
still has to send, and gives up at the first that fails. Miners differ in whether they
are told their extranonce by the answer to subscribe, by authorize or by both, which
depends on the name they give and on whether the port speaks Kaspa Common. Other
connections appear by the extranonces they use up.

**`Bridge`** – the process: where `main` is between connecting and exit, the instances,
and for each the feed that tells its miners of new work. The feeds of the first instance
listen to notifications, with a ticker behind them; the others poll. Block and parent
feeds share nothing but the process, so a behaviour follows one of the two lanes. On
Windows a handler for Ctrl-C is there from the start, on Unix only once the instances
run.

The modules named `MC…` give constants to TLC; those named `…Proofs` hold the
theorems.

## 3. Runs

| run | bounds | checks |
|---|---|---|
| `mining_state` | ring of 2, 5 jobs, 1 reader | `ExactJob`, `LatestIsExact`, `JobDiffOfSlot`, `RetainedJobsAreImmutable` |
| `merged_pending` | 3 lanes, capacity 2, 6 insertions | `Bounded`, `AttributionFollowsTemplate`, `ClaimedOncePerIssue`, `SolvedIsFinal`, `ImplementsLedger` |
| `share_merged` | 2 rigs of one worker, 3 parents of 2 lanes, 2 nonces, capacity 1, 3 frames, 1 expiry | `NodeJudgesOnce`, `KasRewardPreserved`, `AcceptedPairsWithFound`, `AnswersAreTrue` |
| `share_solo` | the same rigs without merged mining, 1 nonce, 4 frames, 3 jobs, window 2, no expiry | `ChecksOwnRecentJobs`, `OutcomesAreFinal`, `SubmissionsEnd` |
| `listener_caps` | 3 connections, 2 ports, 2 addresses, both caps 1, shutdown | `TicketsCounted`, `NoGhostClients`, `NamedSessionsClose`, `DroppedClientsRelease` |
| `listener_rate` | 2 connections of one address, 3 ticks, burst 3, cost 2 | `RateHeld` |
| `job_build` | 1 immediate task, block and parent tasks, 2 templates, 3 jobs, capacity 1, 1 turn of the fee minute | `LanesMoveForward`, `AttributionIsTrue`, `NeverSendsOlderJob` |
| `job_build_live` | 2 authorizations, 1 template | `FirstJobOrGone`, `LockIsReleased` |
| `work_stats` | 2 connections of one worker, 3 authorizations, difficulties 2, 4 and 8, windows up to 2, 2 shares | `CountIsExact`, `CachedDifficultyKept`, `WorkersAreForgotten` |
| `handshake` | 3 writers, 2 attempts, 1 stall, extranonces 0 and 1, 2 requests, 2 jobs, 4 kinds of miner and port | `TornLinesHaveACause`, `LostMeansClosed`, `ExtranoncesDistinct`, `SettledKnowsExtranonce`, `DifficultyBeforeJob`, `WorklessIsWatched`, `SilentAfterShutdown` |
| `bridge` | 2 instances, 4 configurations | `ServesOnlyWhenReady`, `LeavesOnlyUnserved`, `NewWorkReachesMiners`, `ShutdownEnds` |
| `job_build_payee` | as `job_build` | refutes `RefreshKeepsPayee` |

Why the bounds are enough. The ring wraps twice (5 jobs in 2 slots), so an id has
been displaced both before and after a reader took it. The table has fewer places
than there are lanes, so lanes are evicted unclaimed, claimed, and between a claim
and its use, and come back. Two submissions are the least that race; a third frame
repeats one of them. The one nonce of `share_solo` fits one parent alone, so that a
submission finds it at once, walks back to it or misses it by the window, and four frames submit, repeat
and follow up. Three parents give a lane with a refreshed parent and a lane
that evicts it, and the nonces cover each combination of targets the branches tell
apart. With both caps at one, the second connection of an address and the second
address are the ones refused. Three ticks let an address refill after its burst and
let readings come to the lock out of order. Two templates are what it takes for a
parent to be requested for a lane that the other template makes obsolete. Two
connections of one worker are what it takes for one to leave while the other stays,
and three authorizations let one of them re-authorize; three powers of two tell one
step down from two. Three writers are all there are; two attempts give a call one to
retry and one to lose, one stall is enough to tear a line, two requests are a subscribe
and an authorize, or one of them repeated, and with two jobs one whose difficulty was
lost is followed by one that is sent without. Two extranonces wrap at the second
assignment. Of two instances one is notified and one polls; the configurations have
each switch in both positions.

Deadlock is not checked where frames, jobs and connections are bounded: a run that
has used them up has nothing left to do. `mining_state` and `merged_pending` never
stop and check it.

### Fairness

* `share_solo` (and `MCShareSubmitLive.cfg`, in merged mode): each handler goes on while it can. The runtime polls a task that is
  ready, and a call to a node ends with an answer or an error.
* `listener_caps`: each connection's task goes on (a read ends after five seconds at
  the latest, by its timeout), and so do the teardown tasks. Nothing is assumed of
  clients, accepts, clocks or the operator.
* `job_build_live`: spawned tasks and the authorize handler go on, and timers fire.
  Nothing is assumed of block or parent notifications.
* `work_stats`: the clock runs and the prune thread's interval keeps ticking. Nothing
  is assumed of connections: the property speaks of when they are gone.
* `bridge`: tasks are scheduled, timers fire and a call to a node returns. Nothing is
  assumed of the node's sync state, of new work or of Ctrl-C.
* `MCHandshakeLive.cfg`: a write under way ends, by its deadline at the latest, and the
  tasks go on. Nothing is assumed of the miner.

The calls to the nodes have no deadline in the bridge. That they end is an
assumption about the RPC client; without it a builder keeps its lock.

## 4. What the runs and the proofs show

### Proved for every value of the constants

| module | theorem | property |
|---|---|---|
| `MiningStateProofs` | `TypeCorrect`, `RingCorrect`, `NoAlias`, `LatestExact`, `JobDiffNoOlder`, `RetainedImmutable` | `TypeOK`, `RingInv`, `ExactJob`, `LatestIsExact`, `JobDiffOfSlot`, `RetainedJobsAreImmutable` |
| `MergedPendingProofs` | `TableBounded`, `Attribution`, `ClaimOnce`, `SolvedStays`, `RefinesLedger` | `Bounded`, `AttributionFollowsTemplate`, `ClaimedOncePerIssue`, `SolvedIsFinal`, `ImplementsLedger` |
| `ShareSubmitProofs` | `TypeCorrect`, `WindowCorrect`, `KasRewardKept`, `JudgedOnce` | `TypeOK`, `ChecksOwnRecentJobs`, `KasRewardPreserved`, `NodeJudgesOnce` |
| | `AnswersTrue`, `OutcomesFinal`, `EventsPair`, `SubmissionsRefineLedger` | `AnswersAreTrue`, `OutcomesAreFinal`, `AcceptedPairsWithFound`, `LaneLedger` |
| `ListenerProofs` | `TypeCorrect`, `TicketsCorrect`, `RateCorrect`, `NoGhosts`, `SessionsCorrect` | `TypeOK`, `TicketsCounted`, `RateHeld`, `NoGhostClients`, `NamedSessionsClose` |
| `WorkStatsProofs` | `TypeCorrect`, `CountCorrect`, `CachedCorrect` | `TypeOK`, `CountIsExact`, `CachedDifficultyKept` |
| `HandshakeProofs` | `WritersNeverMix`, `LostIsClosed`, `SilentOnceShut` (of `StratumWrite`) | `TornLinesHaveACause`, `LostMeansClosed`, `SilentAfterShutdown` |
| | `TypeCorrect`, `HandshakeWrites` | `TypeOK`, `WriteSpec` |
| | `ExtranoncesCorrect`, `WorklessCorrect`, `DifficultyFirst`, `SettledCorrect` | `ExtranoncesDistinct`, `WorklessIsWatched`, `DifficultyBeforeJob`, `SettledKnowsExtranonce` |
| `WorkProofs` | `BuildTypeCorrect`, `LanesCorrect`, `AttributionCorrect`, `SendsInOrder`, `BuildRefinesLedger` (of `JobBuild`) | `TypeOK`, `LanesMoveForward`, `AttributionIsTrue`, `NeverSendsOlderJob`, `LaneLedger` |
| | `BridgeTypeCorrect`, `ReadyCorrect`, `LeavesCorrect` (of `Bridge`) | `BridgeTypeOK`, `ServesOnlyWhenReady`, `LeavesOnlyUnserved` |

The assumptions are the named `ASSUME`s: sizes and caps are positive numbers, the
functions given as constants have their types, `None` is none of the values, and the
sets of connections and addresses are finite (`Listener`, `WorkStats`; their numbers
are counted).
The bounds of the runs are arbitrary natural numbers in the proofs.

The arguments:

* *Job store.* `ExactJob` is not inductive: it says nothing of the slots. `RingInv`
  does: a slot holds the last id with its residue, with that id's content. The
  arithmetic behind it is `SlotCollision` – two ids of one slot are at least `MaxJobs`
  apart – from the uniqueness of quotient and remainder. `LookInv` says that an id a
  reader holds between its locks has been handed out; ids never change meaning, so the
  answer it gets is about that id or a later one of its slot.
* *Pending blocks.* `LaneTableProofs` shows what each operation does to a well-formed
  table (lanes distinct, flags only for known lanes, within capacity); an insertion
  evicts at most the oldest lane. The invariants and the refinement follow from these
  facts without looking at sequences again. `InsertOffers` turns an insertion into a
  step of the ledger; the three refinements cite it, and in the compositions every step
  that leaves the table alone is a stutter.
* *Submission.* `Base` has the types, the window and the well-formed table. `KasInv`
  strengthens the property backwards, to every place after the parent leg. `LaneInv`
  is what one claim per lane means for the node: submissions between claim and answer
  own different lanes, an owned or judged lane cannot be claimed, and the table knows
  only lanes that have been used – so a lane that was evicted does not come back as
  new. `MarkInv` is the same for the block guard, while no entry has expired; that is
  why `JudgedOnce` is unconditional in merged mode only.
* *Outcomes.* What is booked under a key says nothing of who may book next. `BooksInv`
  does: a submission under way holds its key alone, the guard has it in flight, and
  nothing is booked under it yet but the rejection of a weak share, which comes one step
  before its outcome. It holds while no entry has expired; an expiry lets a second
  submission in, as the properties say themselves. `AnswersInv` adds what the frames were
  told: nothing under a key that was never submitted, only InFlight before the handler
  answers, and then the outcome it records with its answer; a weak share is told first
  and recorded after, so a repeat in between can still be told true.
* *Events.* `PairInv`: a find is announced before the call that may accept it, under the
  number of its submission, which no other submission of the connection has, and a block
  with an accepted event has been judged. A second acceptance would need a call for a
  judged block: `LaneInv` excludes it in merged mode, and `MarkInv` otherwise, while no
  entry has expired. After an expiry without merged mining the same nonce sent again is a
  new submission, and nothing in the bridge keeps its block from a second verdict.
* *Listener.* `TicketsCounted` is inductive; only `admit` and `release` move a ticket,
  one each, and the argument is about cardinalities. `RateHeld` follows from
  conservation: tokens in the bucket and frames admitted are at most the burst and the
  time up to the last refill. `SessionInv` follows a session through the teardown
  channel: until the connection's task ends there is no notice and nothing is closed,
  while a notice waits nothing is closed, and once it has been handled the session is
  closed once and the client is gone, unless its id is 0.
* *Worker statistics.* `CountIsExact` is not inductive: it must also be known that an
  activation which holds the map's entry finds it there (`HeldIsPresent`), which the
  prune thread preserves because it takes the entry away from who holds it. Only the
  connection that leaves, the one that counts itself and the prune thread change the
  two sides of the equation, and each has a lemma; every other step keeps them
  (`Keeping`). `CacheInv` says how a cached difficulty may have changed: not at all, or
  by one step down after a connection has counted itself and before it opens its window,
  because a step restarts the window and an empty window takes none. What
  the vardiff step computes is the greatest or the least power of two that fits; the
  least-number lemmas (from the well-foundedness of the naturals) give that there is one,
  that it is no lower than the single step down (`Halved`) and no lower than the floor.
* *Writing.* `TornLinesHaveACause` needs to know who may write: `HalfInv` says that the
  write half is with the holder of the lock while it writes, and `WireInv` that a piece
  without its newline is on the wire only while its writer is within its line or after a
  stall. Every step of `Handshake` is a step of `StratumWrite` or leaves its variables
  alone (`HandshakeWrites`), so these theorems carry over to the composition.
* *Handshake.* `Consecutive`: the latest assignments follow each other modulo the number
  of extranonces, and as many as there are extranonces are therefore distinct.
  `WatchInv`: a miner that is authorized and has no job is watched, is being hung up on,
  or is about to get its watchdog from the handler. `DiffInv` and `TaskInv` say what the
  job task has sent at each of its places. `TellInv`: the handler that tells the miner
  its extranonce has the message on its list until the miner has read it. The theorem
  leaves out the one kind that neither handler tells (`Untold`, an `icm` miner on a plain
  port), which `MCHandshakeIcm.cfg` shows to be the code's.
* *Job building.* `BuildInv`. `LockInv`: a task that builds holds the build lock and the
  current generation. `LaneInv`: no job is for a lane of the future, and whoever is at
  the template or the parent is so for a lane that has no job. `SendInv`: a job that is
  being sent is the newest one. The parent task waits for its parent without the lock,
  and its test of the lane after that wait is what keeps the order.
* *Process.* `ProcessInv`: there are tasks only while the process runs, and an instance
  is done only after a shutdown.

### Only model-checked

Liveness under fairness is outside the prover's reach: `SubmissionsEnd`,
`DroppedClientsRelease`, `FirstJobOrGone`, `LockIsReleased`, `WorkersAreForgotten`, `NewWorkReachesMiners`,
`ShutdownEnds`, `HandlersEnd`. Every other property of the passing runs, invariant or
action property, is a theorem above, two of them under a condition that the arguments
name: `JudgedOnce` without merged mining, and `SettledCorrect`. `AnswersAreTrue`,
`OutcomesAreFinal` and the second half of `AcceptedPairsWithFound` carry their condition
on expired entries in themselves, and `FirstJobOrGone` its exception. `VarDiff` converges or not over many steps, which is
liveness as well and not checked either (see the plan).

### Where code and documentation disagree

* `job_build_payee`: "A parent-only refresh must keep paying whoever the ORIGINAL
  template paid" (`client_handler.rs:1048`), but `merged_lane_paid_pool` is called
  through a trait whose implementation for `KaspaApi` does not override the default
  `false`: a refreshed parent of a fee lane pays the miner. A re-authorization with
  another password does the same to other lanes.

Further configurations are kept beside the runs. `MCShareSubmitLive.cfg`
(`SubmissionsEnd` in merged mode) and `MCHandshakeLive.cfg` (`HandlersEnd`) pass; the
others refute a documented sentence each. Each names one property of its module and is run with
`tlc -config X.cfg M`.

| configuration | property | what TLC shows |
|---|---|---|
| `MCMiningStateDiff.cfg` | `JobDiffIsExact` | the ring wraps between the two locks of `get_job_diff` |
| `MCShareSubmitRetry.cfg` | `FailedSubmitIsRetryable` | after a transport failure `submit_block` clears the block guard "so the submit can be retried" (`kaspaapi.rs:904`), but the lane stays claimed in `MergedPending` |
| `MCShareSubmitEvents.cfg` | `AnsweredFramesHaveEvents` | a duplicate is answered without an event |
| `MCShareSubmitPair.cfg` | `BlockEventsPair` | a worker with a name the events refuse has a `BlockAccepted` and no `BlockFound` |
| `MCListenerFrameRate.cfg` | `FrameRateIsSustained` | clock readings that reach the lock out of order refill an interval twice |
| `MCListenerSessions.cfg` | `SessionsAreClosed` | the session of a client without a name to report stays open |
| `MCListenerShutdown.cfg` | `SessionsAreClosed` | the teardown task stops before the notices of the shutdown arrive |
| `MCJobBuildFresh.cfg` | `WatchdogNeedsFreshJob` | a job of the earlier identity satisfies the new epoch |
| `MCJobBuildHasty.cfg` | `WatchdogWaitsItsTime` | the timer of an earlier authorization cuts off a later one |
| `MCWorkStatsOffline.cfg` | `OfflineIsNoEvidence` | between its count and its fresh window a new connection is judged by the window of the session before |
| `MCWorkStatsActive.cfg` | `ActiveStatsSurvive` | an entry pruned between `get_create_stats` and the count: the live connection is on nobody's count and its difficulty is never adjusted |
| `MCJobBuildUnwatched.cfg` | `WorklessIsCutOff` | "an authorized miner must receive a first `mining.notify`" (`client_handler.rs:78`): an authorize whose extranonce finds the socket busy (`default_client.rs:399`) returns before the watchdog starts; the miner stays connected, unwatched and without a job, unless a block or parent notification brings one |
| `MCJobBuildDiff.cfg` | `JobHasToldDifficulty` | the job carries the difficulty before the change sent with it |
| `MCHandshakeIcm.cfg` | `SettledKnowsExtranonce` | a miner named `icm` or `icemining` is an IceRiver to authorize (`default_client.rs:394`) and not to subscribe (`:182`): neither tells it its extranonce |
| `MCHandshakeOrder.cfg` | `JobAfterExtranonce` | "extranonce – MUST complete before difficulty/job" (`default_client.rs:382`): a block that arrives between the wallet and the extranonce sends a job first |
| `MCBridgeUnsynced.cfg` | `UnsyncedNodeIsServed` | with `BRIDGE_ALLOW_UNSYNCED`, "the bridge can serve jobs against a bootstrap/solo node" (`kaspaapi.rs:1092`): the block feed of the first instance waits for the sync all the same |

When every instance fails, `main` still reports that all of them completed and exits
without an error: it looks at the join handles and not at what the instances returned
(`main.rs:489`). `LeavesOnlyUnserved` is stated so that this is allowed.

`NoGhostClients` has an exception that is the code's: the first client of the process
has id 0, which `StratumContext::id` reports as no id, so it is never removed from the
registry.

## 5. What is abstracted and what is left out

* The layout of messages for the different miners, logging, metrics and statistics: nothing
  reads them back into a decision.
* Rate limits between notifications and the pauses between retries: they thin out the
  steps of `JobBuild` and add none.
* Parsing of lines and PROXY headers: a choice of outcomes.
* The blue-confirmation poll after an accepted block: it reports only.
* Guard entries expire at any time instead of in the order of their queue, which
  allows more than the code does.
* A nonce that clears a target is given, not computed.
* Difficulty numbers (outside `VarDiff`), targets, hashes and serialization: values
  without structure.
* The vardiff step without the clamp to powers of two, which is on real numbers.
* `JobBuild` takes the decisions of vardiff as an input that may change at any time.
* Addresses and passwords: an authorize that is accepted has a wallet.
* A miner changes its name with a subscribe in the code; in `Handshake` it keeps it.
* Metrics, the dashboard and the web servers: nothing reads them back into a decision.
* The embedded node of an optional feature, and its start inside `main`.
* The CPU miner, whose feature is off by default and which expects of `submit_block` an
  answer it no longer gives.
* AuxPoW assembly and hashing: pure functions on bytes.

## 6. Plan

In this order; each step adds modules without changing what is proved above.

1. `ExpiringGuard`: the queue behind the duplicate and the block guard, with its size
   limit, stale queue entries and refreshed outcomes; that it holds no more than its
   bound and forgets no entry before its time, shown to implement the set of entries
   `ShareSubmit` uses.
2. The vardiff controller with a clock and a miner of steady speed: that the
   difficulty comes within a factor of two of the right one, how long the way down to
   the floor takes with a tick of ten seconds, and whether the clamp to powers of two
   lets it settle at all.
3. Pure functions against reference definitions: the coinbase Merkle branch and the
   fee minute.
4. Proofs: that `ExpiringGuard` implements the set of entries, and that `ShareSubmit`
   keeps its theorems on top of it; that the job list `ShareSubmit` keeps for a
   connection is the one a `MiningState` of the same connection answers with, which is
   now by reference to `MiningStateProofs` and not a refinement.
