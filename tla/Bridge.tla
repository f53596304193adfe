------------------------------- MODULE Bridge -------------------------------
(***************************************************************************)
(* The process around the listeners (main.rs, kaspaapi.rs,                 *)
(* stratum_server.rs). main connects to the ZKas node, subscribes to its   *)
(* new templates, connects to a Kaspa node if one is configured, waits     *)
(* until the ZKas node is synced and then starts its instances, each a     *)
(* stratum port. The tasks of an instance that tell its miners of new work *)
(* are its feeds: one for ZKas blocks and one for Kaspa parents. The feeds *)
(* of the first instance listen to notifications with a ticker behind      *)
(* them, those of the others poll. Ctrl-C asks for the shutdown, which     *)
(* main, the listeners and the feeds each notice for themselves.           *)
(*                                                                         *)
(* A sleep between two attempts is a state, not a time. The two feeds of   *)
(* an instance share nothing but the process, so a behaviour follows one   *)
(* lane of work, blocks or parents. What a feed's call leads to is in      *)
(* JobBuild, what a listener does with its connections in Listener; here a *)
(* call is what makes the miners of an instance up to date, and a listener *)
(* serves and stops. The tasks end with the process.                       *)
(***************************************************************************)
EXTENDS Naturals

CONSTANTS
    Instances,     \* stratum instances
    First,         \* the one that has the notifications
    Configs        \* configurations of the process

ASSUME BridgeAssumption ==
    /\ First \in Instances
    /\ Configs \subseteq [allow_unsynced : BOOLEAN, windows : BOOLEAN, valid : BOOLEAN, merged : BOOLEAN]

VARIABLES
    config,          \* BRIDGE_ALLOW_UNSYNCED; whether the console handler of Windows is
                     \* installed, the anti-abuse settings can be read, and a Kaspa
                     \* node and a payout address are given
    lane,            \* the work that is followed: "block" or "parent"
    synced,          \* get_sync_status of the ZKas node
    seen_synced,     \* history: main's wait for the node has seen it synced
    kaspa_client,    \* there is a connection to the Kaspa node
    notice,          \* its notifications: "none", "empty", "pending" or "closed"
    phase,           \* where main is
    exit,            \* how the process ended
    shutdown,        \* the watch channel
    inst,            \* instance -> its task
    feed,            \* instance -> the task that feeds it
    behind           \* instance -> there is work its miners have not been told of

given == <<config, lane>>
tasks == <<inst, feed, behind>>
node == <<synced, notice>>
startup == <<seen_synced, kaspa_client>>
process == <<phase, exit, shutdown>>
bridgevars == <<given, node, startup, process, tasks>>

NoTasks(i, f, b) ==
    /\ i = [x \in Instances |-> "none"]
    /\ f = [x \in Instances |-> "none"]
    /\ b = [x \in Instances |-> FALSE]

BridgeInit ==
    /\ config \in Configs /\ lane \in {"block", "parent"}
    /\ synced \in BOOLEAN /\ notice = "none"
    /\ seen_synced = FALSE /\ kaspa_client = FALSE
    /\ phase = "connect" /\ exit = "none" /\ shutdown = FALSE
    /\ NoTasks(inst, feed, behind)

running == phase \in {"serving", "draining"}

\* The tasks end with the process.
Exit(how) ==
    /\ phase' = "exited" /\ exit' = how
    /\ notice' = "none"
    /\ NoTasks(inst', feed', behind')
    /\ UNCHANGED <<given, synced, startup, shutdown>>

-----------------------------------------------------------------------------
(* The nodes. *)

sync_changes ==
    /\ phase # "exited"
    /\ synced' = ~synced
    /\ UNCHANGED <<given, notice, startup, process, tasks>>

\* A template the node would now give out is new to every instance.
new_template ==
    /\ running
    /\ lane = "parent" => kaspa_client
    /\ behind' = [i \in Instances |-> TRUE]
    /\ notice' = IF notice = "empty" THEN "pending" ELSE notice
    /\ UNCHANGED <<given, synced, startup, process, inst, feed>>

channel_closes ==
    /\ running
    /\ notice \in {"empty", "pending"}
    /\ notice' = "closed"
    /\ UNCHANGED <<given, synced, startup, process, tasks>>

-----------------------------------------------------------------------------
(* main, up to the start of the instances. *)

\* Connecting, subscribing and asking for the sync status are tried until they
\* succeed, with a sleep after each attempt that failed.
retry_of == [connect |-> "connect_retry", subscribe |-> "subscribe_retry", sync |-> "sync_retry"]
Tried == DOMAIN retry_of
Retried == {retry_of[step] : step \in Tried}

connect ==
    /\ phase = "connect"
    /\ phase' = "subscribe"
    /\ UNCHANGED <<given, node, startup, exit, shutdown, tasks>>

start_notify ==
    /\ phase = "subscribe"
    /\ phase' = "kaspa"
    /\ notice' = IF lane = "block" THEN "empty" ELSE notice
    /\ UNCHANGED <<given, synced, startup, exit, shutdown, tasks>>

\* The wait for the node to be synced is skipped as a whole.
skips_wait == phase = "sync" /\ config.allow_unsynced

\* An answer that the node is not synced is a failed attempt too.
attempt_fails ==
    /\ phase \in Tried /\ ~skips_wait
    /\ phase' = retry_of[phase]
    /\ UNCHANGED <<given, node, startup, exit, shutdown, tasks>>

backoff_elapses ==
    /\ \E step \in Tried : phase = retry_of[step] /\ phase' = step
    /\ UNCHANGED <<given, node, startup, exit, shutdown, tasks>>

\* Fault: the wait for the node is the one that does not look at the shutdown.
interruptible_connect == phase \in {"connect", "connect_retry", "subscribe", "subscribe_retry"}

\* Where main notices the shutdown before there is anything to serve.
interruptible == phase \in Tried \union Retried /\ ~skips_wait

startup_aborts ==
    /\ interruptible
    /\ shutdown
    /\ Exit("error")

\* One attempt, which nothing interrupts. A Kaspa node that is not there and a
\* payout that is no address leave ZKas alone; a subscription that fails leaves
\* the ticker.
connect_kaspa ==
    /\ phase = "kaspa"
    /\ phase' = "sync"
    /\ \/ kaspa_client' = FALSE /\ notice' = notice
       \/ /\ config.merged
          /\ kaspa_client' = TRUE
          /\ notice' = notice \/ (lane = "parent" /\ notice' = "empty")
    /\ UNCHANGED <<given, synced, seen_synced, exit, shutdown, tasks>>

\* Fault: any answer of the node will do.
mining_ready_any == TRUE

mining_ready == skips_wait \/ synced

\* wait_for_sync_with_shutdown returns, and the instances are spawned.
start_instances ==
    /\ phase = "sync"
    /\ mining_ready
    /\ phase' = "serving"
    /\ seen_synced' = (synced /\ ~skips_wait)
    /\ inst' = [i \in Instances |-> "starting"]
    /\ UNCHANGED <<given, node, kaspa_client, exit, shutdown, feed, behind>>

-----------------------------------------------------------------------------
(* listen_and_serve_impl. *)

Settle(i, outcome) == inst' = [inst EXCEPT ![i] = outcome]
Turn(i, step) == feed' = [feed EXCEPT ![i] = step]

\* Settings that cannot be read end the instance before it has a feed.
settings_refused(i) ==
    /\ running /\ inst[i] = "starting"
    /\ ~config.valid
    /\ Settle(i, "failed")
    /\ UNCHANGED <<given, node, startup, process, feed, behind>>

\* The block feed of the first instance has a step before its wait. The first
\* instance has no parent feed without a Kaspa node; the others poll in any case.
loop_top(i) == IF i = First /\ lane = "block" THEN "top" ELSE "waiting"

start_feeds(i) ==
    /\ running /\ inst[i] = "starting"
    /\ config.valid
    /\ Settle(i, "binding")
    /\ Turn(i, IF i = First /\ lane = "parent" /\ ~kaspa_client THEN "none" ELSE loop_top(i))
    /\ UNCHANGED <<given, node, startup, process, behind>>

listener_binds(i) ==
    /\ running /\ inst[i] = "binding"
    /\ Settle(i, "listening")
    /\ UNCHANGED <<given, node, startup, process, feed, behind>>

\* The port is taken: the instance ends with an error, and its feeds go on.
bind_fails(i) ==
    /\ running /\ inst[i] = "binding"
    /\ Settle(i, "failed")
    /\ UNCHANGED <<given, node, startup, process, feed, behind>>

listener_stops(i) ==
    /\ running /\ inst[i] = "listening"
    /\ shutdown
    /\ Settle(i, "done")
    /\ UNCHANGED <<given, node, startup, process, feed, behind>>

-----------------------------------------------------------------------------
(* The feeds. *)

Tell(i) == behind' = [behind EXCEPT ![i] = FALSE]

\* Each time round, the block feed of the first instance looks at the shutdown
\* and then waits for the node to be synced, whatever main was allowed to skip.
feed_begins ==
    /\ running /\ feed[First] = "top"
    /\ Turn(First, IF shutdown THEN "stopped" ELSE "syncing")
    /\ UNCHANGED <<given, node, startup, process, inst, behind>>

wait_for_sync ==
    /\ running /\ feed[First] = "syncing"
    /\ synced
    /\ Turn(First, "waiting")
    /\ UNCHANGED <<given, node, startup, process, inst, behind>>

feed_stops(i) ==
    /\ running /\ feed[i] = "waiting"
    /\ shutdown
    /\ Turn(i, "stopped")
    /\ UNCHANGED <<given, node, startup, process, inst, behind>>

\* Further notifications are drained.
feed_notified ==
    /\ running /\ feed[First] = "waiting"
    /\ notice = "pending"
    /\ notice' = "empty"
    /\ Tell(First)
    /\ Turn(First, loop_top(First))
    /\ UNCHANGED <<given, synced, startup, process, inst>>

\* Fault: the parent feed ends with its channel, as the block feed does.
feed_cut_off_both ==
    /\ running /\ feed[First] = "waiting"
    /\ notice = "closed"
    /\ Turn(First, "stopped")
    /\ UNCHANGED <<given, node, startup, process, inst, behind>>

\* The block feed ends with its channel; the parent feed goes on with its ticker.
feed_cut_off ==
    /\ running /\ feed[First] = "waiting"
    /\ notice = "closed"
    /\ IF lane = "block" THEN Turn(First, "stopped") /\ notice' = notice
       ELSE notice' = "none" /\ feed' = feed
    /\ UNCHANGED <<given, synced, startup, process, inst, behind>>

\* The ticker. The first instance spawns its call; a poll waits for its own.
feed_ticks(i) ==
    /\ running /\ feed[i] = "waiting"
    /\ Tell(i)
    /\ Turn(i, IF i = First THEN loop_top(i) ELSE "calling")
    /\ UNCHANGED <<given, node, startup, process, inst>>

poll_returns(i) ==
    /\ running /\ feed[i] = "calling"
    /\ Turn(i, "waiting")
    /\ UNCHANGED <<given, node, startup, process, inst, behind>>

-----------------------------------------------------------------------------
(* Ctrl-C, and the end of the process. *)

\* Without a handler the signal ends the process; on Unix there is none until
\* main waits for its instances.
ctrl_c_kills ==
    /\ ~config.windows
    /\ ~running /\ phase # "exited"
    /\ Exit("killed")

ctrl_c ==
    /\ phase # "exited" /\ ~shutdown
    /\ config.windows \/ phase = "serving"
    /\ shutdown' = TRUE
    /\ phase' = IF config.windows THEN phase ELSE "draining"
    /\ UNCHANGED <<given, node, startup, exit, tasks>>

\* On Windows main learns of it by the channel.
shutdown_begins ==
    /\ phase = "serving" /\ shutdown
    /\ phase' = "draining"
    /\ UNCHANGED <<given, node, startup, exit, shutdown, tasks>>

second_ctrl_c ==
    /\ phase # "exited" /\ shutdown
    /\ Exit("forced")

\* Fault: the first instance that fails ends them all.
all_ended_or_one_failed ==
    \/ \E i \in Instances : inst[i] = "failed"
    \/ \A i \in Instances : inst[i] = "done"

\* try_join_all looks at the join handles only: an instance that returned an error
\* has ended like any other.
all_ended == \A i \in Instances : inst[i] \in {"failed", "done"}

instances_end ==
    /\ running
    /\ all_ended
    /\ Exit("ok")

\* Ten seconds after the shutdown began.
drain_elapses ==
    /\ phase = "draining"
    /\ Exit("ok")

-----------------------------------------------------------------------------

main ==
    \/ connect \/ start_notify \/ attempt_fails \/ backoff_elapses
    \/ connect_kaspa \/ start_instances
serve(i) == settings_refused(i) \/ start_feeds(i) \/ listener_binds(i) \/ bind_fails(i) \/ listener_stops(i)
leave == startup_aborts \/ shutdown_begins \/ instances_end \/ drain_elapses
block_feed == feed_begins \/ wait_for_sync

BridgeNext ==
    \/ sync_changes \/ new_template \/ channel_closes
    \/ main \/ leave \/ block_feed \/ feed_notified \/ feed_cut_off
    \/ \E i \in Instances : serve(i) \/ feed_stops(i) \/ feed_ticks(i) \/ poll_returns(i)
    \/ ctrl_c_kills \/ ctrl_c \/ second_ctrl_c

BridgeSpec == BridgeInit /\ [][BridgeNext]_bridgevars

\* Tasks are scheduled, timers fire, and a call to a node returns. Nothing is
\* assumed of the node's sync state, of new work or of Ctrl-C.
BridgeFairSpec ==
    /\ BridgeSpec
    /\ WF_bridgevars(main) /\ WF_bridgevars(leave) /\ WF_bridgevars(block_feed)
    /\ \A i \in Instances :
        WF_bridgevars(serve(i)) /\ WF_bridgevars(feed_ticks(i)) /\ WF_bridgevars(feed_stops(i)) /\ WF_bridgevars(poll_returns(i))

-----------------------------------------------------------------------------

BridgeTypeOK ==
    /\ config \in Configs /\ lane \in {"block", "parent"}
    /\ synced \in BOOLEAN /\ notice \in {"none", "empty", "pending", "closed"}
    /\ seen_synced \in BOOLEAN /\ kaspa_client \in BOOLEAN /\ shutdown \in BOOLEAN
    /\ phase \in Tried \union Retried \union {"kaspa", "serving", "draining", "exited"}
    /\ exit \in {"none", "ok", "error", "killed", "forced"}
    /\ inst \in [Instances -> {"none", "starting", "binding", "listening", "failed", "done"}]
    /\ feed \in [Instances -> {"none", "top", "syncing", "waiting", "calling", "stopped"}]
    /\ behind \in [Instances -> BOOLEAN]

\* No port is open, and no feed asks the node for work, before the node was seen
\* synced, unless the operator allows it.
ServesOnlyWhenReady ==
    \A i \in Instances :
        inst[i] = "listening" \/ feed[i] # "none" => seen_synced \/ config.allow_unsynced

\* The process ends by itself only when none of its instances could start: one
\* that fails does not take down those that serve.
LeavesOnlyUnserved ==
    [][exit' = "ok" /\ ~shutdown /\ exit = "none" => \A i \in Instances : inst[i] = "failed"]_bridgevars

\* What may keep the first instance from its ticker: the node is not synced, or
\* the channel of the block feed has closed.
kept_from_ticker(i) == i = First /\ lane = "block" /\ (~synced \/ notice = "closed")

\* New work reaches the miners of every instance that listens. Neither a missed
\* notification nor a closed Kaspa channel nor a slow call stops it, and a polling
\* instance does not depend on the node's sync state.
NewWorkReachesMiners ==
    \A i \in Instances :
        behind[i] /\ inst[i] = "listening"
            ~> ~behind[i] \/ shutdown \/ kept_from_ticker(i)

\* Once it is asked for, the shutdown ends the process, wherever main is and
\* whatever the feeds wait for.
ShutdownEnds == shutdown ~> phase = "exited"

\* With BRIDGE_ALLOW_UNSYNCED "the bridge can serve jobs against a bootstrap/solo
\* node" that never reports to be synced: its miners are told of new blocks.
UnsyncedNodeIsServed ==
    \A i \in Instances :
        config.allow_unsynced /\ behind[i] /\ inst[i] = "listening"
            ~> ~behind[i] \/ shutdown \/ notice = "closed"
=============================================================================
