----------------------------- MODULE Handshake -----------------------------
(***************************************************************************)
(* How a miner is brought to work: mining.subscribe, the assignment of an  *)
(* extranonce, mining.authorize (default_client.rs, client_handler.rs) and *)
(* the three tasks that then write to the connection through StratumWrite: *)
(* the read loop with its handlers, the job task (the build lock admits    *)
(* one) and the first-job watchdog.                                        *)
(*                                                                         *)
(* A handler is the list of messages it still has to send; it gives up at  *)
(* the first that fails, and the read loop goes on to the next frame. Who  *)
(* is told its extranonce, and when, depends on the miner's application    *)
(* name and on the protocol of the port.                                   *)
(***************************************************************************)
EXTENDS StratumWrite, Sequences

CONSTANTS
    Reader, Worker, Watchdog,   \* the writers
    Kinds,           \* <<miner, Kaspa Common port>>; miners are "bitmain", "iceriver", "icm", "other"
    MaxExtranonce,   \* largest extranonce: 65535 in the code
    Failover,        \* BOOLEAN: the port has a failover endpoint to hint at
    MaxRequests,     \* bound: frames of the miner
    MaxJobs          \* bound: jobs sent

Extranonces == 0 .. MaxExtranonce
HandshakeMessages ==
    [kind : {"subscribed", "confirmed", "authorized", "set_extranonce", "set_difficulty", "notify", "reconnect"},
     extranonce : Extranonces \union {None}]

ASSUME HandshakeAssumption ==
    /\ Writers = {Reader, Worker, Watchdog} /\ Messages = HandshakeMessages
    /\ Reader # Worker /\ Reader # Watchdog /\ Worker # Watchdog
    /\ Kinds \subseteq {"bitmain", "iceriver", "icm", "other"} \X BOOLEAN
    /\ MaxExtranonce \in Nat /\ Failover \in BOOLEAN
    /\ MaxRequests \in Nat /\ MaxJobs \in Nat
    /\ None \notin Extranonces

VARIABLES
    profile,      \* what remote_app tells about the miner
    common,       \* the port speaks Kaspa Common
    next_extranonce, \* GLOBAL_NEXT_EXTRANONCE
    extranonce,   \* this connection's, None when empty
    recent,       \* history: the latest assignments to any connection
    handling,     \* request the read loop handles, or "idle"
    todo,         \* what its handler has still to send
    wallet,       \* an authorize has set wallet_addr
    authorized,   \* authorized_at is set
    delivered,    \* a job has been sent since then
    watchdogs,    \* first-job watchdogs asleep
    hinting,      \* a watchdog has found no job: "hint" to send, then "closing"
    due,          \* immediate jobs asked for
    working,      \* what the job task sends next, or "idle"
    initialized,  \* MiningState
    subscribed, settled, \* history: the latest subscribe, and an authorize after it, returned Ok
    requests, built \* counters of the bounds

config == <<profile, common>>
assignment == <<next_extranonce, extranonce, recent>>
reading == <<handling, todo, wallet, authorized, subscribed, settled, requests>>
watching == <<watchdogs, hinting>>
jobbing == <<due, working, initialized, built>>
vars == <<writevars, config, assignment, reading, watching, jobbing, delivered>>

Msg(kind) == [kind |-> kind, extranonce |-> None]
MsgWith(kind, e) == [kind |-> kind, extranonce |-> e]

Init ==
    /\ WriteInit
    /\ \E k \in Kinds : profile = k[1] /\ common = k[2]
    /\ next_extranonce = 0 /\ extranonce = None /\ recent = <<>>
    /\ handling = "idle" /\ todo = <<>>
    /\ wallet = FALSE /\ authorized = FALSE /\ delivered = FALSE
    /\ watchdogs = 0 /\ hinting = "no"
    /\ due = 0 /\ working = "idle" /\ initialized = FALSE
    /\ subscribed = FALSE /\ settled = FALSE
    /\ requests = 0 /\ built = 0

-----------------------------------------------------------------------------
(* assign_extranonce_for_miner. *)

\* Fault: the counter wraps one value early.
increment_short(e) == IF e + 1 < MaxExtranonce THEN e + 1 ELSE 0

\* What fetch_update stores; the value before it is the one assigned.
increment(e) == IF e < MaxExtranonce THEN e + 1 ELSE 0

\* The latest assignments, as many as there are extranonces.
Issued(s, e) == IF Len(s) > MaxExtranonce THEN Append(Tail(s), e) ELSE Append(s, e)

\* Another connection may have subscribed since this one last did. A Bitmain miner
\* gets none if its extranonce is switched off.
assign_extranonce(another) ==
    LET before == IF another THEN Issued(recent, next_extranonce) ELSE recent
        next == IF another THEN increment(next_extranonce) ELSE next_extranonce
    IN \/ /\ extranonce' = next
          /\ next_extranonce' = increment(next)
          /\ recent' = Issued(before, next)
       \/ /\ profile = "bitmain"
          /\ extranonce' = None
          /\ next_extranonce' = next
          /\ recent' = before

-----------------------------------------------------------------------------
(* The frame handlers. *)

accept_frame(method) ==
    /\ handling = "idle" /\ ~disconnecting
    /\ requests < MaxRequests
    /\ requests' = requests + 1
    /\ handling' = method

\* The reply, which carries the extranonce for Bitmain; then, on a Kaspa Common
\* port, the extranonce and the difficulty; else the extranonce for IceRiver.
subscribe_script(e) ==
    <<MsgWith("subscribed", IF profile = "bitmain" THEN e ELSE None)>>
    \o (IF common THEN <<MsgWith("set_extranonce", e), Msg("set_difficulty")>>
        ELSE IF profile = "iceriver" /\ e # None THEN <<MsgWith("set_extranonce", e)>>
        ELSE <<>>)

handle_subscribe ==
    /\ accept_frame("subscribe")
    /\ \E another \in {FALSE, subscribed} : assign_extranonce(another)
    /\ todo' = subscribe_script(extranonce')
    /\ subscribed' = FALSE /\ settled' = FALSE
    /\ UNCHANGED <<writevars, config, wallet, authorized, watching, jobbing, delivered>>

handle_extranonce_subscribe ==
    /\ accept_frame("extranonce_subscribe")
    /\ todo' = <<Msg("confirmed")>>
    /\ UNCHANGED <<writevars, config, assignment, wallet, authorized, subscribed, settled,
                   watching, jobbing, delivered>>

\* Fault: every IceRiver-like and every plain miner is taken for one told before.
told_at_subscribe_any == TRUE

\* Miners that authorize sends no extranonce.
told_at_subscribe == profile \in {"bitmain", "iceriver", "icm"} \/ common

\* The wallet is set before the reply goes out. A wallet that is no address is
\* replaced by the pool's, so there is always one; a frame without parameters is
\* an error and changes nothing.
handle_authorize ==
    /\ accept_frame("authorize")
    /\ wallet' = TRUE
    /\ todo' = <<Msg("authorized")>>
               \o (IF extranonce # None /\ ~told_at_subscribe
                   THEN <<MsgWith("set_extranonce", extranonce)>> ELSE <<>>)
    /\ UNCHANGED <<writevars, config, assignment, authorized, subscribed, settled,
                   watching, jobbing, delivered>>

-----------------------------------------------------------------------------
(* A task that writes waits for its call to return. *)

call_step(w) ==
    /\ write_step(w)
    /\ UNCHANGED <<config, assignment, reading, watching, jobbing, delivered>>

reader_sends ==
    /\ todo # <<>>
    /\ send(Reader, Head(todo))
    /\ UNCHANGED <<config, assignment, reading, watching, jobbing, delivered>>

mark_authorized == authorized' = TRUE /\ delivered' = FALSE

\* The epoch starts once the authorize reply is out.
reader_continues ==
    /\ todo # <<>>
    /\ write_tail(Reader)
    /\ todo' = Tail(todo)
    /\ IF Head(todo).kind = "authorized" THEN mark_authorized ELSE UNCHANGED <<authorized, delivered>>
    /\ UNCHANGED <<config, assignment, handling, wallet, subscribed, settled, requests, watching, jobbing>>

\* The error is logged; neither a watchdog nor a job is started.
handler_fails ==
    /\ todo # <<>>
    /\ write_lost(Reader)
    /\ handling' = "idle" /\ todo' = <<>>
    /\ UNCHANGED <<config, assignment, wallet, authorized, subscribed, settled, requests,
                   watching, jobbing, delivered>>

\* Fault: a miner that has had a job is not watched again.
starts_watchdog_once == IF initialized THEN 0 ELSE 1

\* Watchdogs that an authorize starts.
starts_watchdog == 1

handler_ends ==
    /\ handling # "idle" /\ todo = <<>>
    /\ handling' = "idle"
    /\ subscribed' = (subscribed \/ handling = "subscribe")
    /\ settled' = (settled \/ (handling = "authorize" /\ subscribed))
    /\ IF handling = "authorize" THEN watchdogs' = watchdogs + starts_watchdog /\ due' = due + 1
       ELSE UNCHANGED <<watchdogs, due>>
    /\ UNCHANGED <<writevars, config, assignment, todo, wallet, authorized, requests, hinting,
                   working, initialized, built, delivered>>

-----------------------------------------------------------------------------
(* The job task, from the moment its job is built; how it comes to be built,   *)
(* and what may stop it before, is in JobBuild.                                *)

job_built ==
    /\ wallet
    /\ working = "idle" /\ ~disconnecting
    /\ built < MaxJobs
    /\ built' = built + 1
    /\ initialized' = TRUE

\* What send_immediate_job_to_client sends first.
immediate_leads == "set_difficulty"

immediate_built ==
    /\ due > 0
    /\ job_built
    /\ due' = due - 1
    /\ working' = immediate_leads
    /\ UNCHANGED <<writevars, config, assignment, reading, watching, delivered>>

\* Fault: new_block_available leaves the difficulty to the immediate job.
block_leads_notify == working' = "notify"

\* new_block_available sends the difficulty with its first job, and when vardiff
\* has moved; new_parent_available, which refreshes a job there is, never does.
block_leads ==
    \/ working' = "set_difficulty"
    \/ initialized /\ working' = "notify"

block_built ==
    /\ job_built
    /\ block_leads
    /\ UNCHANGED <<writevars, config, assignment, reading, watching, due, delivered>>

worker_sends ==
    /\ working # "idle"
    /\ send(Worker, Msg(working))
    /\ UNCHANGED <<config, assignment, reading, watching, jobbing, delivered>>

\* mark_job_sent follows a mining.notify.
worker_continues ==
    /\ working # "idle"
    /\ write_tail(Worker)
    /\ working' = IF working = "set_difficulty" THEN "notify" ELSE "idle"
    /\ delivered' = (delivered \/ working = "notify")
    /\ UNCHANGED <<config, assignment, reading, watching, due, initialized, built>>

\* A job is not sent after a difficulty that was not, and nothing is tried again.
worker_fails ==
    /\ working # "idle"
    /\ write_lost(Worker)
    /\ working' = "idle"
    /\ UNCHANGED <<config, assignment, reading, watching, due, initialized, built, delivered>>

-----------------------------------------------------------------------------
(* start_first_job_watchdog. *)

received_job == authorized /\ delivered

\* Thirty seconds after the authorize.
watchdog_wakes ==
    /\ watchdogs > 0 /\ hinting = "no"
    /\ watchdogs' = watchdogs - 1
    /\ hinting' = IF disconnecting \/ received_job THEN "no" ELSE IF Failover THEN "hint" ELSE "closing"
    /\ UNCHANGED <<writevars, config, assignment, reading, jobbing, delivered>>

watchdog_hints ==
    /\ hinting = "hint"
    /\ send(Watchdog, Msg("reconnect"))
    /\ UNCHANGED <<config, assignment, reading, watching, jobbing, delivered>>

\* The hint's fate does not matter: the socket is closed.
watchdog_hinted ==
    /\ hinting = "hint"
    /\ write_tail(Watchdog) \/ write_lost(Watchdog)
    /\ hinting' = "closing"
    /\ UNCHANGED <<config, assignment, reading, watchdogs, jobbing, delivered>>

watchdog_disconnects ==
    /\ hinting = "closing"
    /\ hinting' = "no"
    /\ IF disconnecting THEN UNCHANGED writevars ELSE disconnect
    /\ UNCHANGED <<config, assignment, reading, watchdogs, jobbing, delivered>>

\* The miner hangs up, the listener closes it, or check_disconnect's task runs.
hang_up ==
    /\ disconnect
    /\ UNCHANGED <<config, assignment, reading, watching, jobbing, delivered>>

finish_disconnect ==
    /\ disconnect_half
    /\ UNCHANGED <<config, assignment, reading, watching, jobbing, delivered>>

-----------------------------------------------------------------------------

handlers == reader_sends \/ reader_continues \/ handler_fails \/ handler_ends
work == worker_sends \/ worker_continues \/ worker_fails
watch == watchdog_wakes \/ watchdog_hints \/ watchdog_hinted \/ watchdog_disconnects

Next ==
    \/ handle_subscribe \/ handle_extranonce_subscribe \/ handle_authorize
    \/ handlers \/ work \/ watch \/ immediate_built \/ block_built
    \/ \E w \in Writers : call_step(w)
    \/ hang_up \/ finish_disconnect

Spec == Init /\ [][Next]_vars

\* The tasks are scheduled, timers fire, and a disconnect that has begun ends.
\* A miner need not send or hang up, and blocks need not come.
FairSpec ==
    /\ Spec
    /\ WF_vars(handlers) /\ WF_vars(work) /\ WF_vars(watch)
    /\ \A w \in Writers : WF_vars(call_step(w))
    /\ WF_vars(closing /\ hang_up) /\ WF_vars(finish_disconnect)

-----------------------------------------------------------------------------

TypeOK ==
    /\ WriteTypeOK
    /\ <<profile, common>> \in Kinds
    /\ next_extranonce \in Extranonces /\ extranonce \in Extranonces \union {None}
    /\ recent \in Seq(Extranonces)
    /\ handling \in {"idle", "subscribe", "extranonce_subscribe", "authorize"}
    /\ todo \in Seq(Messages)
    /\ {wallet, authorized, delivered, initialized, subscribed, settled} \subseteq BOOLEAN
    /\ watchdogs \in Nat /\ hinting \in {"no", "hint", "closing"} /\ due \in Nat
    /\ working \in {"idle", "set_difficulty", "notify"}
    /\ requests \in 0 .. MaxRequests /\ built \in 0 .. MaxJobs

\* As many consecutive assignments as there are extranonces give different ones,
\* across the wrap too: connections share one only when more are assigned while
\* the older is alive.
ExtranoncesDistinct ==
    \A i, j \in DOMAIN recent : i # j => recent[i] # recent[j]

\* Some line the miner could read.
Heard(m) == [msg |-> m, whole |-> TRUE] \in lines
HeardKind(kind) == \E l \in lines : l.msg.kind = kind

\* A miner whose subscribe and authorize were both carried out works with the
\* extranonce that its shares are checked against, wherever in the handshake its
\* kind is told: subscribe and authorize classify miners each on its own.
SettledKnowsExtranonce ==
    settled /\ ~stalled /\ extranonce # None
        => \E kind \in {"subscribed", "set_extranonce"} : Heard(MsgWith(kind, extranonce))

\* A miner is given a difficulty before its first job, whichever task sends it,
\* unless a message was lost to a busy lock or the connection is being closed.
DifficultyBeforeJob ==
    HeardKind("notify") => HeardKind("set_difficulty") \/ crowded \/ closing \/ disconnecting

\* An authorized miner that has no job has a watchdog, unless a busy lock made
\* the handler give up between the reply and the watchdog.
WorklessIsWatched ==
    authorized /\ ~delivered /\ handling = "idle" /\ ~disconnecting /\ ~closing
        => watchdogs > 0 \/ hinting # "no" \/ crowded

\* Whatever the socket and the other writers do, the read loop gets back to
\* reading.
HandlersEnd == handling # "idle" ~> handling = "idle"

\* The order the authorize handler's comment asks for: no job before the extranonce.
\* A block that arrives between the wallet and the extranonce breaks it.
JobAfterExtranonce ==
    HeardKind("notify") /\ extranonce # None /\ ~stalled
        => \E l \in lines : l.msg.extranonce # None
=============================================================================
