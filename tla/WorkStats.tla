----------------------------- MODULE WorkStats -----------------------------
(***************************************************************************)
(* The per-worker statistics of the share handler: the map from wallet and *)
(* worker name to a WorkStats entry, which connections of the same worker  *)
(* share and which outlives them, so that a miner that reconnects gets the *)
(* difficulty it had. Connections register and leave, jobs and shares use  *)
(* the entry, the vardiff thread adjusts it and the prune thread forgets   *)
(* it. An entry is a bundle of Arcs: who holds one keeps writing to it     *)
(* after the prune thread has taken it out of the map.                     *)
(***************************************************************************)
EXTENDS VarDiff

CONSTANTS
    Conns,          \* connections, each used once
    Ids,            \* the <<wallet, worker>> pairs miners authorize with
    NoId,           \* the pair of a connection before its first authorization
    Seed,           \* seed_for_port
    Ttl,            \* INACTIVE_VARDIFF_TTL
    MaxAge,         \* bound: age of an observation window that is told apart
    MaxShares,      \* bound: shares counted in one window
    MaxAuths        \* bound: authorizations in all

\* A reader that meets an authorization half done sees the wallet of one identity
\* and the worker of the other.
Keys == {<<i[1], j[2]>> : i \in Ids \union {NoId}, j \in Ids \union {NoId}}

ASSUME WorkStatsAssumption ==
    /\ IsFiniteSet(Conns) /\ NoId \notin Ids
    /\ \A i \in Ids \union {NoId} : i = <<i[1], i[2]>>
    /\ \A i \in Ids : i[1] # NoId[1]
    /\ Seed \in Nat /\ Ttl \in Nat \ {0} /\ MaxAge \in Nat \ {0}
    /\ MaxShares \in Nat /\ MaxAuths \in Nat

VARIABLES
    pc,         \* how far the connection's handler is
    ident,      \* wallet_addr and vardiff_worker_identity of the connection
    want,       \* the identity its authorization is about to set
    auths,      \* authorizations so far
    holds,      \* an activation under way holds the entry that is in the map
    assigned,   \* stratum_diff of the connection's mining state, 0 when unset
    stats,      \* the keys with an entry
    active,     \* active_connections
    min_diff,   \* the worker's difficulty, 0 when unset
    window,     \* age of the observation window, MaxAge + 1 when none was started
    found,      \* var_diff_shares_found
    idle,       \* age of last_session_activity
    raced,      \* history: keys an activation counted in an entry already pruned
    cached      \* history: difficulty when the last connection left, until a
                \* connection has opened a window of its own; 0 otherwise

conns == <<pc, ident, want, auths, holds, assigned>>
entries == <<stats, active, min_diff, window, found, idle>>
vars == <<conns, entries, raced, cached>>

NoWindow == MaxAge + 1
Registered == {"counted", "live"}
MidStep == {"mixed", "claimed", "counted"}

Init ==
    /\ pc = [c \in Conns |-> "off"] /\ ident = [c \in Conns |-> NoId]
    /\ want = [c \in Conns |-> NoId] /\ auths = 0
    /\ holds = [c \in Conns |-> FALSE] /\ assigned = [c \in Conns |-> 0]
    /\ stats = {} /\ active = [k \in Keys |-> 0] /\ min_diff = [k \in Keys |-> 0]
    /\ window = [k \in Keys |-> NoWindow] /\ found = [k \in Keys |-> 0]
    /\ idle = [k \in Keys |-> 0]
    /\ raced = {} /\ cached = [k \in Keys |-> 0]

-----------------------------------------------------------------------------
\* stats_key, read by a task of the connection at any point of an authorization.
stats_key(c) ==
    IF pc[c] = "mixed"
    THEN {<<want[c][1], ident[c][2]>>, <<ident[c][1], want[c][2]>>}
    ELSE {ident[c]}

\* The difficulty get_create_stats finds or gives to a new entry: the one of the
\* connection that asks for it.
created_diff(c, k) == IF k \in stats THEN min_diff[k] ELSE assigned[c]

\* get_create_stats for key k; the fields of an absent entry have the values of
\* WorkStats::new, but for the difficulty.
get_create_stats(c, k) ==
    /\ stats' = stats \union {k}
    /\ min_diff' = [min_diff EXCEPT ![k] = created_diff(c, k)]
    /\ idle' = [idle EXCEPT ![k] = IF k \in stats THEN @ ELSE 0]

\* on_connect.
Connect(c) ==
    /\ pc[c] = "off"
    /\ pc' = [pc EXCEPT ![c] = "open"]
    /\ UNCHANGED <<ident, want, auths, holds, assigned, entries, raced, cached>>

\* Fault: a connection that leaves without taking itself off the count.
deactivate_client_vardiff_kept(c) ==
    /\ idle' = [idle EXCEPT ![ident[c]] = IF ident[c] \in stats /\ pc[c] = "live" THEN 0 ELSE @]
    /\ UNCHANGED <<active, cached>>

\* deactivate_client_vardiff: only a registered connection, and only if its entry
\* is still there; the count saturates at zero.
deactivate_client_vardiff(c) ==
    LET k == ident[c]
        leaves == pc[c] = "live" /\ k \in stats
        left == IF active[k] = 0 THEN 0 ELSE active[k] - 1
    IN  /\ active' = IF leaves THEN [active EXCEPT ![k] = left] ELSE active
        /\ idle' = IF leaves THEN [idle EXCEPT ![k] = 0] ELSE idle
        /\ cached' = IF leaves /\ left = 0 THEN [cached EXCEPT ![k] = min_diff[k]] ELSE cached

\* Fault: an identity that changes under a connection that is still counted.
Authorize_in_place(c, id) ==
    /\ pc[c] \in {"open", "live"} /\ auths < MaxAuths
    /\ pc' = [pc EXCEPT ![c] = "mixed"]
    /\ want' = [want EXCEPT ![c] = id]
    /\ auths' = auths + 1
    /\ UNCHANGED <<ident, holds, assigned, entries, raced, cached>>

\* handle_authorize up to the wallet it sets: the connection first leaves the entry
\* of its earlier identity.
Authorize(c, id) ==
    /\ pc[c] \in {"open", "live"} /\ auths < MaxAuths
    /\ deactivate_client_vardiff(c)
    /\ pc' = [pc EXCEPT ![c] = "mixed"]
    /\ want' = [want EXCEPT ![c] = id]
    /\ auths' = auths + 1
    /\ UNCHANGED <<ident, holds, assigned, stats, min_diff, window, found, raced>>

\* The worker name is set, and activate_client_vardiff claims the registration and
\* gets the entry.
Claim(c) ==
    /\ pc[c] = "mixed"
    /\ pc' = [pc EXCEPT ![c] = "claimed"]
    /\ ident' = [ident EXCEPT ![c] = want[c]]
    /\ want' = [want EXCEPT ![c] = NoId]
    /\ holds' = [holds EXCEPT ![c] = TRUE]
    /\ get_create_stats(c, want[c])
    /\ UNCHANGED <<auths, assigned, active, window, found, raced, cached>>

\* It counts itself, in the entry it holds.
Count(c) ==
    /\ pc[c] = "claimed"
    /\ pc' = [pc EXCEPT ![c] = "counted"]
    /\ active' = IF holds[c] THEN [active EXCEPT ![ident[c]] = @ + 1] ELSE active
    /\ raced' = IF holds[c] THEN raced ELSE raced \union {ident[c]}
    /\ UNCHANGED <<ident, want, auths, holds, assigned, stats, min_diff, window, found, idle,
                   cached>>

\* And starts a window of its own: the time offline is no evidence.
Fresh(c) ==
    /\ pc[c] = "counted"
    /\ pc' = [pc EXCEPT ![c] = "live"]
    /\ holds' = [holds EXCEPT ![c] = FALSE]
    /\ IF holds[c]
       THEN /\ window' = [window EXCEPT ![ident[c]] = 0]
            /\ found' = [found EXCEPT ![ident[c]] = 0]
            /\ idle' = [idle EXCEPT ![ident[c]] = 0]
            /\ cached' = [cached EXCEPT ![ident[c]] = 0]
       ELSE UNCHANGED <<window, found, idle, cached>>
    /\ UNCHANGED <<ident, want, auths, assigned, stats, active, min_diff, raced>>

\* on_disconnect, after the read loop has ended.
Disconnect(c) ==
    /\ pc[c] \in {"open", "live"}
    /\ deactivate_client_vardiff(c)
    /\ pc' = [pc EXCEPT ![c] = "closing"]
    /\ UNCHANGED <<ident, want, auths, holds, assigned, stats, min_diff, window, found, raced>>

\* The tasks the connection has left behind are done and nothing refers to it.
Finish(c) ==
    /\ pc[c] = "closing"
    /\ pc' = [pc EXCEPT ![c] = "gone"]
    /\ ident' = [ident EXCEPT ![c] = NoId]
    /\ assigned' = [assigned EXCEPT ![c] = 0]
    /\ UNCHANGED <<want, auths, holds, entries, raced, cached>>

\* A task that has the connection: its job tasks and the late creation of its
\* entry may still run when it has gone.
Tasked(c) == pc[c] \notin {"off", "gone"}

\* start_client_vardiff: a window is started where there is none.
start_client_vardiff(k) == IF window[k] = NoWindow THEN 0 ELSE window[k]

\* register_client_vardiff: the difficulty the worker had, or the seed of the port.
\* It opens every job, and the connection takes it over with its first ones.
Job(c) ==
    /\ Tasked(c)
    /\ \E k \in stats_key(c) :
        LET diff == created_diff(c, k)
            restored == IF diff < MinDiff THEN (IF Seed > MinDiff THEN Seed ELSE MinDiff)
                        ELSE diff
        IN  /\ k[1] # NoId[1]
            /\ stats' = stats \union {k}
            /\ min_diff' = [min_diff EXCEPT ![k] = restored]
            /\ window' = [window EXCEPT ![k] = start_client_vardiff(k)]
            /\ idle' = [idle EXCEPT ![k] = 0]
            /\ assigned' = [assigned EXCEPT ![c] = restored]
    /\ UNCHANGED <<pc, ident, want, auths, holds, active, found, raced, cached>>

\* get_client_vardiff.
get_client_vardiff(c, k) == IF k \in stats THEN min_diff[k] ELSE assigned[c]

\* set_client_vardiff starts a window at a difficulty, and never makes an entry.
set_client_vardiff(k, diff) ==
    LET at(f, value) == IF k \in stats THEN [f EXCEPT ![k] = value] ELSE f
    IN  min_diff' = at(min_diff, diff) /\ window' = at(window, 0) /\ found' = at(found, 0)

\* A later job looks for a change of the worker's difficulty; an entry without one
\* gets the connection's.
Update(c) ==
    /\ Tasked(c) /\ assigned[c] > 0
    /\ \E k \in stats_key(c) :
        LET diff == get_client_vardiff(c, k)
        IN  IF diff = 0
            THEN set_client_vardiff(k, assigned[c]) /\ UNCHANGED assigned
            ELSE /\ assigned' = [assigned EXCEPT ![c] = diff]
                 /\ window' = IF diff # assigned[c] /\ k \in stats
                              THEN [window EXCEPT ![k] = start_client_vardiff(k)] ELSE window
                 /\ UNCHANGED <<min_diff, found>>
    /\ UNCHANGED <<pc, ident, want, auths, holds, stats, active, idle, raced, cached>>

\* A submission that is turned down, also before any authorization, or the creation
\* five seconds after the connection was made only makes sure of the entry.
Touch(c) ==
    /\ Tasked(c)
    /\ \E k \in stats_key(c) :
        /\ k[1] # NoId[1] \/ pc[c] = "open"
        /\ get_create_stats(c, k)
    /\ UNCHANGED <<conns, active, window, found, raced, cached>>

\* A valid share is counted in the window of the worker.
Share(c) ==
    LET k == ident[c]
    IN  /\ pc[c] = "live" /\ found[k] < MaxShares
        /\ get_create_stats(c, k)
        /\ found' = [found EXCEPT ![k] = @ + 1]
        /\ UNCHANGED <<conns, active, window, raced, cached>>

-----------------------------------------------------------------------------
\* Fault: a thread that does not ask for a connection.
adjustable_offline(k) == k \in stats /\ window[k] # NoWindow

\* The vardiff thread looks at the entries with a connection and a window.
adjustable(k) == k \in stats /\ active[k] > 0 /\ window[k] # NoWindow

\* One pass of the vardiff thread, under the lock of the map.
Adjust ==
    LET next == [k \in Keys |-> IF adjustable(k) THEN NextDiff(min_diff[k], found[k], window[k])
                                ELSE min_diff[k]]
        moved == {k \in Keys : next[k] # min_diff[k]}
    IN  /\ moved # {}
        /\ min_diff' = next
        /\ window' = [k \in Keys |-> IF k \in moved THEN 0 ELSE window[k]]
        /\ found' = [k \in Keys |-> IF k \in moved THEN 0 ELSE found[k]]
        /\ UNCHANGED <<conns, stats, active, idle, raced, cached>>

\* should_retain_vardiff_stats.
should_retain_vardiff_stats(k) == active[k] > 0 \/ idle[k] < Ttl

\* One pass of the prune thread, under the lock of the map: a connection between
\* Claim and Count is left with an entry nobody else can find.
Prune ==
    LET out == {k \in stats : ~ should_retain_vardiff_stats(k)}
        kept(f, new) == [k \in Keys |-> IF k \in out THEN new ELSE f[k]]
    IN  /\ out # {}
        /\ stats' = stats \ out
        /\ active' = kept(active, 0) /\ min_diff' = kept(min_diff, 0)
        /\ window' = kept(window, NoWindow) /\ found' = kept(found, 0)
        /\ idle' = kept(idle, 0) /\ cached' = kept(cached, 0)
        /\ holds' = [c \in Conns |-> holds[c] /\ ident[c] \notin out]
        /\ UNCHANGED <<pc, ident, want, auths, assigned, raced>>

\* Time passes. The statements of one handler run in less than the unit of time.
Elapse ==
    /\ \A c \in Conns : pc[c] \notin MidStep
    /\ window' = [k \in Keys |-> IF window[k] < MaxAge THEN window[k] + 1 ELSE window[k]]
    /\ idle' = [k \in Keys |-> IF k \in stats /\ idle[k] < Ttl THEN idle[k] + 1 ELSE idle[k]]
    /\ UNCHANGED <<conns, stats, active, min_diff, found, raced, cached>>

ConnStep(c) ==
    \/ Connect(c)
    \/ \E id \in Ids : Authorize(c, id)
    \/ Claim(c)
    \/ Count(c)
    \/ Fresh(c)
    \/ Disconnect(c)
    \/ Finish(c)
    \/ Job(c)
    \/ Update(c)
    \/ Touch(c)
    \/ Share(c)

Next ==
    \/ \E c \in Conns : ConnStep(c)
    \/ Adjust
    \/ Prune
    \/ Elapse

Spec == Init /\ [][Next]_vars

\* The clock runs and the interval of the prune thread keeps ticking.
FairSpec == Spec /\ WF_vars(Elapse) /\ WF_vars(Prune)

-----------------------------------------------------------------------------
\* Every variable has its type, and a difficulty is unset or at least the floor.
TypeOK ==
    /\ pc \in [Conns -> {"off", "open", "mixed", "claimed", "counted", "live", "closing", "gone"}]
    /\ ident \in [Conns -> Ids \union {NoId}] /\ want \in [Conns -> Ids \union {NoId}]
    /\ auths \in 0 .. MaxAuths /\ holds \in [Conns -> BOOLEAN]
    /\ assigned \in [Conns -> Nat] /\ stats \in SUBSET Keys
    /\ active \in [Keys -> Nat] /\ min_diff \in [Keys -> Nat]
    /\ window \in [Keys -> 0 .. NoWindow] /\ found \in [Keys -> 0 .. MaxShares]
    /\ idle \in [Keys -> 0 .. Ttl] /\ raced \in SUBSET Keys /\ cached \in [Keys -> Nat]
    /\ \A c \in Conns : assigned[c] = 0 \/ assigned[c] >= MinDiff
    /\ \A k \in Keys : min_diff[k] = 0 \/ min_diff[k] >= MinDiff

\* The connections counted under key k.
Counted(k) == {c \in Conns : pc[c] \in Registered /\ ident[c] = k}

\* activate_client_vardiff and deactivate_client_vardiff keep the count right
\* through re-authorizations and connections of the same worker: active_connections
\* is the number of the worker's registered connections, and while there is one its
\* entry is not pruned. The one exception is a worker whose entry was pruned between
\* the two steps of an activation.
CountIsExact ==
    \A k \in Keys \ raced :
        /\ active[k] = Cardinality(Counted(k))
        /\ Counted(k) # {} => k \in stats

\* "Offline time is not evidence that the assigned difficulty was too high": from
\* the moment the last connection of a worker left until one has opened a window
\* of its own, the cached difficulty comes down by one step at most, the one the
\* vardiff thread can take between the two steps of an activation.
CachedDifficultyKept ==
    \A k \in Keys : cached[k] # 0 => min_diff[k] >= Halved(cached[k])

\* The stricter reading of the comment: no step at all.
OfflineIsNoEvidence ==
    \A k \in Keys : cached[k] # 0 => min_diff[k] >= cached[k]

\* "active_stats_survive_ttl": the worker of a registered connection keeps its entry.
ActiveStatsSurvive ==
    \A c \in Conns : pc[c] = "live" => active[ident[c]] > 0

\* The prune thread forgets every worker once its connections are gone: no count
\* is left standing that would keep an entry for ever.
WorkersAreForgotten == (\A c \in Conns : pc[c] = "gone") ~> (stats = {})
=============================================================================
