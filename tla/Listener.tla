----------------------------- MODULE Listener -----------------------------
(***************************************************************************)
(* A stratum connection from accept to teardown: the accept loops and the  *)
(* per-connection read loop of stratum_listener.rs, the per-IP guard of    *)
(* anti_abuse.rs they share, and the client registry and session events of *)
(* client_handler.rs.                                                      *)
(*                                                                         *)
(* Every connection is a task of its own, each bound port has an accept    *)
(* loop, and one task per listener handles teardown notices. They meet in  *)
(* the guard's mutex: the caller reads the clock first and takes the lock  *)
(* afterwards, so the two are separate steps here. Tokens are counted in   *)
(* ticks of refill, of which a frame costs FrameCost.                      *)
(***************************************************************************)
EXTENDS Naturals, FiniteSets

CONSTANTS
    Conns,          \* TCP connections, each accepted once
    Ports,          \* bound ports, one accept loop each
    PortOf,         \* connection -> the port it arrives on
    Ips, IpOf,      \* source addresses; connection -> its address
    Reportable,     \* connections with a client name or a valid worker name
    MaxConnPerIp, MaxTrackedIps,
    FrameCost,      \* ticks that refill one frame: 1 / frame_rate_per_sec
    Burst,          \* frame_burst, in ticks of refill
    CanShutDown,    \* BOOLEAN: the operator may stop the server
    MaxLines,       \* bound: complete lines in one chunk read
    MaxFrames,      \* bound: frames one connection sends
    MaxClock        \* bound: ticks

ASSUME GuardAssumption ==
    /\ MaxConnPerIp \in Nat \ {0} /\ MaxTrackedIps \in Nat \ {0}
    /\ FrameCost \in Nat \ {0} /\ Burst \in Nat \ {0}
ASSUME WorldAssumption ==
    /\ IpOf \in [Conns -> Ips] /\ PortOf \in [Conns -> Ports]
    /\ Reportable \in SUBSET Conns /\ CanShutDown \in BOOLEAN
    /\ MaxLines \in Nat /\ MaxFrames \in Nat /\ MaxClock \in Nat
ASSUME FiniteAssumption == IsFiniteSet(Conns) /\ IsFiniteSet(Ips)

VARIABLES
    clock,
    tracked, conn_count, tokens, last_refill,   \* the guard's entries, by address
    phase,       \* connection -> where its task is
    stamp,       \* connection -> the time its task read before the guard's lock
    lines,       \* connection -> complete lines left in line_buffer
    sent,        \* connection -> frames it has sent
    up,          \* connection -> connected()
    id,          \* connection -> its client id; counter is client_counter
    counter,
    clients,     \* the registry ClientHandler::clients
    notices,     \* teardown notices not yet handled
    opened, closed,   \* connections with a SessionOpened; connection -> SessionClosed events
    listening,   \* ports whose accept loop runs
    reaping,     \* ports whose task for teardown notices runs
    stopping,    \* shutdown has been signalled
    swept,       \* disconnect_all has run
    since, spent, late  \* history of an entry: creation, ticks' worth of frames
                        \* admitted, and whether a frame came with an old stamp

guard == <<tracked, conn_count, tokens, last_refill, since, spent, late>>
task == <<phase, stamp, lines, sent>>
registry == <<id, counter, clients, notices, opened, closed>>
server == <<listening, reaping, stopping, swept>>
vars == <<clock, guard, task, up, registry, server>>

Init ==
    /\ clock = 0
    /\ tracked = {}
    /\ conn_count = [ip \in Ips |-> 0] /\ tokens = [ip \in Ips |-> 0]
    /\ last_refill = [ip \in Ips |-> 0]
    /\ since = [ip \in Ips |-> 0] /\ spent = [ip \in Ips |-> 0]
    /\ late = [ip \in Ips |-> FALSE]
    /\ phase = [c \in Conns |-> "new"] /\ stamp = [c \in Conns |-> 0]
    /\ lines = [c \in Conns |-> 0] /\ sent = [c \in Conns |-> 0]
    /\ up = [c \in Conns |-> TRUE]
    /\ id = [c \in Conns |-> 0] /\ counter = 0
    /\ clients = {} /\ notices = {}
    /\ opened = {} /\ closed = [c \in Conns |-> 0]
    /\ listening = Ports /\ reaping = Ports /\ stopping = FALSE /\ swept = FALSE

\* The task holds the connection's ticket.
Ticketed == {"open", "read", "frame", "handler", "closing", "ticket"}

Go(c, p) == phase' = [phase EXCEPT ![c] = p]

tick ==
    /\ clock < MaxClock
    /\ clock' = clock + 1
    /\ UNCHANGED <<guard, task, up, registry, server>>

-----------------------------------------------------------------------------
(* Accept. A loop accepts one connection at a time. *)

accept(c) ==
    /\ phase[c] = "new"
    /\ PortOf[c] \in listening
    /\ \A d \in Conns : PortOf[d] = PortOf[c] => phase[d] # "accepting"
    /\ stamp' = [stamp EXCEPT ![c] = clock]
    /\ Go(c, "accepting")
    /\ UNCHANGED <<clock, guard, lines, sent, up, registry, server>>

\* A PROXY header that is missing or wrong, or a health check: no session.
proxy_header_refused(c) ==
    /\ phase[c] = "new"
    /\ PortOf[c] \in listening
    /\ Go(c, "gone")
    /\ UNCHANGED <<clock, guard, stamp, lines, sent, up, registry, server>>

\* Fault: the cap is compared before the new connection is counted.
conn_cap_reached_off_by_one(ip) == conn_count[ip] > MaxConnPerIp

conn_cap_reached(ip) == conn_count[ip] >= MaxConnPerIp

ip_cap_reached(ip) == ip \notin tracked /\ Cardinality(tracked) >= MaxTrackedIps

\* A first connection creates the entry with a full bucket.
try_accept_connection(ip, now) ==
    /\ tracked' = tracked \union {ip}
    /\ conn_count' = [conn_count EXCEPT ![ip] = IF ip \in tracked THEN @ + 1 ELSE 1]
    /\ IF ip \in tracked
       THEN UNCHANGED <<tokens, last_refill, since, spent, late>>
       ELSE /\ tokens' = [tokens EXCEPT ![ip] = Burst]
            /\ last_refill' = [last_refill EXCEPT ![ip] = now]
            /\ since' = [since EXCEPT ![ip] = now]
            /\ spent' = [spent EXCEPT ![ip] = 0]
            /\ late' = [late EXCEPT ![ip] = FALSE]

admit(c) ==
    /\ phase[c] = "accepting"
    /\ ~ip_cap_reached(IpOf[c]) /\ ~(IpOf[c] \in tracked /\ conn_cap_reached(IpOf[c]))
    /\ try_accept_connection(IpOf[c], stamp[c])
    /\ counter' = counter + 1
    /\ id' = [id EXCEPT ![c] = counter]
    /\ clients' = clients \union {c}
    /\ Go(c, "open")
    /\ UNCHANGED <<clock, stamp, lines, sent, up, notices, opened, closed, server>>

refuse(c) ==
    /\ phase[c] = "accepting"
    /\ \/ ip_cap_reached(IpOf[c])
       \/ IpOf[c] \in tracked /\ conn_cap_reached(IpOf[c])
    /\ Go(c, "gone")
    /\ UNCHANGED <<clock, guard, stamp, lines, sent, up, registry, server>>

-----------------------------------------------------------------------------
(* The read loop. *)

disconnect(c) == up' = [up EXCEPT ![c] = FALSE]

\* Fault: the loop does not look at the connection's state.
begin_read_always(c) ==
    /\ phase[c] = "open" /\ lines[c] = 0
    /\ Go(c, "read")
    /\ UNCHANGED <<clock, guard, stamp, lines, sent, up, registry, server>>

\* Top of the loop, once the lines of the last chunk are used up.
begin_read(c) ==
    /\ phase[c] = "open" /\ lines[c] = 0
    /\ Go(c, IF up[c] THEN "read" ELSE "closing")
    /\ UNCHANGED <<clock, guard, stamp, lines, sent, up, registry, server>>

\* Data arrives, with some number of complete lines in it. The read half is out
\* of the context during the read, so this happens to a disconnected client too.
read_chunk(c) ==
    /\ phase[c] = "read"
    /\ \E n \in 0 .. MaxLines : lines' = [lines EXCEPT ![c] = n]
    /\ Go(c, "open")
    /\ UNCHANGED <<clock, guard, stamp, sent, up, registry, server>>

\* HTTP in the first message, or more than MAX_STRATUM_LINE_BYTES without an end
\* of line.
bad_chunk(c) ==
    /\ phase[c] = "read"
    /\ disconnect(c)
    /\ Go(c, "closing")
    /\ UNCHANGED <<clock, guard, stamp, lines, sent, registry, server>>

\* Five seconds without data.
read_timeout(c) ==
    /\ phase[c] = "read"
    /\ Go(c, "open")
    /\ UNCHANGED <<clock, guard, stamp, lines, sent, up, registry, server>>

\* End of file or a socket error.
read_ended(c) ==
    /\ phase[c] = "read"
    /\ Go(c, "closing")
    /\ UNCHANGED <<clock, guard, stamp, lines, sent, up, registry, server>>

\* Sixty seconds without data before the client has authorized.
idle_drop(c) ==
    /\ phase[c] = "read"
    /\ c \notin opened
    /\ Go(c, "closing")
    /\ UNCHANGED <<clock, guard, stamp, lines, sent, up, registry, server>>

\* An empty line is skipped.
empty_line(c) ==
    /\ phase[c] = "open" /\ lines[c] > 0
    /\ lines' = [lines EXCEPT ![c] = @ - 1]
    /\ UNCHANGED <<clock, guard, phase, stamp, sent, up, registry, server>>

http_line(c) ==
    /\ phase[c] = "open" /\ lines[c] > 0
    /\ disconnect(c)
    /\ lines' = [lines EXCEPT ![c] = 0]
    /\ UNCHANGED <<clock, guard, phase, stamp, sent, registry, server>>

next_frame(c) ==
    /\ phase[c] = "open" /\ lines[c] > 0
    /\ sent[c] < MaxFrames
    /\ lines' = [lines EXCEPT ![c] = @ - 1]
    /\ sent' = [sent EXCEPT ![c] = @ + 1]
    /\ stamp' = [stamp EXCEPT ![c] = clock]
    /\ Go(c, "frame")
    /\ UNCHANGED <<clock, guard, up, registry, server>>

Least(a, b) == IF a <= b THEN a ELSE b
\* saturating_duration_since: nothing for a stamp older than the last refill.
elapsed(ip, now) == IF now >= last_refill[ip] THEN now - last_refill[ip] ELSE 0
refilled(ip, now) == Least(tokens[ip] + elapsed(ip, now), Burst)

\* Fault: the refill is not dated.
refill_time_kept(ip, now) == last_refill[ip]

\* The time of the refill is overwritten whichever way time went.
refill_time(ip, now) == now

\* A frame that is over the limit disconnects the client.
try_consume_frame(c) ==
    LET ip == IpOf[c]
        now == stamp[c]
        granted == ip \in tracked /\ refilled(ip, now) >= FrameCost
    IN  /\ phase[c] = "frame"
        /\ IF ip \in tracked
           THEN /\ tokens' = [tokens EXCEPT ![ip] = IF granted THEN refilled(ip, now) - FrameCost
                                                               ELSE refilled(ip, now)]
                /\ last_refill' = [last_refill EXCEPT ![ip] = refill_time(ip, now)]
                /\ spent' = [spent EXCEPT ![ip] = IF granted THEN @ + FrameCost ELSE @]
                /\ late' = [late EXCEPT ![ip] = @ \/ now < last_refill[ip]]
           ELSE UNCHANGED <<tokens, last_refill, spent, late>>
        /\ IF granted THEN Go(c, "handler") /\ UNCHANGED <<lines, up>>
           ELSE /\ Go(c, "open")
                /\ lines' = [lines EXCEPT ![c] = 0]
                /\ disconnect(c)
        /\ UNCHANGED <<clock, tracked, conn_count, since, stamp, sent, registry, server>>

\* mining.authorize opens the session, once per connection.
authorize(c) ==
    /\ phase[c] = "handler"
    /\ opened' = opened \union {c}
    /\ Go(c, "open")
    /\ UNCHANGED <<clock, guard, stamp, lines, sent, up, id, counter, clients, notices, closed, server>>

\* Any other frame: another method, none that is known, or a line that does not
\* parse. None of them touches this state.
other_frame(c) ==
    /\ phase[c] = "handler"
    /\ Go(c, "open")
    /\ UNCHANGED <<clock, guard, stamp, lines, sent, up, registry, server>>

\* Other tasks disconnect a client: a failed write, the first-job watchdog, a rig
\* that mines on stale work.
drop_client(c) ==
    /\ phase[c] \in Ticketed /\ up[c]
    /\ disconnect(c)
    /\ UNCHANGED <<clock, guard, task, registry, server>>

-----------------------------------------------------------------------------
(* Teardown. *)

\* Fault: the disconnect handler is not told.
teardown_silent(c) ==
    /\ phase[c] = "closing"
    /\ disconnect(c)
    /\ Go(c, "ticket")
    /\ UNCHANGED <<clock, guard, stamp, lines, sent, registry, server>>

teardown(c) ==
    /\ phase[c] = "closing"
    /\ disconnect(c)
    /\ notices' = notices \union {c}
    /\ Go(c, "ticket")
    /\ UNCHANGED <<clock, guard, stamp, lines, sent, id, counter, clients, opened, closed, server>>

\* conn_count is decremented with saturation.
last_ticket(ip) == conn_count[ip] <= 1

\* ConnTicket::drop.
release(c) ==
    LET ip == IpOf[c] IN
    /\ phase[c] = "ticket"
    /\ IF ip \in tracked
       THEN /\ conn_count' = [conn_count EXCEPT ![ip] = IF @ > 0 THEN @ - 1 ELSE 0]
            /\ tracked' = IF last_ticket(ip) THEN tracked \ {ip} ELSE tracked
       ELSE UNCHANGED <<conn_count, tracked>>
    /\ Go(c, "gone")
    /\ UNCHANGED <<clock, tokens, last_refill, since, spent, late, stamp, lines, sent, up,
                   registry, server>>

\* Fault: ids are compared with the counter's first value and the next.
removable_above_one(c) == id[c] > 1

\* StratumContext::id hides the id 0, which the first client of the process has.
removable(c) == id[c] > 0

\* SessionClosed goes out only for a client that can be named.
on_disconnect(c) ==
    /\ PortOf[c] \in reaping
    /\ c \in notices
    /\ notices' = notices \ {c}
    /\ disconnect(c)
    /\ clients' = IF removable(c) THEN clients \ {c} ELSE clients
    /\ closed' = [closed EXCEPT ![c] = IF c \in Reportable THEN @ + 1 ELSE @]
    /\ UNCHANGED <<clock, guard, task, id, counter, opened, server>>

-----------------------------------------------------------------------------
(* Shutdown. Each task sees the signal in its own time. *)

shut_down ==
    /\ CanShutDown /\ ~stopping
    /\ stopping' = TRUE
    /\ UNCHANGED <<clock, guard, task, up, registry, listening, reaping, swept>>

stop_accepting(p) ==
    /\ stopping
    /\ p \in listening
    /\ \A c \in Conns : PortOf[c] = p => phase[c] # "accepting"
    /\ listening' = listening \ {p}
    /\ UNCHANGED <<clock, guard, task, up, registry, reaping, stopping, swept>>

\* The signal wins over a notice that is waiting.
stop_reaping(p) ==
    /\ stopping /\ p \in reaping
    /\ reaping' = reaping \ {p}
    /\ UNCHANGED <<clock, guard, task, up, registry, listening, stopping, swept>>

\* The first accept loop that ends makes the server disconnect everyone.
disconnect_all ==
    /\ listening # Ports
    /\ ~swept
    /\ swept' = TRUE
    /\ up' = [c \in Conns |-> up[c] /\ c \notin clients]
    /\ clients' = {}
    /\ UNCHANGED <<clock, guard, task, id, counter, notices, opened, closed, listening, reaping, stopping>>

-----------------------------------------------------------------------------

\* The task of one connection.
connection(c) ==
    \/ begin_read(c) \/ read_chunk(c) \/ bad_chunk(c) \/ read_timeout(c) \/ read_ended(c)
    \/ idle_drop(c) \/ empty_line(c) \/ http_line(c) \/ next_frame(c)
    \/ try_consume_frame(c) \/ authorize(c) \/ other_frame(c) \/ teardown(c) \/ release(c)

Next ==
    \/ tick
    \/ \E c \in Conns :
          \/ accept(c) \/ proxy_header_refused(c) \/ admit(c) \/ refuse(c)
          \/ connection(c) \/ drop_client(c) \/ on_disconnect(c)
    \/ shut_down \/ disconnect_all
    \/ \E p \in Ports : stop_accepting(p) \/ stop_reaping(p)

Spec == Init /\ [][Next]_vars

\* The runtime polls every task; a read ends within five seconds, a handler ends.
FairSpec ==
    Spec /\ \A c \in Conns : WF_vars(connection(c)) /\ WF_vars(on_disconnect(c))

-----------------------------------------------------------------------------
(* Properties. *)

Phases == {"new", "accepting", "open", "read", "frame", "handler", "closing", "ticket", "gone"}

\* Every variable has its type; no bucket holds more than the burst.
TypeOK ==
    /\ clock \in 0 .. MaxClock
    /\ tracked \in SUBSET Ips
    /\ conn_count \in [Ips -> Nat]
    /\ tokens \in [Ips -> 0 .. Burst]
    /\ last_refill \in [Ips -> 0 .. MaxClock]
    /\ since \in [Ips -> 0 .. MaxClock] /\ spent \in [Ips -> Nat] /\ late \in [Ips -> BOOLEAN]
    /\ phase \in [Conns -> Phases]
    /\ stamp \in [Conns -> 0 .. MaxClock]
    /\ lines \in [Conns -> 0 .. MaxLines] /\ sent \in [Conns -> 0 .. MaxFrames]
    /\ up \in [Conns -> BOOLEAN]
    /\ id \in [Conns -> Nat] /\ counter \in Nat
    /\ clients \in SUBSET Conns /\ notices \in SUBSET Conns
    /\ opened \in SUBSET Conns /\ closed \in [Conns -> Nat]
    /\ listening \in SUBSET Ports /\ reaping \in SUBSET Ports /\ stopping \in BOOLEAN /\ swept \in BOOLEAN

Holders(ip) == {c \in Conns : IpOf[c] = ip /\ phase[c] \in Ticketed}

\* "every accept gets exactly one ticket, every disconnect releases exactly one":
\* an address is tracked exactly while it has connections, its count is their
\* number, and neither cap is ever exceeded, on however many ports they race.
TicketsCounted ==
    /\ \A ip \in Ips :
          /\ ip \in tracked <=> Holders(ip) # {}
          /\ ip \in tracked => conn_count[ip] = Cardinality(Holders(ip))
          /\ Cardinality(Holders(ip)) <= MaxConnPerIp
    /\ Cardinality(tracked) <= MaxTrackedIps

\* The frame limit, from the creation of an address's entry: what was admitted is
\* at most the burst and what the time since then refills, provided no frame came
\* to the lock with a stamp older than the last refill.
RateHeld ==
    \A ip \in tracked : ~late[ip] => spent[ip] <= Burst + (clock - since[ip])

\* "Sustained allowed stratum frames per second per source IP, after the initial
\* burst is consumed": the same without the proviso.
FrameRateIsSustained ==
    \A ip \in tracked : spent[ip] <= Burst + (clock - since[ip])

Finished(c) == phase[c] = "gone" /\ c \notin notices

\* The registry holds no client whose teardown is complete, but for the one with
\* id 0 (and what a shutdown leaves).
NoGhostClients ==
    ~stopping => \A c \in clients : Finished(c) => id[c] = 0

\* A client that can be named and has opened a session has closed it once when its
\* teardown is complete, and no client closes a session twice.
NamedSessionsClose ==
    \A c \in Conns :
        /\ closed[c] <= 1
        /\ (c \in opened \intersect Reportable /\ Finished(c)) => closed[c] = 1

\* "The row is later finalized by the matching SessionClosed": a session that was
\* opened has been closed once the connection's task and its notice are done with,
\* or once nobody is left to handle the notice.
SessionsAreClosed ==
    \A c \in opened :
        (phase[c] = "gone" /\ (c \in notices => PortOf[c] \notin reaping)) => closed[c] = 1

\* A client that is told to disconnect gives its connection slot back, whatever
\* its task was doing.
DroppedClientsRelease ==
    \A c \in Conns : (phase[c] \in Ticketed /\ ~up[c]) ~> phase[c] = "gone"
=============================================================================
