-------------------------- MODULE ListenerProofs --------------------------
(***************************************************************************)
(* The per-IP guard, for any number of connections, ports and addresses:   *)
(* tickets are counted exactly and the caps hold, and the frame limit      *)
(* holds for an address none of whose frames came late to the lock. And    *)
(* the client registry: no ghosts, and sessions are closed once.           *)
(***************************************************************************)
EXTENDS Listener, FiniteSetTheorems, TLAPS

-----------------------------------------------------------------------------
(* Types. *)

\* What refilling a bucket gives is a bucket.
LEMMA RefilledType ==
    ASSUME TypeOK, NEW ip \in Ips, NEW now \in Nat
    PROVE  /\ refilled(ip, now) \in 0 .. Burst
           /\ now >= last_refill[ip] => refilled(ip, now) <= tokens[ip] + (now - last_refill[ip])
    BY GuardAssumption, WorldAssumption, SMT DEF TypeOK, refilled, elapsed, Least

\* Init establishes the types.
LEMMA InitTypes == ASSUME Init PROVE TypeOK
<1> USE GuardAssumption, WorldAssumption
<1>1. late \in [Ips -> BOOLEAN] /\ up \in [Conns -> BOOLEAN]
    BY Zenon DEF Init
<1>2. reaping \in SUBSET Ports /\ stopping \in BOOLEAN /\ swept \in BOOLEAN
    BY Zenon DEF Init
<1>3. phase \in [Conns -> Phases]
    BY Zenon DEF Init, Phases
<1>4. /\ clock \in 0 .. MaxClock /\ tracked \in SUBSET Ips /\ conn_count \in [Ips -> Nat]
      /\ tokens \in [Ips -> 0 .. Burst]
      /\ last_refill \in [Ips -> 0 .. MaxClock] /\ since \in [Ips -> 0 .. MaxClock]
      /\ spent \in [Ips -> Nat]
    BY SMT DEF Init
<1>5. /\ stamp \in [Conns -> 0 .. MaxClock] /\ lines \in [Conns -> 0 .. MaxLines]
      /\ sent \in [Conns -> 0 .. MaxFrames] /\ id \in [Conns -> Nat] /\ counter \in Nat
      /\ clients \in SUBSET Conns /\ notices \in SUBSET Conns /\ opened \in SUBSET Conns
      /\ closed \in [Conns -> Nat] /\ listening \in SUBSET Ports
    BY SMT DEF Init
<1> QED BY <1>1, <1>2, <1>3, <1>4, <1>5 DEF TypeOK

\* Every step of a connection's task, and every other step, keeps the types.
LEMMA StepTypes == ASSUME TypeOK, [Next]_vars PROVE TypeOK'
<1> USE WorldAssumption, GuardAssumption
<1>1. CASE tick
    BY <1>1, SMT DEF TypeOK, tick, guard, task, registry, server
<1>2. ASSUME NEW c \in Conns, accept(c) PROVE TypeOK'
    BY <1>2, SMT DEF TypeOK, accept, Go, guard, registry, server, Phases
<1>3. ASSUME NEW c \in Conns, proxy_header_refused(c) PROVE TypeOK'
    BY <1>3, SMT DEF TypeOK, proxy_header_refused, Go, guard, registry, server, Phases
<1>4. ASSUME NEW c \in Conns, admit(c) PROVE TypeOK'
  <2>1. IpOf[c] \in Ips /\ stamp[c] \in 0 .. MaxClock
    BY DEF TypeOK
  <2>2. /\ tracked' \in SUBSET Ips /\ conn_count' \in [Ips -> Nat] /\ tokens' \in [Ips -> 0 .. Burst]
        /\ last_refill' \in [Ips -> 0 .. MaxClock] /\ since' \in [Ips -> 0 .. MaxClock]
        /\ spent' \in [Ips -> Nat] /\ late' \in [Ips -> BOOLEAN]
    <3>1. tracked' \in SUBSET Ips
      BY <1>4, <2>1 DEF TypeOK, admit, try_accept_connection
    <3>2. conn_count' \in [Ips -> Nat]
      BY <1>4, <2>1 DEF TypeOK, admit, try_accept_connection
    <3>3. CASE IpOf[c] \in tracked
      BY <3>1, <3>2, <3>3, <1>4 DEF TypeOK, admit, try_accept_connection
    <3>4. CASE IpOf[c] \notin tracked
      <4>1. tokens' \in [Ips -> 0 .. Burst]
        BY <3>4, <1>4, <2>1, SMT DEF TypeOK, admit, try_accept_connection
      <4>2. last_refill' \in [Ips -> 0 .. MaxClock] /\ since' \in [Ips -> 0 .. MaxClock]
        BY <3>4, <1>4, <2>1, SMT DEF TypeOK, admit, try_accept_connection
      <4>3. spent' \in [Ips -> Nat]
        BY <3>4, <1>4, <2>1, SMT DEF TypeOK, admit, try_accept_connection
      <4>4. late' \in [Ips -> BOOLEAN]
        BY <3>4, <1>4, <2>1, Zenon DEF TypeOK, admit, try_accept_connection
      <4> QED BY <3>1, <3>2, <4>1, <4>2, <4>3, <4>4
    <3> QED BY <3>3, <3>4
  <2>3. /\ phase' \in [Conns -> Phases] /\ id' \in [Conns -> Nat] /\ counter' \in Nat
        /\ clients' \in SUBSET Conns
    BY <1>4, SMT DEF TypeOK, admit, Go, Phases
  <2> QED BY <1>4, <2>2, <2>3 DEF TypeOK, admit, server
<1>5. ASSUME NEW c \in Conns, refuse(c) PROVE TypeOK'
    BY <1>5, SMT DEF TypeOK, refuse, Go, guard, registry, server, Phases
<1>6. ASSUME NEW c \in Conns, connection(c) PROVE TypeOK'
  <2>1. CASE begin_read(c) \/ read_timeout(c) \/ read_ended(c) \/ idle_drop(c) \/ other_frame(c)
    BY <2>1, SMT DEF TypeOK, begin_read, read_timeout, read_ended, idle_drop, other_frame, Go,
        guard, registry, server, Phases
  <2>2. CASE read_chunk(c)
    BY <2>2, SMT DEF TypeOK, read_chunk, Go, guard, registry, server, Phases
  <2>3. CASE bad_chunk(c)
    BY <2>3, SMT DEF TypeOK, bad_chunk, disconnect, Go, guard, registry, server, Phases
  <2>4. CASE empty_line(c) \/ http_line(c)
    <3>1. lines' \in [Conns -> 0 .. MaxLines]
      BY <2>4, SMT DEF TypeOK, empty_line, http_line
    <3>2. up' \in [Conns -> BOOLEAN]
      BY <2>4, Zenon DEF TypeOK, empty_line, http_line, disconnect
    <3> QED BY <2>4, <3>1, <3>2 DEF TypeOK, empty_line, http_line, guard, registry, server
  <2>5. CASE next_frame(c)
    BY <2>5, SMT DEF TypeOK, next_frame, Go, guard, registry, server, Phases
  <2>6. CASE try_consume_frame(c)
    <3>1. IpOf[c] \in Ips /\ stamp[c] \in 0 .. MaxClock /\ stamp[c] \in Nat
      BY DEF TypeOK
    <3>2. refilled(IpOf[c], stamp[c]) \in 0 .. Burst
      BY <3>1, RefilledType
    <3> DEFINE level == refilled(IpOf[c], stamp[c])
    <3>a. level \in 0 .. Burst
      BY <3>2
    <3>d. ASSUME IpOf[c] \in tracked
          PROVE  /\ tokens' \in [Ips -> 0 .. Burst] /\ last_refill' \in [Ips -> 0 .. MaxClock]
                 /\ spent' \in [Ips -> Nat] /\ late' \in [Ips -> BOOLEAN]
      <4>1. tokens' = [tokens EXCEPT ![IpOf[c]] = IF IpOf[c] \in tracked /\ level >= FrameCost
                                                   THEN level - FrameCost ELSE level]
        BY <3>d, <2>6 DEF try_consume_frame
      <4>2. spent' = [spent EXCEPT ![IpOf[c]] = IF IpOf[c] \in tracked /\ level >= FrameCost
                                                THEN @ + FrameCost ELSE @]
        BY <3>d, <2>6 DEF try_consume_frame
      <4>3. last_refill' \in [Ips -> 0 .. MaxClock]
        BY <3>d, <2>6, <3>1 DEF TypeOK, try_consume_frame, refill_time
      <4>4. late' \in [Ips -> BOOLEAN]
        <5>1. late' = [late EXCEPT ![IpOf[c]] = @ \/ stamp[c] < last_refill[IpOf[c]]]
          BY <3>d, <2>6 DEF try_consume_frame
        <5>2. (late[IpOf[c]] \/ stamp[c] < last_refill[IpOf[c]]) \in BOOLEAN
          OBVIOUS
        <5> QED BY <5>1, <5>2, <3>1, Zenon DEF TypeOK
      <4> HIDE DEF level
      <4>5. tokens' \in [Ips -> 0 .. Burst]
        BY <4>1, <3>a, <3>1, SMT DEF TypeOK
      <4>6. spent' \in [Ips -> Nat]
        BY <4>2, <3>1, SMT DEF TypeOK
      <4> QED BY <4>3, <4>4, <4>5, <4>6
    <3>4. /\ tokens' \in [Ips -> 0 .. Burst] /\ last_refill' \in [Ips -> 0 .. MaxClock]
          /\ spent' \in [Ips -> Nat] /\ late' \in [Ips -> BOOLEAN]
      BY <3>d, <2>6 DEF TypeOK, try_consume_frame
    <3>5. /\ phase' \in [Conns -> Phases] /\ up' \in [Conns -> BOOLEAN]
          /\ lines' \in [Conns -> 0 .. MaxLines]
      <4>1. \/ Go(c, "handler") /\ UNCHANGED <<lines, up>>
            \/ Go(c, "open") /\ lines' = [lines EXCEPT ![c] = 0] /\ disconnect(c)
        BY <2>6, Zenon DEF try_consume_frame
      <4>2. phase' \in [Conns -> Phases]
        BY <4>1, SMT DEF TypeOK, Go, Phases
      <4>3. up' \in [Conns -> BOOLEAN]
        BY <4>1, Zenon DEF TypeOK, disconnect
      <4>4. lines' \in [Conns -> 0 .. MaxLines]
        BY <4>1, SMT DEF TypeOK
      <4> QED BY <4>2, <4>3, <4>4
    <3> QED BY <2>6, <3>4, <3>5 DEF TypeOK, try_consume_frame, registry, server
  <2>7. CASE authorize(c)
    BY <2>7, SMT DEF TypeOK, authorize, Go, guard, server, Phases
  <2>8. CASE teardown(c)
    BY <2>8, SMT DEF TypeOK, teardown, disconnect, Go, guard, server, Phases
  <2>9. CASE release(c)
    BY <2>9, SMT DEF TypeOK, release, Go, registry, server, Phases
  <2> QED BY <1>6, <2>1, <2>2, <2>3, <2>4, <2>5, <2>6, <2>7, <2>8, <2>9 DEF connection
<1>7. ASSUME NEW c \in Conns, drop_client(c) PROVE TypeOK'
    BY <1>7, SMT DEF TypeOK, drop_client, disconnect, guard, task, registry, server
<1>8. ASSUME NEW c \in Conns, on_disconnect(c) PROVE TypeOK'
    BY <1>8, SMT DEF TypeOK, on_disconnect, disconnect, guard, task, server
<1>9. CASE shut_down \/ \E p \in Ports : stop_accepting(p) \/ stop_reaping(p)
  <2>1. /\ listening' \in SUBSET Ports /\ reaping' \in SUBSET Ports /\ stopping' \in BOOLEAN
        /\ UNCHANGED swept
    BY <1>9, Zenon DEF TypeOK, shut_down, stop_reaping, stop_accepting
  <2>2. UNCHANGED <<clock, guard, task, up, registry>>
    BY <1>9, Zenon DEF shut_down, stop_reaping, stop_accepting
  <2> QED BY <2>1, <2>2 DEF TypeOK, guard, task, registry
<1>10. CASE disconnect_all
    BY <1>10, SMT DEF TypeOK, disconnect_all, guard, task
<1>11. CASE UNCHANGED vars
    BY <1>11 DEF TypeOK, vars, guard, task, registry, server
<1> QED BY <1>1, <1>2, <1>3, <1>4, <1>5, <1>6, <1>7, <1>8, <1>9, <1>10, <1>11 DEF Next

\* Every variable keeps its type; in particular no bucket ever overflows.
THEOREM TypeCorrect == Spec => []TypeOK
    BY InitTypes, StepTypes, PTL DEF Spec

-----------------------------------------------------------------------------
(* Tickets. Only admit and release change who holds one, and only they change *)
(* the counts.                                                                *)

SameTickets ==
    /\ \A d \in Conns : phase'[d] \in Ticketed <=> phase[d] \in Ticketed
    /\ UNCHANGED <<tracked, conn_count>>

\* The set of holders of an address is finite.
LEMMA HoldersFinite == ASSUME NEW ip PROVE IsFiniteSet(Holders(ip)) /\ Cardinality(Holders(ip)) \in Nat
<1>1. Holders(ip) \subseteq Conns
    BY DEF Holders
<1> QED BY <1>1, FiniteAssumption, FS_Subset, FS_CardinalityType

\* A step that moves no ticket keeps the count.
LEMMA SameTicketsKeep == ASSUME TicketsCounted, SameTickets PROVE TicketsCounted'
<1>1. ASSUME NEW ip PROVE Holders(ip)' = Holders(ip)
    BY DEF Holders, SameTickets
<1> QED BY <1>1 DEF TicketsCounted, SameTickets

\* Every action but admit and release moves no ticket.
LEMMA OtherSteps ==
    ASSUME TypeOK, [Next]_vars
    PROVE  SameTickets \/ \E c \in Conns : admit(c) \/ release(c)
<1> USE DEF SameTickets, Ticketed
<1>1. ASSUME NEW c \in Conns, accept(c) \/ proxy_header_refused(c) \/ refuse(c) PROVE SameTickets
    BY <1>1, SMT DEF TypeOK, accept, proxy_header_refused, refuse, Go, guard
<1>2. ASSUME NEW c \in Conns, begin_read(c) \/ read_chunk(c) \/ bad_chunk(c) \/ read_timeout(c)
             \/ read_ended(c) \/ idle_drop(c) PROVE SameTickets
    BY <1>2, SMT DEF TypeOK, begin_read, read_chunk, bad_chunk, read_timeout, read_ended, idle_drop,
        Go, guard
<1>3. ASSUME NEW c \in Conns, empty_line(c) \/ http_line(c) \/ next_frame(c) PROVE SameTickets
    BY <1>3, SMT DEF TypeOK, empty_line, http_line, next_frame, Go, guard
<1>4. ASSUME NEW c \in Conns, try_consume_frame(c) PROVE SameTickets
  <2>1. phase[c] = "frame" /\ UNCHANGED <<tracked, conn_count>> /\ (Go(c, "handler") \/ Go(c, "open"))
    BY <1>4, Zenon DEF try_consume_frame
  <2> QED BY <2>1, SMT DEF TypeOK, Go
<1>5. ASSUME NEW c \in Conns, authorize(c) \/ other_frame(c) \/ teardown(c) PROVE SameTickets
    BY <1>5, SMT DEF TypeOK, authorize, other_frame, teardown, Go, guard
<1>6. ASSUME NEW c \in Conns, drop_client(c) \/ on_disconnect(c) PROVE SameTickets
    BY <1>6 DEF drop_client, on_disconnect, guard, task
<1>7. CASE tick \/ shut_down \/ disconnect_all \/ \E p \in Ports : stop_accepting(p) \/ stop_reaping(p)
    BY <1>7, Zenon DEF tick, shut_down, stop_reaping, disconnect_all, stop_accepting, guard, task
<1>8. CASE UNCHANGED vars
    BY <1>8 DEF vars, guard, task
<1> QED BY <1>1, <1>2, <1>3, <1>4, <1>5, <1>6, <1>7, <1>8, Zenon DEF Next, connection

\* A connection that is admitted holds one more ticket.
LEMMA AdmitKeeps ==
    ASSUME TypeOK, TicketsCounted, NEW c \in Conns, admit(c)
    PROVE  TicketsCounted'
<1> DEFINE ip == IpOf[c]
<1>1. ip \in Ips
    BY WorldAssumption
<1>2. /\ c \notin Holders(ip)
      /\ Holders(ip)' = Holders(ip) \union {c}
      /\ \A j \in Ips : j # ip => Holders(j)' = Holders(j)
    BY SMT DEF admit, Go, Holders, Ticketed, TypeOK
<1>3. Cardinality(Holders(ip)') = Cardinality(Holders(ip)) + 1
    BY <1>2, HoldersFinite, FS_AddElement
<1>4. /\ tracked' = tracked \union {ip}
      /\ conn_count'[ip] = IF ip \in tracked THEN conn_count[ip] + 1 ELSE 1
      /\ \A j \in Ips : j # ip => conn_count'[j] = conn_count[j]
      /\ ip \in tracked => conn_count[ip] < MaxConnPerIp
      /\ ip \notin tracked => Cardinality(tracked) < MaxTrackedIps
  <2>1. IsFiniteSet(tracked) /\ Cardinality(tracked) \in Nat
    BY FiniteAssumption, FS_Subset, FS_CardinalityType DEF TypeOK
  <2> QED BY <1>1, <2>1, GuardAssumption DEF admit, try_accept_connection, ip_cap_reached, conn_cap_reached, TypeOK
<1>5. ip \notin tracked => Cardinality(Holders(ip)) = 0
    BY <1>1, FS_EmptySet DEF TicketsCounted
<1>6. Cardinality(tracked') <= MaxTrackedIps
  <2>1. IsFiniteSet(tracked) /\ Cardinality(tracked) \in Nat
    BY FiniteAssumption, FS_Subset, FS_CardinalityType DEF TypeOK
  <2>2. CASE ip \in tracked
    <3>1. tracked' = tracked
      BY <1>4, <2>2
    <3> QED BY <3>1 DEF TicketsCounted
  <2>3. CASE ip \notin tracked
    <3>1. Cardinality(tracked') = Cardinality(tracked) + 1
      BY <2>1, <2>3, <1>4, FS_AddElement
    <3> QED BY <3>1, <2>1, <2>3, <1>4, GuardAssumption
  <2> QED BY <2>2, <2>3
<1>7. /\ ip \in tracked' /\ Holders(ip)' # {}
      /\ conn_count'[ip] = Cardinality(Holders(ip)')
      /\ Cardinality(Holders(ip)') <= MaxConnPerIp
  <2>1. Cardinality(Holders(ip)) \in Nat
    BY HoldersFinite
  <2>2. ip \in tracked => conn_count[ip] = Cardinality(Holders(ip))
    BY <1>1 DEF TicketsCounted
  <2> QED BY <1>2, <1>3, <1>4, <1>5, <2>1, <2>2, GuardAssumption
<1> HIDE DEF ip
<1>8. ASSUME NEW j \in Ips, j # ip
      PROVE  /\ j \in tracked' <=> Holders(j)' # {}
             /\ j \in tracked' => conn_count'[j] = Cardinality(Holders(j)')
             /\ Cardinality(Holders(j)') <= MaxConnPerIp
    BY <1>2, <1>4, <1>8 DEF TicketsCounted
<1> QED BY <1>6, <1>7, <1>8 DEF TicketsCounted

\* The last connection of an address takes the entry with it.
LEMMA ReleaseKeeps ==
    ASSUME TypeOK, TicketsCounted, NEW c \in Conns, release(c)
    PROVE  TicketsCounted'
<1> DEFINE ip == IpOf[c]
<1>1. ip \in Ips
    BY WorldAssumption
<1>2. /\ c \in Holders(ip)
      /\ Holders(ip)' = Holders(ip) \ {c}
      /\ \A j \in Ips : j # ip => Holders(j)' = Holders(j)
    BY SMT DEF release, Go, Holders, Ticketed, TypeOK
<1>3. Cardinality(Holders(ip)') = Cardinality(Holders(ip)) - 1 /\ Cardinality(Holders(ip)) \in Nat
    BY <1>2, HoldersFinite, FS_RemoveElement
<1>4. ip \in tracked /\ conn_count[ip] = Cardinality(Holders(ip))
    BY <1>1, <1>2 DEF TicketsCounted
<1>5. Cardinality(Holders(ip)) # 0
    BY <1>2, HoldersFinite, FS_EmptySet
<1>6. Cardinality(Holders(ip)') = 0 <=> Holders(ip)' = {}
  <2>1. IsFiniteSet(Holders(ip)')
    BY <1>2, HoldersFinite, FS_RemoveElement
  <2> QED BY <2>1, FS_EmptySet
<1>7. /\ conn_count'[ip] = conn_count[ip] - 1
      /\ \A j \in Ips : j # ip => conn_count'[j] = conn_count[j]
      /\ tracked' = IF conn_count[ip] <= 1 THEN tracked \ {ip} ELSE tracked
    BY <1>1, <1>3, <1>4, <1>5, SMT DEF release, last_ticket, TypeOK
<1>8. /\ ip \in tracked' <=> Holders(ip)' # {}
      /\ ip \in tracked' => conn_count'[ip] = Cardinality(Holders(ip)')
      /\ Cardinality(Holders(ip)') <= MaxConnPerIp
  <2>1. Cardinality(Holders(ip)) <= MaxConnPerIp
    BY <1>1 DEF TicketsCounted
  <2> HIDE DEF ip
  <2> QED BY <2>1, <1>3, <1>4, <1>5, <1>6, <1>7, GuardAssumption, SMT
<1>9. Cardinality(tracked') <= MaxTrackedIps
  <2>1. IsFiniteSet(tracked) /\ Cardinality(tracked) \in Nat /\ tracked' \subseteq tracked
    BY <1>7, FiniteAssumption, FS_Subset, FS_CardinalityType DEF TypeOK
  <2>2. Cardinality(tracked') <= Cardinality(tracked) /\ IsFiniteSet(tracked')
    BY <2>1, FS_Subset
  <2>3. Cardinality(tracked') \in Nat
    BY <2>2, FS_CardinalityType
  <2> QED BY <2>1, <2>2, <2>3, GuardAssumption DEF TicketsCounted
<1> HIDE DEF ip
<1>10. ASSUME NEW j \in Ips, j # ip
       PROVE  /\ j \in tracked' <=> Holders(j)' # {}
              /\ j \in tracked' => conn_count'[j] = Cardinality(Holders(j)')
              /\ Cardinality(Holders(j)') <= MaxConnPerIp
    BY <1>2, <1>7, <1>10 DEF TicketsCounted
<1> QED BY <1>8, <1>9, <1>10 DEF TicketsCounted

\* The guard counts the connections of each address exactly, forgets an address
\* with its last connection, and exceeds neither cap (try_accept_connection and
\* ConnTicket::drop, whichever accept loops and tasks race).
THEOREM TicketsCorrect == Spec => []TicketsCounted
<1>1. Init => TicketsCounted
  <2> SUFFICES ASSUME Init PROVE TicketsCounted
    OBVIOUS
  <2>1. \A ip \in Ips : Holders(ip) = {}
    BY DEF Init, Holders, Ticketed
  <2> QED BY <2>1, FS_EmptySet, GuardAssumption DEF Init, TicketsCounted
<1>2. TypeOK /\ TicketsCounted /\ [Next]_vars => TicketsCounted'
    BY OtherSteps, SameTicketsKeep, AdmitKeeps, ReleaseKeeps
<1> QED BY <1>1, <1>2, TypeCorrect, PTL DEF Spec

-----------------------------------------------------------------------------
(* The frame limit. RateHeld is not inductive: it says nothing of the tokens  *)
(* that are left. What is conserved is what was admitted together with what   *)
(* is left, against the time of the last refill.                              *)

Conserved(ip) ==
    /\ since[ip] <= last_refill[ip] /\ last_refill[ip] <= clock
    /\ spent[ip] + tokens[ip] <= Burst + (last_refill[ip] - since[ip])

RateInv ==
    /\ \A c \in Conns : stamp[c] <= clock
    /\ \A ip \in tracked : ~late[ip] => Conserved(ip)

\* Conservation bounds what was admitted.
LEMMA ConservedBounds == ASSUME TypeOK, RateInv PROVE RateHeld
<1> SUFFICES ASSUME NEW ip \in tracked, ~late[ip] PROVE spent[ip] <= Burst + (clock - since[ip])
    BY DEF RateHeld
<1>1. Conserved(ip) /\ ip \in Ips
    BY DEF RateInv, TypeOK
<1> QED BY <1>1, GuardAssumption, WorldAssumption, SMT DEF Conserved, TypeOK

\* A step that leaves the guard and the stamps alone keeps conservation: time
\* does not go back.
LEMMA IdleKeeps ==
    ASSUME TypeOK, TypeOK', RateInv, UNCHANGED guard, clock <= clock',
           \A c \in Conns : stamp'[c] = stamp[c] \/ stamp'[c] <= clock'
    PROVE  RateInv'
<1>1. ASSUME NEW c \in Conns PROVE stamp'[c] <= clock'
    BY WorldAssumption, SMT DEF RateInv, TypeOK
<1>2. ASSUME NEW ip \in tracked', ~late'[ip] PROVE Conserved(ip)'
  <2>1. Conserved(ip) /\ ip \in Ips
    BY <1>2 DEF RateInv, guard, TypeOK
  <2> QED BY <2>1, WorldAssumption, SMT DEF Conserved, guard, TypeOK
<1> QED BY <1>1, <1>2 DEF RateInv

\* An entry starts with the burst and nothing admitted.
LEMMA AdmitRate ==
    ASSUME TypeOK, RateInv, NEW c \in Conns, admit(c)
    PROVE  RateInv'
<1>1. /\ IpOf[c] \in Ips /\ stamp[c] <= clock /\ stamp[c] \in Nat /\ clock \in Nat
      /\ UNCHANGED <<clock, stamp>> /\ tracked' = tracked \union {IpOf[c]}
  <2>1. UNCHANGED <<clock, stamp>> /\ tracked' = tracked \union {IpOf[c]}
    BY DEF admit, try_accept_connection
  <2> QED BY <2>1, WorldAssumption, SMT DEF TypeOK, RateInv
<1>2. CASE IpOf[c] \in tracked
  <2>1. UNCHANGED <<tracked, tokens, last_refill, since, spent, late>>
    BY <1>1, <1>2 DEF admit, try_accept_connection
  <2> QED BY <1>1, <2>1 DEF RateInv, Conserved
<1>3. CASE IpOf[c] \notin tracked
  <2>1. /\ tokens' = [tokens EXCEPT ![IpOf[c]] = Burst]
        /\ last_refill' = [last_refill EXCEPT ![IpOf[c]] = stamp[c]]
        /\ since' = [since EXCEPT ![IpOf[c]] = stamp[c]]
        /\ spent' = [spent EXCEPT ![IpOf[c]] = 0]
        /\ late' = [late EXCEPT ![IpOf[c]] = FALSE]
    BY <1>3 DEF admit, try_accept_connection
  <2>2. Conserved(IpOf[c])'
    BY <1>1, <2>1, GuardAssumption, SMT DEF Conserved, TypeOK
  <2>3. ASSUME NEW ip \in tracked, ~late'[ip] PROVE Conserved(ip)'
    <3>1. ip \in Ips /\ ip # IpOf[c]
      BY <1>3 DEF TypeOK
    <3>2. ~late[ip]
      BY <2>1, <2>3, <3>1 DEF TypeOK
    <3>3. Conserved(ip)
      BY <3>2 DEF RateInv
    <3> QED BY <1>1, <2>1, <3>1, <3>3 DEF Conserved, TypeOK
  <2> QED BY <1>1, <2>2, <2>3 DEF RateInv
<1> QED BY <1>2, <1>3

\* A frame that is not late moves tokens to what was admitted, and refills no
\* more than the time that has passed.
LEMMA ConsumeRate ==
    ASSUME TypeOK, RateInv, NEW c \in Conns, try_consume_frame(c)
    PROVE  RateInv'
<1> DEFINE level == refilled(IpOf[c], stamp[c])
           grant == IpOf[c] \in tracked /\ level >= FrameCost
<1>1. /\ IpOf[c] \in Ips /\ stamp[c] <= clock /\ stamp[c] \in Nat /\ clock \in Nat
      /\ UNCHANGED <<clock, stamp, tracked, since>>
    BY WorldAssumption DEF TypeOK, RateInv, try_consume_frame
<1>2. CASE IpOf[c] \notin tracked
    BY <1>1, <1>2 DEF try_consume_frame, RateInv, Conserved
<1>3. CASE IpOf[c] \in tracked
  <2>1. /\ tokens' = [tokens EXCEPT ![IpOf[c]] = IF grant THEN level - FrameCost ELSE level]
        /\ last_refill' = [last_refill EXCEPT ![IpOf[c]] = stamp[c]]
        /\ spent' = [spent EXCEPT ![IpOf[c]] = IF grant THEN @ + FrameCost ELSE @]
        /\ late' = [late EXCEPT ![IpOf[c]] = @ \/ stamp[c] < last_refill[IpOf[c]]]
    BY <1>3 DEF try_consume_frame, refill_time
  <2>2. /\ level \in 0 .. Burst
        /\ stamp[c] >= last_refill[IpOf[c]] =>
              level <= tokens[IpOf[c]] + (stamp[c] - last_refill[IpOf[c]])
    BY <1>1, RefilledType
  <2>3. ASSUME ~late'[IpOf[c]] PROVE Conserved(IpOf[c])'
    <3>1. ~late[IpOf[c]] /\ ~(stamp[c] < last_refill[IpOf[c]])
      BY <1>1, <2>1, <2>3, Zenon DEF TypeOK
    <3>2. Conserved(IpOf[c])
      BY <1>3, <3>1 DEF RateInv
    <3>3. tokens'[IpOf[c]] + spent'[IpOf[c]] = level + spent[IpOf[c]]
      <4> HIDE DEF level, grant
      <4> QED BY <1>1, <2>1, <2>2, GuardAssumption, SMT DEF TypeOK
    <3>4. last_refill'[IpOf[c]] = stamp[c] /\ since'[IpOf[c]] = since[IpOf[c]]
      BY <1>1, <2>1 DEF TypeOK
    <3>5. /\ tokens'[IpOf[c]] \in Int /\ spent'[IpOf[c]] \in Int
      <4> HIDE DEF level, grant
      <4> QED BY <1>1, <2>1, <2>2, GuardAssumption, SMT DEF TypeOK
    <3> HIDE DEF level, grant
    <3>6. /\ last_refill[IpOf[c]] \in Nat /\ since[IpOf[c]] \in Nat /\ tokens[IpOf[c]] \in Nat
          /\ spent[IpOf[c]] \in Nat /\ level \in Nat /\ Burst \in Nat
      BY <1>1, <2>2, WorldAssumption, GuardAssumption, SMT DEF TypeOK
    <3>7. level <= tokens[IpOf[c]] + (stamp[c] - last_refill[IpOf[c]])
      BY <1>1, <2>2, <3>1, <3>6, SMT
    <3> QED BY <1>1, <3>1, <3>2, <3>3, <3>4, <3>5, <3>6, <3>7, SMT DEF Conserved
  <2>4. ASSUME NEW ip \in tracked, ip # IpOf[c], ~late'[ip] PROVE Conserved(ip)'
    <3> HIDE DEF level, grant
    <3>1. ip \in Ips
      BY DEF TypeOK
    <3>2. /\ tokens'[ip] = tokens[ip] /\ last_refill'[ip] = last_refill[ip]
          /\ spent'[ip] = spent[ip] /\ late'[ip] = late[ip]
      BY <2>1, <2>4, <3>1 DEF TypeOK
    <3>3. Conserved(ip)
      BY <2>4, <3>2 DEF RateInv
    <3> QED BY <1>1, <3>2, <3>3 DEF Conserved
  <2> QED BY <1>1, <2>3, <2>4 DEF RateInv
<1> QED BY <1>2, <1>3

\* An entry that is removed takes its history with it.
LEMMA ReleaseRate ==
    ASSUME TypeOK, RateInv, NEW c \in Conns, release(c)
    PROVE  RateInv'
<1>1. tracked' \subseteq tracked
    BY DEF release
<1>2. UNCHANGED <<clock, tokens, last_refill, since, spent, late, stamp>>
    BY DEF release
<1> QED BY <1>1, <1>2 DEF RateInv, Conserved

\* The other steps touch neither buckets nor, except to read the clock, stamps.
LEMMA OtherRate ==
    ASSUME TypeOK, [Next]_vars
    PROVE  \/ \E c \in Conns : admit(c) \/ try_consume_frame(c) \/ release(c)
           \/ /\ UNCHANGED guard /\ clock <= clock'
              /\ \A c \in Conns : stamp'[c] = stamp[c] \/ stamp'[c] <= clock'
<1> DEFINE Quiet == /\ UNCHANGED guard /\ clock <= clock'
                    /\ \A c \in Conns : stamp'[c] = stamp[c] \/ stamp'[c] <= clock'
<1>0. clock \in Nat /\ clock <= clock
    BY WorldAssumption, SMT DEF TypeOK
<1>1. ASSUME NEW c \in Conns, accept(c) \/ next_frame(c) PROVE Quiet
    BY <1>0, <1>1, SMT DEF TypeOK, accept, next_frame
<1>2. ASSUME NEW c \in Conns, proxy_header_refused(c) \/ refuse(c) \/ begin_read(c) \/ read_chunk(c)
             \/ bad_chunk(c) \/ read_timeout(c) \/ read_ended(c) \/ idle_drop(c) PROVE Quiet
    BY <1>0, <1>2, Zenon DEF proxy_header_refused, refuse, begin_read, read_chunk, bad_chunk,
        read_timeout, read_ended, idle_drop
<1>3. ASSUME NEW c \in Conns, empty_line(c) \/ http_line(c) \/ authorize(c) \/ other_frame(c)
             \/ teardown(c) PROVE Quiet
    BY <1>0, <1>3, Zenon DEF empty_line, http_line, authorize, other_frame, teardown
<1>4. ASSUME NEW c \in Conns, drop_client(c) \/ on_disconnect(c) PROVE Quiet
    BY <1>0, <1>4, Zenon DEF drop_client, on_disconnect, task
<1>5. ASSUME shut_down \/ disconnect_all \/ \E p \in Ports : stop_accepting(p) \/ stop_reaping(p)
      PROVE  Quiet
    BY <1>0, <1>5, Zenon DEF shut_down, stop_reaping, disconnect_all, stop_accepting, task
<1>6. ASSUME tick PROVE Quiet
    BY <1>0, <1>6, SMT DEF tick, task
<1>7. ASSUME UNCHANGED vars PROVE Quiet
    BY <1>0, <1>7, Zenon DEF vars, task
<1> HIDE DEF Quiet
<1>8. ASSUME NEW c \in Conns, connection(c)
      PROVE  Quiet \/ try_consume_frame(c) \/ release(c)
    BY <1>1, <1>2, <1>3, <1>8, Zenon DEF connection
<1>9. Quiet \/ \E c \in Conns : admit(c) \/ try_consume_frame(c) \/ release(c)
    BY <1>1, <1>2, <1>4, <1>5, <1>6, <1>7, <1>8, Zenon DEF Next
<1> QED BY <1>9 DEF Quiet

\* The frame limit holds from the creation of an address's entry, for any rate and
\* burst and any interleaving, as long as no frame reaches the guard with a stamp
\* older than the last refill (IpEntry::try_consume).
THEOREM RateCorrect == Spec => []RateHeld
<1>1. Init => RateInv
  <2> SUFFICES ASSUME Init PROVE RateInv
    OBVIOUS
  <2>1. \A c \in Conns : stamp[c] <= clock
    BY SMT DEF Init
  <2> QED BY <2>1, Zenon DEF Init, RateInv
<1>2. TypeOK /\ TypeOK' /\ RateInv /\ [Next]_vars => RateInv'
    BY OtherRate, IdleKeeps, AdmitRate, ConsumeRate, ReleaseRate
<1>3. TypeOK /\ RateInv => RateHeld
    BY ConservedBounds
<1> QED BY <1>1, <1>2, <1>3, TypeCorrect, PTL DEF Spec

-----------------------------------------------------------------------------
(* Sessions. A connection is served, then its task gives notice of the        *)
(* teardown, once, and the notice is handled, once; the task of a connection  *)
(* and the one that handles its notice run side by side.                      *)

Early == {"new", "accepting"}
Served == {"open", "read", "frame", "handler", "closing"}
Ended == {"ticket", "gone"}

SessionInv ==
    \A c \in Conns :
        /\ phase[c] \in Early => c \notin clients /\ c \notin opened
        /\ phase[c] \notin Ended => c \notin notices /\ closed[c] = 0
        /\ c \in notices => closed[c] = 0
        /\ closed[c] \in {0, 1}
        /\ phase[c] \in Ended /\ c \notin notices =>
              /\ c \in opened \intersect Reportable => closed[c] = 1
              /\ c \in clients => id[c] = 0

\* A step that leaves the registry alone and neither begins nor ends a session.
QuietSession ==
    /\ UNCHANGED <<id, clients, notices, opened, closed>>
    /\ \A c \in Conns : /\ phase'[c] \in Early => phase[c] \in Early
                        /\ phase'[c] \in Served <=> phase[c] \in Served

LEMMA QuietKeeps == ASSUME TypeOK, TypeOK', SessionInv, QuietSession PROVE SessionInv'
<1>1. \A c \in Conns : phase[c] \in Phases /\ phase'[c] \in Phases
    BY DEF TypeOK
<1> QED BY <1>1 DEF SessionInv, QuietSession, Phases, Early, Served, Ended

\* The steps that are not quiet.
LEMMA SessionSteps ==
    ASSUME TypeOK, [Next]_vars
    PROVE  \/ QuietSession \/ disconnect_all
           \/ \E c \in Conns : admit(c) \/ authorize(c) \/ teardown(c) \/ on_disconnect(c)
<1> USE DEF QuietSession, Early, Served
<1>1. ASSUME NEW c \in Conns, accept(c) \/ proxy_header_refused(c) \/ refuse(c) PROVE QuietSession
    BY <1>1, SMT DEF TypeOK, accept, proxy_header_refused, refuse, Go, registry
<1>2. ASSUME NEW c \in Conns, begin_read(c) \/ read_chunk(c) \/ bad_chunk(c) \/ read_timeout(c)
             \/ read_ended(c) \/ idle_drop(c) PROVE QuietSession
    BY <1>2, SMT DEF TypeOK, begin_read, read_chunk, bad_chunk, read_timeout, read_ended, idle_drop,
        Go, registry
<1>3. ASSUME NEW c \in Conns, empty_line(c) \/ http_line(c) \/ next_frame(c) PROVE QuietSession
    BY <1>3, SMT DEF TypeOK, empty_line, http_line, next_frame, Go, registry
<1>4. ASSUME NEW c \in Conns, try_consume_frame(c) PROVE QuietSession
  <2>1. phase[c] = "frame" /\ UNCHANGED registry /\ (Go(c, "handler") \/ Go(c, "open"))
    BY <1>4, Zenon DEF try_consume_frame
  <2> QED BY <2>1, SMT DEF TypeOK, Go, registry
<1>5. ASSUME NEW c \in Conns, other_frame(c) \/ release(c) PROVE QuietSession
    BY <1>5, SMT DEF TypeOK, other_frame, release, Go, registry
<1>6. ASSUME NEW c \in Conns, drop_client(c) PROVE QuietSession
    BY <1>6 DEF drop_client, registry, task
<1>7. CASE tick \/ shut_down \/ \E p \in Ports : stop_accepting(p) \/ stop_reaping(p)
    BY <1>7, Zenon DEF tick, shut_down, stop_reaping, stop_accepting, registry, task
<1>8. CASE UNCHANGED vars
    BY <1>8 DEF vars, registry, task
<1> QED BY <1>1, <1>2, <1>3, <1>4, <1>5, <1>6, <1>7, <1>8, Zenon DEF Next, connection

\* A connection enters the registry when it is admitted and not before.
LEMMA AdmitSession == ASSUME TypeOK, SessionInv, NEW c \in Conns, admit(c) PROVE SessionInv'
<1>1. /\ phase[c] = "accepting" /\ phase' = [phase EXCEPT ![c] = "open"]
      /\ id' = [id EXCEPT ![c] = counter] /\ clients' = clients \union {c}
      /\ UNCHANGED <<notices, opened, closed>>
    BY DEF admit, Go
<1> QED BY <1>1 DEF TypeOK, SessionInv, Early, Ended

\* The session is opened while the connection is served.
LEMMA AuthorizeSession == ASSUME TypeOK, SessionInv, NEW c \in Conns, authorize(c) PROVE SessionInv'
<1>1. /\ phase[c] = "handler" /\ phase' = [phase EXCEPT ![c] = "open"]
      /\ opened' = opened \union {c}
      /\ UNCHANGED <<id, clients, notices, closed>>
    BY DEF authorize, Go
<1> QED BY <1>1 DEF TypeOK, SessionInv, Early, Ended

\* The task gives notice once.
LEMMA TeardownSession == ASSUME TypeOK, SessionInv, NEW c \in Conns, teardown(c) PROVE SessionInv'
<1>1. /\ phase[c] = "closing" /\ phase' = [phase EXCEPT ![c] = "ticket"]
      /\ notices' = notices \union {c}
      /\ UNCHANGED <<id, clients, opened, closed>>
    BY DEF teardown, Go
<1> QED BY <1>1 DEF TypeOK, SessionInv, Early, Ended

\* The notice is handled once, and the client leaves the registry unless its id is 0.
LEMMA NoticeSession == ASSUME TypeOK, SessionInv, NEW c \in Conns, on_disconnect(c) PROVE SessionInv'
<1>1. /\ c \in notices /\ notices' = notices \ {c} /\ UNCHANGED <<phase, id, opened>>
      /\ clients' = IF removable(c) THEN clients \ {c} ELSE clients
      /\ closed' = [closed EXCEPT ![c] = IF c \in Reportable THEN @ + 1 ELSE @]
    BY DEF on_disconnect, task
<1>2. phase[c] \in Ended /\ closed[c] = 0
    BY <1>1 DEF SessionInv
<1>3. c \in clients' => id'[c] = 0
    BY <1>1 DEF removable, TypeOK
<1>4. closed'[c] = (IF c \in Reportable THEN 1 ELSE 0) /\ \A d \in Conns \ {c} : closed'[d] = closed[d]
    BY <1>1, <1>2 DEF TypeOK
<1> QED BY <1>1, <1>2, <1>3, <1>4 DEF SessionInv, Early, Ended

\* What the sessions rest on holds throughout.
LEMMA SessionInvariance == Spec => []SessionInv
<1>1. Init => SessionInv
    BY DEF Init, SessionInv, Early, Ended
<1>2. TypeOK /\ TypeOK' /\ SessionInv /\ [Next]_vars => SessionInv'
  <2>1. ASSUME SessionInv, disconnect_all PROVE SessionInv'
    BY <2>1 DEF disconnect_all, task, SessionInv
  <2> QED BY <2>1, SessionSteps, QuietKeeps, AdmitSession, AuthorizeSession, TeardownSession, NoticeSession
<1> QED BY <1>1, <1>2, TypeCorrect, PTL DEF Spec

\* The registry keeps no client whose teardown is complete, other than the one with
\* id 0 (ClientHandler::on_disconnect), for any number of connections and ports.
THEOREM NoGhosts == Spec => []NoGhostClients
<1>1. TypeOK /\ SessionInv => NoGhostClients
    BY DEF TypeOK, SessionInv, NoGhostClients, Finished, Ended
<1> QED BY <1>1, SessionInvariance, TypeCorrect, PTL

\* A nameable session that was opened is closed exactly once, however the reading
\* task, the teardown and the shutdown interleave (on_disconnect).
THEOREM SessionsCorrect == Spec => []NamedSessionsClose
<1>1. SessionInv => NamedSessionsClose
    BY DEF SessionInv, NamedSessionsClose, Finished, Ended
<1> QED BY <1>1, SessionInvariance, PTL
=============================================================================
