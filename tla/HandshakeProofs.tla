-------------------------- MODULE HandshakeProofs --------------------------
(***************************************************************************)
(* Proofs about writing to a miner and about the handshake. The first part *)
(* is about StratumWrite alone: whoever writes, the half is with the       *)
(* writer that holds the lock. The second shows that every step of the     *)
(* handshake is a step of StratumWrite or leaves it alone, so what the     *)
(* first part proves holds of the handshake; and it proves the invariants  *)
(* that the handshake adds.                                                *)
(***************************************************************************)
EXTENDS Handshake, TLAPS

USE DEF WriteAssumption, calls, wire, past, ending, writevars, disconnecting, stalled

-----------------------------------------------------------------------------
(* Writing. *)

busy(w) == at[w] \in {"writing", "within"}

\* The half is with the writer that holds the lock and is in the middle of a write.
HalfInv ==
    /\ \A w \in Writers : (write_half = w) <=> busy(w)
    /\ \A w \in Writers : (write_lock = w) <=> busy(w)
    /\ write_half = Shut => closer = "closed"

\* Until a write has stalled, what is on the wire since the last newline is the
\* first piece of the one line that is being written.
WireInv ==
    ~stalled => /\ \A w \in Writers : at[w] = "within" => fragments = 1
                /\ (\A w \in Writers : at[w] # "within") => fragments = 0

CallInv == \A w \in Writers : at[w] # "idle" => msg[w] \in Messages

WriteInv == WriteTypeOK /\ HalfInv /\ WireInv /\ CallInv /\ TornLinesHaveACause /\ LostMeansClosed

\* A writer that finds the lock free and the half gone finds it shut down.
LEMMA HalfGoneIsShut ==
    ASSUME WriteInv, write_lock = None, write_half # Slot
    PROVE  write_half = Shut /\ closer = "closed"
  BY WriteAssumption DEF WriteInv, HalfInv, WriteTypeOK

LEMMA WriteInitInv == WriteInit => WriteInv
  <1> SUFFICES ASSUME WriteInit PROVE WriteInv
    OBVIOUS
  <1>1. WriteTypeOK
    <2>1. attempt \in [Writers -> 0 .. Attempts - 1] /\ stalls \in 0 .. MaxStalls /\ fragments \in 0 .. 2
      BY WriteAssumption DEF WriteInit
    <2>2. at \in [Writers -> {"idle", "try", "writing", "within"}] /\ msg \in [Writers -> Messages \union {None}]
      BY DEF WriteInit
    <2>3. lines \subseteq [msg : Messages, whole : BOOLEAN]
      BY DEF WriteInit
    <2> QED BY <2>1, <2>2, <2>3 DEF WriteInit, WriteTypeOK
  <1>2. HalfInv
    BY WriteAssumption DEF WriteInit, HalfInv, busy
  <1>3. WireInv /\ CallInv
    BY DEF WriteInit, WireInv, CallInv
  <1>4. TornLinesHaveACause /\ LostMeansClosed
    BY DEF WriteInit, TornLinesHaveACause, LostMeansClosed
  <1> QED BY <1>1, <1>2, <1>3, <1>4 DEF WriteInv

LEMMA TakeHalfStep ==
    ASSUME WriteInv, NEW w \in Writers, take_half(w)
    PROVE  WriteInv'
  <1>1. WriteTypeOK'
    BY WriteAssumption DEF WriteInv, WriteTypeOK, take_half, Move
  <1>2. HalfInv'
    BY WriteAssumption DEF WriteInv, WriteTypeOK, HalfInv, busy, take_half, lock_free, Move
  <1>3. WireInv'
    BY DEF WriteInv, WriteTypeOK, WireInv, take_half, Move
  <1>4. CallInv' /\ TornLinesHaveACause' /\ LostMeansClosed'
    BY DEF WriteInv, WriteTypeOK, CallInv, TornLinesHaveACause, LostMeansClosed, take_half, Move
  <1> QED BY <1>1, <1>2, <1>3, <1>4 DEF WriteInv

LEMMA RetryStep ==
    ASSUME WriteInv, NEW w \in Writers, lock_busy(w) \/ write_late(w)
    PROVE  WriteInv'
  <1>1. WriteTypeOK'
    BY WriteAssumption
    DEF WriteInv, WriteTypeOK, lock_busy, write_late, Retry, Move, last_attempt, put_back
  <1>2. HalfInv'
    BY WriteAssumption DEF WriteInv, WriteTypeOK, HalfInv, busy, lock_busy, write_late, Retry, Move, put_back
  <1>3. WireInv'
    BY WriteAssumption DEF WriteInv, WriteTypeOK, WireInv, lock_busy, write_late, Retry, Move
  <1>4. CallInv' /\ TornLinesHaveACause' /\ LostMeansClosed'
    BY WriteAssumption
    DEF WriteInv, WriteTypeOK, CallInv, TornLinesHaveACause, LostMeansClosed, lock_busy, write_late, Retry, Move
  <1> QED BY <1>1, <1>2, <1>3, <1>4 DEF WriteInv

LEMMA WriteHeadStep ==
    ASSUME WriteInv, NEW w \in Writers, write_head(w)
    PROVE  WriteInv'
  <1>1. WriteTypeOK'
    BY DEF WriteInv, WriteTypeOK, write_head, Move
  <1>2. HalfInv'
    BY DEF WriteInv, WriteTypeOK, HalfInv, busy, write_head, Move
  <1>3. WireInv'
    <2>1. \A v \in Writers : v # w => ~busy(v)
      BY DEF WriteInv, HalfInv, busy, write_head
    <2> QED BY <2>1 DEF WriteInv, WriteTypeOK, WireInv, busy, write_head, Move
  <1>4. CallInv' /\ TornLinesHaveACause' /\ LostMeansClosed'
    BY DEF WriteInv, WriteTypeOK, CallInv, TornLinesHaveACause, LostMeansClosed, write_head, Move
  <1> QED BY <1>1, <1>2, <1>3, <1>4 DEF WriteInv

LEMMA WriteTailStep ==
    ASSUME WriteInv, NEW w \in Writers, write_tail(w)
    PROVE  WriteInv'
  <1>1. WriteTypeOK'
    <2>1. msg[w] \in Messages
      BY DEF WriteInv, CallInv, write_tail
    <2>2. [msg |-> msg[w], whole |-> fragments = 1] \in [msg : Messages, whole : BOOLEAN]
      BY <2>1
    <2>3. lines' \subseteq [msg : Messages, whole : BOOLEAN]
      BY <2>2 DEF WriteInv, WriteTypeOK, write_tail
    <2> QED BY <2>3, WriteAssumption DEF WriteInv, WriteTypeOK, write_tail, Return, Move, put_back
  <1>2. HalfInv'
    BY WriteAssumption DEF WriteInv, WriteTypeOK, HalfInv, busy, write_tail, Return, Move, put_back
  <1>3. WireInv'
    <2>1. \A v \in Writers : v # w => ~busy(v)
      BY DEF WriteInv, HalfInv, busy, write_tail
    <2> QED BY <2>1 DEF WriteInv, WriteTypeOK, WireInv, busy, write_tail, Return, Move
  <1>4. CallInv'
    BY DEF WriteInv, WriteTypeOK, CallInv, write_tail, Return, Move
  <1>5. TornLinesHaveACause'
    <2>1. stalled \/ fragments = 1
      BY DEF WriteInv, WireInv, write_tail
    <2>2. ASSUME NEW l \in lines' PROVE l.whole \/ stalled'
      <3>1. CASE l \in lines
        BY <3>1 DEF WriteInv, TornLinesHaveACause, write_tail
      <3>2. CASE l = [msg |-> msg[w], whole |-> fragments = 1]
        <4>1. l.whole = (fragments = 1)
          BY <3>2
        <4> QED BY <2>1, <4>1 DEF write_tail
      <3> QED BY <3>1, <3>2 DEF write_tail
    <2> QED BY <2>2 DEF TornLinesHaveACause
  <1>6. LostMeansClosed'
    BY DEF WriteInv, LostMeansClosed, write_tail
  <1> QED BY <1>1, <1>2, <1>3, <1>4, <1>5, <1>6 DEF WriteInv

LEMMA LostStep ==
    ASSUME WriteInv, NEW w \in Writers, write_lost(w)
    PROVE  WriteInv'
  <1>1. CASE send_refused(w)
    BY <1>1
    DEF send_refused, WriteInv, WriteTypeOK, HalfInv, busy, WireInv, CallInv, TornLinesHaveACause, LostMeansClosed
  <1>2. CASE half_gone(w)
    <2>1. closer = "closed"
      BY <1>2, HalfGoneIsShut DEF half_gone, lock_free
    <2> QED
      BY <1>2, <2>1, WriteAssumption
      DEF half_gone, Return, Move, WriteInv, WriteTypeOK, HalfInv, busy, WireInv, CallInv, TornLinesHaveACause, LostMeansClosed
  <1>3. CASE lock_busy_last(w)
    BY <1>3, WriteAssumption
    DEF lock_busy_last, Return, Move, WriteInv, WriteTypeOK, HalfInv, busy, WireInv, CallInv, TornLinesHaveACause,
        LostMeansClosed
  <1>4. CASE write_fails(w)
    <2>1. WriteTypeOK'
      BY <1>4, WriteAssumption
      DEF WriteInv, WriteTypeOK, write_fails, check_disconnect, Return, Move, put_back
    <2>2. HalfInv'
      BY <1>4, WriteAssumption DEF WriteInv, WriteTypeOK, HalfInv, busy, write_fails, Return, Move, put_back
    <2>3. stalled'
      BY <1>4 DEF WriteInv, WriteTypeOK, write_fails
    <2>4. WireInv' /\ TornLinesHaveACause'
      BY <2>3 DEF WireInv, TornLinesHaveACause
    <2>5. CallInv'
      BY <1>4 DEF WriteInv, WriteTypeOK, CallInv, write_fails, Return, Move
    <2>6. LostMeansClosed'
      BY <1>4 DEF LostMeansClosed, write_fails, check_disconnect
    <2> QED BY <2>1, <2>2, <2>4, <2>5, <2>6 DEF WriteInv
  <1> QED BY <1>1, <1>2, <1>3, <1>4 DEF write_lost

LEMMA SendStep ==
    ASSUME WriteInv, NEW w \in Writers, NEW m \in Messages, send(w, m)
    PROVE  WriteInv'
  BY DEF send, Move, WriteInv, WriteTypeOK, HalfInv, busy, WireInv, CallInv, TornLinesHaveACause, LostMeansClosed

LEMMA CloseStep ==
    ASSUME WriteInv, disconnect \/ disconnect_half
    PROVE  WriteInv'
  BY WriteAssumption
  DEF disconnect, disconnect_half, shuts_half, WriteInv, WriteTypeOK, HalfInv, busy, WireInv, CallInv,
      TornLinesHaveACause, LostMeansClosed

LEMMA WriteNextInv == WriteInv /\ [WriteNext]_writevars => WriteInv'
  <1> SUFFICES ASSUME WriteInv, [WriteNext]_writevars PROVE WriteInv'
    OBVIOUS
  <1>1. CASE UNCHANGED writevars
    BY <1>1 DEF WriteInv, WriteTypeOK, HalfInv, busy, WireInv, CallInv, TornLinesHaveACause, LostMeansClosed
  <1>2. CASE WriteNext
    BY <1>2, SendStep, TakeHalfStep, RetryStep, WriteHeadStep, WriteTailStep, LostStep, CloseStep
    DEF WriteNext, write_step
  <1> QED BY <1>1, <1>2

LEMMA SilentStep ==
    ASSUME WriteInv, write_half = Shut, [WriteNext]_writevars
    PROVE  UNCHANGED wire
  <1>1. \A w \in Writers : ~busy(w)
    BY WriteAssumption DEF WriteInv, HalfInv
  <1> QED
    BY <1>1
    DEF WriteNext, write_step, write_lost, busy, send, take_half, lock_busy, write_head, write_late, write_tail,
        send_refused, half_gone, lock_busy_last, write_fails, disconnect, disconnect_half

\* What StratumWrite keeps, whoever the writers are and whatever they write.
LEMMA WriteCorrect == WriteSpec => []WriteInv
  BY WriteInitInv, WriteNextInv, PTL DEF WriteSpec

\* The lines of two writers never mix on the wire (write_data): a line that is not
\* whole follows a write that failed or passed its deadline.
THEOREM WritersNeverMix == WriteSpec => []TornLinesHaveACause
  <1>1. WriteInv => TornLinesHaveACause
    BY DEF WriteInv
  <1> QED BY <1>1, WriteCorrect, PTL

\* A call that fails other than on a busy lock leaves a connection that is closed
\* or about to be (check_disconnect).
THEOREM LostIsClosed == WriteSpec => []LostMeansClosed
  <1>1. WriteInv => LostMeansClosed
    BY DEF WriteInv
  <1> QED BY <1>1, WriteCorrect, PTL

\* Nothing is written once disconnect has shut the half down.
THEOREM SilentOnceShut == WriteSpec => SilentAfterShutdown
  <1>1. WriteInv /\ [WriteNext]_writevars => [write_half = Shut => UNCHANGED wire]_writevars
    BY SilentStep
  <1> QED BY <1>1, WriteCorrect, PTL DEF WriteSpec, SilentAfterShutdown

-----------------------------------------------------------------------------
(* The types of the handshake, and that its steps are steps of the writers. *)

USE DEF HandshakeAssumption, config, assignment, reading, watching, jobbing, vars

\* The messages of a handler: no job, and an authorize reply for an authorize only.
Replies(method) == {m \in Messages : m.kind # "notify" /\ (m.kind = "authorized" => method = "authorize")}

LEMMA MessageTypes ==
    ASSUME NEW e \in Extranonces \union {None}
    PROVE  /\ \A kind \in {"subscribed", "confirmed", "authorized", "set_extranonce", "set_difficulty", "notify", "reconnect"} :
                 MsgWith(kind, e) \in Messages /\ Msg(kind) \in Messages
           /\ \A kind : MsgWith(kind, e).kind = kind /\ Msg(kind).kind = kind
  BY HandshakeAssumption DEF MsgWith, Msg, HandshakeMessages

LEMMA SubscribeScript ==
    ASSUME NEW e \in Extranonces \union {None}
    PROVE  subscribe_script(e) \in Seq(Replies("subscribe")) /\ subscribe_script(e) # <<>>
  <1> DEFINE R == Replies("subscribe")
  <1>1. None \in Extranonces \union {None}
    OBVIOUS
  <1>2. /\ MsgWith("subscribed", e) \in R /\ MsgWith("subscribed", None) \in R
        /\ MsgWith("set_extranonce", e) \in R /\ Msg("set_difficulty") \in R
    BY <1>1, MessageTypes DEF Replies
  <1> HIDE DEF R
  <1> DEFINE first == MsgWith("subscribed", IF profile = "bitmain" THEN e ELSE None)
             rest == IF common THEN <<MsgWith("set_extranonce", e), Msg("set_difficulty")>>
                     ELSE IF profile = "iceriver" /\ e # None THEN <<MsgWith("set_extranonce", e)>>
                     ELSE <<>>
  <1>3. first \in R
    BY <1>2
  <1>4. rest \in Seq(R)
    BY <1>2
  <1> HIDE DEF first, rest
  <1>5. <<first>> \o rest \in Seq(R) /\ <<first>> \o rest # <<>>
    BY <1>3, <1>4
  <1> QED BY <1>5 DEF subscribe_script, first, rest, R

LEMMA AuthorizeScript ==
    ASSUME NEW e \in Extranonces \union {None}, NEW told \in BOOLEAN
    PROVE  LET s == <<Msg("authorized")>> \o (IF e # None /\ ~told THEN <<MsgWith("set_extranonce", e)>> ELSE <<>>)
           IN s \in Seq(Replies("authorize")) /\ s # <<>>
  <1> DEFINE R == Replies("authorize")
  <1>1. Msg("authorized") \in R /\ MsgWith("set_extranonce", e) \in R
    BY MessageTypes DEF Replies
  <1> HIDE DEF R
  <1>2. QED BY <1>1 DEF R

LEMMA RepliesAreMessages ==
    ASSUME NEW h, NEW s \in Seq(Replies(h)) PROVE s \in Seq(Messages)
  BY DEF Replies

\* The actions of the handshake, by what they do to the writers.
Quiet ==
    \/ handle_subscribe \/ handle_extranonce_subscribe \/ handle_authorize \/ handler_ends
    \/ immediate_built \/ block_built \/ watchdog_wakes
ReaderStep == reader_sends \/ reader_continues \/ handler_fails
WorkerStep == worker_sends \/ worker_continues \/ worker_fails
WatchdogStep == watchdog_hints \/ watchdog_hinted
CloseSteps == watchdog_disconnects \/ hang_up \/ finish_disconnect

LEMMA ActionsOfNext ==
    ASSUME Next
    PROVE  Quiet \/ ReaderStep \/ WorkerStep \/ WatchdogStep \/ CloseSteps \/ \E w \in Writers : call_step(w)
  BY DEF Next, handlers, work, watch, Quiet, ReaderStep, WorkerStep, WatchdogStep, CloseSteps

LEMMA QuietStep ==
    ASSUME Quiet PROVE UNCHANGED writevars
  BY DEF Quiet, handle_subscribe, handle_extranonce_subscribe, handle_authorize, handler_ends, immediate_built,
         block_built, watchdog_wakes

\* Every step of the handshake is a step of the writers, or leaves them alone.
LEMMA HandshakeStep ==
    ASSUME TypeOK, [Next]_vars PROVE [WriteNext]_writevars
  <1>1. CASE UNCHANGED vars
    BY <1>1
  <1>2. CASE Quiet
    BY <1>2, QuietStep
  <1>3. CASE ReaderStep
    <2>1. CASE reader_sends
      <3>1. Head(todo) \in Messages
        BY <2>1 DEF TypeOK, reader_sends
      <3> QED BY <2>1, <3>1, HandshakeAssumption DEF reader_sends, WriteNext
    <2>2. CASE reader_continues \/ handler_fails
      BY <2>2, HandshakeAssumption DEF reader_continues, handler_fails, WriteNext
    <2> QED BY <1>3, <2>1, <2>2 DEF ReaderStep
  <1>4. CASE WorkerStep
    <2>1. CASE worker_sends
      <3>1. Msg(working) \in Messages
        BY <2>1, MessageTypes DEF TypeOK, worker_sends
      <3> QED BY <2>1, <3>1, HandshakeAssumption DEF worker_sends, WriteNext
    <2>2. CASE worker_continues \/ worker_fails
      BY <2>2, HandshakeAssumption DEF worker_continues, worker_fails, WriteNext
    <2> QED BY <1>4, <2>1, <2>2 DEF WorkerStep
  <1>5. CASE WatchdogStep
    <2>1. Msg("reconnect") \in Messages
      BY MessageTypes
    <2> QED BY <1>5, <2>1, HandshakeAssumption DEF WatchdogStep, watchdog_hints, watchdog_hinted, WriteNext
  <1>6. CASE CloseSteps
    BY <1>6 DEF CloseSteps, watchdog_disconnects, hang_up, finish_disconnect, WriteNext
  <1>7. CASE \E w \in Writers : call_step(w)
    BY <1>7 DEF call_step, WriteNext
  <1> QED BY <1>1, <1>2, <1>3, <1>4, <1>5, <1>6, <1>7, ActionsOfNext

\* The types of what the handshake adds to the writers.
HandshakeTypes ==
    /\ <<profile, common>> \in Kinds
    /\ next_extranonce \in Extranonces /\ extranonce \in Extranonces \union {None}
    /\ recent \in Seq(Extranonces)
    /\ handling \in {"idle", "subscribe", "extranonce_subscribe", "authorize"}
    /\ todo \in Seq(Replies(handling))
    /\ wallet \in BOOLEAN /\ authorized \in BOOLEAN /\ delivered \in BOOLEAN
    /\ initialized \in BOOLEAN /\ subscribed \in BOOLEAN /\ settled \in BOOLEAN
    /\ watchdogs \in Nat /\ hinting \in {"no", "hint", "closing"} /\ due \in Nat
    /\ working \in {"idle", "set_difficulty", "notify"}
    /\ requests \in 0 .. MaxRequests /\ built \in 0 .. MaxJobs
    /\ handling = "idle" => todo = <<>>

LEMMA TypesSplit == WriteTypeOK /\ HandshakeTypes => TypeOK
  BY RepliesAreMessages DEF HandshakeTypes, TypeOK

LEMMA IncrementType == \A e \in Extranonces : increment(e) \in Extranonces
  BY HandshakeAssumption DEF increment, Extranonces

LEMMA IssuedType == \A s \in Seq(Extranonces), e \in Extranonces : Issued(s, e) \in Seq(Extranonces)
  <1> SUFFICES ASSUME NEW s \in Seq(Extranonces), NEW e \in Extranonces PROVE Issued(s, e) \in Seq(Extranonces)
    OBVIOUS
  <1>1. CASE Len(s) > MaxExtranonce
    <2>1. s # <<>>
      BY <1>1, HandshakeAssumption
    <2> QED BY <1>1, <2>1 DEF Issued
  <1>2. CASE ~(Len(s) > MaxExtranonce)
    BY <1>2 DEF Issued
  <1> QED BY <1>1, <1>2

LEMMA AssignTypes ==
    ASSUME HandshakeTypes, NEW another \in BOOLEAN, assign_extranonce(another)
    PROVE  next_extranonce' \in Extranonces /\ extranonce' \in Extranonces \union {None} /\ recent' \in Seq(Extranonces)
  BY IncrementType, IssuedType DEF HandshakeTypes, assign_extranonce

LEMMA TypesQuiet ==
    ASSUME HandshakeTypes, Quiet PROVE HandshakeTypes'
  <1>1. CASE handle_subscribe
    <2>1. PICK another \in BOOLEAN : assign_extranonce(another)
      BY <1>1 DEF handle_subscribe, HandshakeTypes
    <2>2. next_extranonce' \in Extranonces /\ extranonce' \in Extranonces \union {None} /\ recent' \in Seq(Extranonces)
      BY <2>1, AssignTypes
    <2>3. todo' \in Seq(Replies("subscribe"))
      BY <1>1, <2>2, SubscribeScript DEF handle_subscribe
    <2>4. /\ handling' = "subscribe" /\ subscribed' = FALSE /\ settled' = FALSE
          /\ requests < MaxRequests /\ requests' = requests + 1
          /\ UNCHANGED <<config, wallet, authorized, watching, jobbing, delivered>>
      BY <1>1 DEF handle_subscribe, accept_frame
    <2>5. requests' \in 0 .. MaxRequests
      BY <2>4, HandshakeAssumption DEF HandshakeTypes
    <2>6. <<profile, common>>' \in Kinds /\ built' \in 0 .. MaxJobs
      BY <2>4 DEF HandshakeTypes
    <2> QED
      BY <2>2, <2>3, <2>4, <2>5, <2>6 DEF HandshakeTypes
  <1>2. CASE handle_extranonce_subscribe
    <2>1. Msg("confirmed") \in Replies("extranonce_subscribe")
      BY MessageTypes DEF Replies
    <2>2. todo' \in Seq(Replies("extranonce_subscribe"))
      BY <1>2, <2>1 DEF handle_extranonce_subscribe
    <2> QED
      BY <1>2, <2>2, HandshakeAssumption DEF handle_extranonce_subscribe, accept_frame, HandshakeTypes
  <1>3. CASE handle_authorize
    <2>1. todo' \in Seq(Replies("authorize"))
      BY <1>3, AuthorizeScript DEF handle_authorize, HandshakeTypes, told_at_subscribe
    <2> QED
      BY <1>3, <2>1, HandshakeAssumption DEF handle_authorize, accept_frame, HandshakeTypes
  <1>4. CASE handler_ends
    BY <1>4 DEF handler_ends, starts_watchdog, HandshakeTypes
  <1>5. CASE immediate_built
    BY <1>5, HandshakeAssumption DEF immediate_built, job_built, immediate_leads, HandshakeTypes
  <1>6. CASE block_built
    BY <1>6, HandshakeAssumption DEF block_built, job_built, block_leads, HandshakeTypes
  <1>7. CASE watchdog_wakes
    BY <1>7 DEF watchdog_wakes, HandshakeTypes
  <1> QED BY <1>1, <1>2, <1>3, <1>4, <1>5, <1>6, <1>7 DEF Quiet

LEMMA TypesStep ==
    ASSUME HandshakeTypes, [Next]_vars PROVE HandshakeTypes'
  <1>1. CASE UNCHANGED vars
    BY <1>1 DEF HandshakeTypes
  <1>2. CASE Quiet
    BY <1>2, TypesQuiet
  <1>3. CASE ReaderStep
    <2>1. CASE reader_sends
      BY <2>1 DEF reader_sends, HandshakeTypes
    <2>2. CASE reader_continues
      <3>1. Tail(todo) \in Seq(Replies(handling)) /\ handling # "idle"
        BY <2>2 DEF reader_continues, HandshakeTypes
      <3>2. authorized' \in BOOLEAN /\ delivered' \in BOOLEAN
        BY <2>2 DEF reader_continues, mark_authorized, HandshakeTypes
      <3>3. todo' = Tail(todo) /\ UNCHANGED <<config, assignment, handling, wallet, subscribed, settled, requests, watching, jobbing>>
        BY <2>2 DEF reader_continues
      <3> QED BY <3>1, <3>2, <3>3 DEF HandshakeTypes
    <2>3. CASE handler_fails
      BY <2>3 DEF handler_fails, HandshakeTypes
    <2> QED BY <1>3, <2>1, <2>2, <2>3 DEF ReaderStep
  <1>4. CASE WorkerStep
    <2>1. delivered' \in BOOLEAN
      BY <1>4 DEF WorkerStep, worker_sends, worker_continues, worker_fails, HandshakeTypes
    <2>2. /\ working' \in {"idle", "set_difficulty", "notify"}
          /\ UNCHANGED <<config, assignment, reading, watching, due, initialized, built>>
      BY <1>4 DEF WorkerStep, worker_sends, worker_continues, worker_fails, HandshakeTypes
    <2> QED BY <2>1, <2>2 DEF HandshakeTypes
  <1>5. CASE WatchdogStep
    BY <1>5 DEF WatchdogStep, watchdog_hints, watchdog_hinted, HandshakeTypes
  <1>6. CASE CloseSteps
    BY <1>6 DEF CloseSteps, watchdog_disconnects, hang_up, finish_disconnect, HandshakeTypes
  <1>7. CASE \E w \in Writers : call_step(w)
    BY <1>7 DEF call_step, HandshakeTypes
  <1> QED BY <1>1, <1>2, <1>3, <1>4, <1>5, <1>6, <1>7, ActionsOfNext

LEMMA TypesInit == Init => WriteInv /\ HandshakeTypes
  <1> SUFFICES ASSUME Init PROVE WriteInv /\ HandshakeTypes
    OBVIOUS
  <1>1. WriteInv
    BY WriteInitInv DEF Init
  <1>2. <<profile, common>> \in Kinds
    BY HandshakeAssumption DEF Init
  <1>3. next_extranonce \in Extranonces
    BY HandshakeAssumption DEF Init, Extranonces
  <1>4. requests \in 0 .. MaxRequests /\ built \in 0 .. MaxJobs
    BY HandshakeAssumption DEF Init
  <1>5. recent \in Seq(Extranonces) /\ todo \in Seq(Replies(handling)) /\ todo = <<>>
    BY DEF Init
  <1>6. HandshakeTypes
    BY <1>2, <1>3, <1>4, <1>5 DEF Init, HandshakeTypes
  <1> QED BY <1>1, <1>6

BaseInv == WriteInv /\ HandshakeTypes

LEMMA BaseStep == BaseInv /\ [Next]_vars => BaseInv'
  <1> SUFFICES ASSUME BaseInv, [Next]_vars PROVE BaseInv'
    OBVIOUS
  <1>1. TypeOK
    BY TypesSplit DEF BaseInv, WriteInv
  <1>2. WriteInv'
    BY <1>1, HandshakeStep, WriteNextInv DEF BaseInv
  <1> QED BY <1>2, TypesStep DEF BaseInv

LEMMA BaseCorrect == Spec => []BaseInv
  <1>1. Init => BaseInv
    BY TypesInit DEF BaseInv
  <1> QED BY <1>1, BaseStep, PTL DEF Spec

\* The types of the connection, of its handlers and of its tasks.
THEOREM TypeCorrect == Spec => []TypeOK
  <1>1. BaseInv => TypeOK
    BY TypesSplit DEF BaseInv, WriteInv
  <1> QED BY <1>1, BaseCorrect, PTL

\* The handshake writes by the rules of StratumWrite: with the three tasks and
\* their messages it is one of its behaviours.
THEOREM HandshakeWrites == Spec => WriteSpec
  <1>1. Init => WriteInit
    BY DEF Init
  <1>2. BaseInv => TypeOK
    BY TypesSplit DEF BaseInv, WriteInv
  <1>3. TypeOK /\ [Next]_vars => [WriteNext]_writevars
    BY HandshakeStep
  <1> QED BY <1>1, <1>2, <1>3, BaseCorrect, PTL DEF Spec, WriteSpec

-----------------------------------------------------------------------------
(* Extranonces. *)

\* The extranonce that is assigned k assignments after e.
After(e, k) == IF e + k <= MaxExtranonce THEN e + k ELSE e + k - (MaxExtranonce + 1)

\* The assignments of s follow one another, and n follows the last of them. That
\* they differ is not inductive: the next one must also differ from all but the
\* oldest.
Consecutive(s, n) ==
    /\ Len(s) <= MaxExtranonce + 1
    /\ \A i, j \in 1 .. Len(s) : i <= j => s[j] = After(s[i], j - i)
    /\ \A i \in 1 .. Len(s) : n = After(s[i], Len(s) + 1 - i)

LEMMA AfterIncrement ==
    ASSUME NEW e \in Extranonces, NEW k \in 0 .. MaxExtranonce
    PROVE  increment(After(e, k)) = After(e, k + 1)
  BY HandshakeAssumption DEF increment, After, Extranonces

LEMMA IssuedConsecutive ==
    ASSUME NEW s \in Seq(Extranonces), NEW n \in Extranonces, Consecutive(s, n)
    PROVE  Consecutive(Issued(s, n), increment(n))
  <1> DEFINE t == Issued(s, n)
  <1>0. Len(s) \in Nat /\ Len(s) <= MaxExtranonce + 1 /\ \A i \in 1 .. Len(s) : s[i] \in Extranonces
    BY DEF Consecutive
  <1>z. \A e \in Extranonces : After(e, 0) = e
    BY HandshakeAssumption DEF After, Extranonces
  <1>1. CASE Len(s) > MaxExtranonce
    <2>1. Len(s) = MaxExtranonce + 1 /\ s # <<>>
      BY <1>0, <1>1, HandshakeAssumption
    <2>2. Len(t) = Len(s) /\ t[Len(s)] = n /\ \A i \in 1 .. Len(s) - 1 : t[i] = s[i + 1]
      BY <1>1, <2>1, HandshakeAssumption DEF Issued
    <2>3. ASSUME NEW i \in 1 .. Len(t), NEW j \in 1 .. Len(t), i <= j PROVE t[j] = After(t[i], j - i)
      <3>1. CASE j < Len(t)
        <4>1. s[j + 1] = After(s[i + 1], (j + 1) - (i + 1))
          BY <1>0, <2>2, <2>3, <3>1 DEF Consecutive
        <4>2. (j + 1) - (i + 1) = j - i
          BY <1>0
        <4> QED BY <1>0, <2>2, <2>3, <3>1, <4>1, <4>2
      <3>2. CASE j = Len(t) /\ i < j
        <4>1. n = After(s[i + 1], Len(s) + 1 - (i + 1))
          BY <1>0, <2>2, <3>2 DEF Consecutive
        <4>2. Len(s) + 1 - (i + 1) = j - i
          BY <1>0, <2>2, <3>2
        <4> QED BY <1>0, <2>2, <3>2, <4>1, <4>2
      <3>3. CASE j = Len(t) /\ i = j
        BY <1>0, <1>z, <2>2, <3>3
      <3> QED BY <1>0, <2>2, <2>3, <3>1, <3>2, <3>3
    <2>4. ASSUME NEW i \in 1 .. Len(t) PROVE increment(n) = After(t[i], Len(t) + 1 - i)
      <3>1. CASE i < Len(t)
        <4>1. n = After(s[i + 1], Len(s) + 1 - (i + 1)) /\ s[i + 1] \in Extranonces
          BY <1>0, <2>2, <3>1 DEF Consecutive
        <4>2. Len(s) + 1 - (i + 1) \in 0 .. MaxExtranonce /\ Len(s) + 1 - (i + 1) + 1 = Len(t) + 1 - i
          BY <1>0, <2>1, <2>2, <3>1, HandshakeAssumption
        <4> QED BY <4>1, <4>2, <2>2, <3>1, <1>0, AfterIncrement
      <3>2. CASE i = Len(t)
        <4>1. Len(t) + 1 - i = 0 + 1 /\ 0 \in 0 .. MaxExtranonce
          BY <1>0, <2>2, <3>2, HandshakeAssumption
        <4> QED BY <4>1, <1>z, <2>2, <3>2, AfterIncrement
      <3> QED BY <1>0, <2>2, <3>1, <3>2
    <2> QED BY <2>1, <2>2, <2>3, <2>4 DEF Consecutive
  <1>2. CASE ~(Len(s) > MaxExtranonce)
    <2>2. Len(t) = Len(s) + 1 /\ t[Len(s) + 1] = n /\ \A i \in 1 .. Len(s) : t[i] = s[i]
      BY <1>2 DEF Issued
    <2>3. ASSUME NEW i \in 1 .. Len(t), NEW j \in 1 .. Len(t), i <= j PROVE t[j] = After(t[i], j - i)
      <3>1. CASE j <= Len(s)
        BY <1>0, <2>2, <2>3, <3>1 DEF Consecutive
      <3>2. CASE j = Len(t) /\ i < j
        BY <1>0, <2>2, <3>2 DEF Consecutive
      <3>3. CASE j = Len(t) /\ i = j
        BY <1>0, <1>z, <2>2, <3>3
      <3> QED BY <1>0, <2>2, <2>3, <3>1, <3>2, <3>3
    <2>4. ASSUME NEW i \in 1 .. Len(t) PROVE increment(n) = After(t[i], Len(t) + 1 - i)
      <3>1. CASE i <= Len(s)
        <4>1. n = After(s[i], Len(s) + 1 - i) /\ s[i] \in Extranonces
          BY <1>0, <3>1 DEF Consecutive
        <4>2. Len(s) + 1 - i \in 0 .. MaxExtranonce /\ Len(s) + 1 - i + 1 = Len(t) + 1 - i
          BY <1>0, <1>2, <2>2, <3>1, HandshakeAssumption
        <4> QED BY <4>1, <4>2, <2>2, <3>1, AfterIncrement
      <3>2. CASE i = Len(t)
        <4>1. Len(t) + 1 - i = 0 + 1 /\ 0 \in 0 .. MaxExtranonce
          BY <1>0, <2>2, <3>2, HandshakeAssumption
        <4> QED BY <4>1, <1>z, <2>2, <3>2, AfterIncrement
      <3> QED BY <1>0, <2>2, <3>1, <3>2
    <2>5. Len(t) <= MaxExtranonce + 1
      BY <1>0, <1>2, <2>2, HandshakeAssumption
    <2> QED BY <2>3, <2>4, <2>5 DEF Consecutive
  <1> QED BY <1>1, <1>2

ExtranonceInv == BaseInv /\ Consecutive(recent, next_extranonce)

LEMMA ExtranonceStep == ExtranonceInv /\ [Next]_vars => ExtranonceInv'
  <1> SUFFICES ASSUME ExtranonceInv, [Next]_vars PROVE Consecutive(recent, next_extranonce)'
    BY BaseStep DEF ExtranonceInv
  <1>1. CASE handle_subscribe
    <2>1. PICK another \in BOOLEAN : assign_extranonce(another)
      BY <1>1 DEF handle_subscribe, ExtranonceInv, BaseInv, HandshakeTypes
    <2> DEFINE before == IF another THEN Issued(recent, next_extranonce) ELSE recent
               next == IF another THEN increment(next_extranonce) ELSE next_extranonce
    <2>2. recent \in Seq(Extranonces) /\ next_extranonce \in Extranonces /\ Consecutive(recent, next_extranonce)
      BY DEF ExtranonceInv, BaseInv, HandshakeTypes
    <2>3. before \in Seq(Extranonces) /\ next \in Extranonces /\ Consecutive(before, next)
      BY <2>2, IssuedType, IncrementType, IssuedConsecutive
    <2>4. \/ recent' = Issued(before, next) /\ next_extranonce' = increment(next)
          \/ recent' = before /\ next_extranonce' = next
      BY <2>1 DEF assign_extranonce
    <2> HIDE DEF before, next
    <2>5. Consecutive(recent', next_extranonce')
      BY <2>3, <2>4, IssuedConsecutive
    <2> QED BY <2>5 DEF Consecutive, After
  <1>2. CASE UNCHANGED assignment
    BY <1>2 DEF ExtranonceInv, Consecutive, After
  <1>3. handle_subscribe \/ UNCHANGED assignment
    BY DEF Next, handlers, work, watch, handle_extranonce_subscribe, handle_authorize, reader_sends, reader_continues,
           handler_fails, handler_ends, worker_sends, worker_continues, worker_fails, watchdog_wakes, watchdog_hints,
           watchdog_hinted, watchdog_disconnects, immediate_built, block_built, call_step, hang_up, finish_disconnect
  <1> QED BY <1>1, <1>2, <1>3

\* As many consecutive assignments as there are extranonces are of different ones,
\* whatever the range of the counter and wherever it wraps (fetch_update).
THEOREM ExtranoncesCorrect == Spec => []ExtranoncesDistinct
  <1>1. Init => ExtranonceInv
    BY TypesInit, HandshakeAssumption DEF ExtranonceInv, BaseInv, Init, Consecutive
  <1>2. ExtranonceInv => ExtranoncesDistinct
    <2> SUFFICES ASSUME ExtranonceInv, NEW i \in 1 .. Len(recent), NEW j \in 1 .. Len(recent), i < j
                 PROVE  recent[i] # recent[j]
      BY DEF ExtranonceInv, BaseInv, HandshakeTypes, ExtranoncesDistinct
    <2>1. recent[i] \in Extranonces /\ Len(recent) \in Nat
      BY DEF ExtranonceInv, BaseInv, HandshakeTypes
    <2>2. recent[j] = After(recent[i], j - i) /\ Len(recent) <= MaxExtranonce + 1
      BY DEF ExtranonceInv, Consecutive
    <2> QED BY <2>1, <2>2, HandshakeAssumption DEF After, Extranonces
  <1> QED BY <1>1, <1>2, ExtranonceStep, PTL DEF Spec

-----------------------------------------------------------------------------
(* Miners without work. *)

\* Outside the authorize handler, which is about to start a watchdog.
WatchInv ==
    authorized /\ ~delivered /\ handling # "authorize" /\ ~disconnecting /\ ~closing
        => watchdogs > 0 \/ hinting # "no" \/ crowded

\* A call that failed has found the lock busy, or the connection is being closed.
LEMMA LostCall ==
    ASSUME WriteInv, NEW w \in Writers, write_lost(w)
    PROVE  crowded' \/ closing' \/ disconnecting'
  <1>1. CASE half_gone(w)
    BY <1>1, HalfGoneIsShut DEF half_gone, lock_free
  <1>2. CASE send_refused(w) \/ lock_busy_last(w) \/ write_fails(w)
    BY <1>2 DEF send_refused, lock_busy_last, write_fails, check_disconnect
  <1> QED BY <1>1, <1>2 DEF write_lost

\* What makes a connection unwatched for good reason stays so.
LEMMA Excused ==
    ASSUME WriteInv, [WriteNext]_writevars
    PROVE  /\ crowded => crowded'
           /\ closing \/ disconnecting => closing' \/ disconnecting'
  <1>1. CASE UNCHANGED <<ending, crowded>>
    BY <1>1
  <1>2. CASE disconnect \/ disconnect_half
    BY <1>2 DEF disconnect, disconnect_half
  <1>3. ASSUME NEW w \in Writers, write_fails(w)
        PROVE  crowded' = crowded /\ (closing' \/ disconnecting')
    BY <1>3 DEF write_fails, check_disconnect
  <1>4. ASSUME NEW w \in Writers, lock_busy_last(w)
        PROVE  crowded' /\ UNCHANGED ending
    BY <1>4 DEF lock_busy_last
  <1>5. ASSUME NEW w \in Writers, (\E m \in Messages : send(w, m)) \/ write_step(w) \/ write_tail(w) \/ send_refused(w) \/ half_gone(w)
        PROVE  UNCHANGED <<ending, crowded>>
    BY <1>5 DEF write_step, send, take_half, lock_busy, write_head, write_late, write_tail, send_refused, half_gone
  <1>6. CASE WriteNext
    BY <1>6, <1>1, <1>2, <1>3, <1>4, <1>5 DEF WriteNext, write_lost
  <1> QED BY <1>1, <1>6

LEMMA WatchStep ==
    ASSUME BaseInv, WatchInv, [Next]_vars PROVE WatchInv'
  <1>0. TypeOK /\ WriteInv /\ watchdogs \in Nat
    BY TypesSplit DEF BaseInv, WriteInv, HandshakeTypes
  <1>1. /\ crowded => crowded'
        /\ closing \/ disconnecting => closing' \/ disconnecting'
    BY <1>0, HandshakeStep, Excused
  <1>2. CASE UNCHANGED <<handling, authorized, delivered, watchdogs, hinting>>
    BY <1>1, <1>2 DEF WatchInv
  <1>3. CASE Quiet
    <2>1. CASE handler_ends
      BY <2>1, <1>0, <1>1 DEF handler_ends, starts_watchdog, WatchInv
    <2>2. CASE watchdog_wakes
      BY <2>2, <1>0, <1>1 DEF watchdog_wakes, received_job, WatchInv
    <2>3. CASE handle_subscribe \/ handle_extranonce_subscribe \/ handle_authorize
      BY <2>3, <1>1, <1>0 DEF handle_subscribe, handle_extranonce_subscribe, handle_authorize, accept_frame, WatchInv
    <2>4. CASE immediate_built \/ block_built
      BY <2>4, <1>2 DEF immediate_built, block_built
    <2> QED BY <1>3, <2>1, <2>2, <2>3, <2>4 DEF Quiet
  <1>4. CASE ReaderStep
    <2>1. CASE reader_sends
      BY <2>1, <1>2 DEF reader_sends
    <2>2. CASE reader_continues
      <3>1. Head(todo) \in Replies(handling)
        BY <2>2 DEF reader_continues, BaseInv, HandshakeTypes
      <3>2. Head(todo).kind = "authorized" => handling = "authorize"
        BY <3>1 DEF Replies
      <3> QED BY <1>1, <2>2, <3>2 DEF reader_continues, WatchInv
    <2>3. CASE handler_fails
      <3>1. crowded' \/ closing' \/ disconnecting'
        BY <1>0, <2>3, LostCall, HandshakeAssumption DEF handler_fails
      <3> QED BY <3>1 DEF WatchInv
    <2> QED BY <1>4, <2>1, <2>2, <2>3 DEF ReaderStep
  <1>5. CASE WorkerStep
    <2>1. delivered => delivered'
      BY <1>5 DEF WorkerStep, worker_sends, worker_continues, worker_fails
    <2> QED BY <1>5, <1>1, <2>1 DEF WorkerStep, worker_sends, worker_continues, worker_fails, WatchInv
  <1>6. CASE WatchdogStep
    BY <1>6, <1>1, <1>2 DEF WatchdogStep, watchdog_hints, watchdog_hinted, WatchInv
  <1>7. CASE CloseSteps
    <2>1. CASE watchdog_disconnects
      <3>1. disconnecting'
        BY <2>1 DEF watchdog_disconnects, disconnect
      <3> QED BY <3>1 DEF WatchInv
    <2>2. CASE hang_up \/ finish_disconnect
      BY <2>2, <1>2 DEF hang_up, finish_disconnect
    <2> QED BY <1>7, <2>1, <2>2 DEF CloseSteps
  <1>8. CASE \E w \in Writers : call_step(w)
    BY <1>8, <1>2 DEF call_step
  <1>9. CASE UNCHANGED vars
    BY <1>9, <1>2
  <1> QED BY <1>3, <1>4, <1>5, <1>6, <1>7, <1>8, <1>9, ActionsOfNext

\* An authorized miner that has no job is watched, unless a busy lock made its
\* handler give up (start_first_job_watchdog).
THEOREM WorklessCorrect == Spec => []WorklessIsWatched
  <1>1. Init => BaseInv /\ WatchInv
    BY TypesInit DEF BaseInv, WatchInv, Init
  <1>2. BaseInv /\ WatchInv /\ [Next]_vars => (BaseInv /\ WatchInv)'
    BY BaseStep, WatchStep
  <1>3. BaseInv /\ WatchInv => WorklessIsWatched
    BY DEF WatchInv, WorklessIsWatched
  <1> QED BY <1>1, <1>2, <1>3, PTL DEF Spec

-----------------------------------------------------------------------------
(* The difficulty before the job. *)

\* What a task has under way is what it has next to send.
TaskInv ==
    /\ at[Reader] # "idle" => todo # <<>> /\ msg[Reader] = Head(todo)
    /\ at[Worker] # "idle" => working # "idle" /\ msg[Worker] = Msg(working)
    /\ at[Watchdog] # "idle" => hinting = "hint" /\ msg[Watchdog] = Msg("reconnect")

\* A step that leaves the calls of a task alone.
CallKept(w) == at'[w] = at[w] /\ msg'[w] = msg[w]

LEMMA CallsOfOthers ==
    ASSUME WriteInv, NEW w \in Writers, NEW v \in Writers, v # w,
           (\E m : send(w, m)) \/ write_step(w) \/ write_tail(w) \/ write_lost(w)
    PROVE  CallKept(v)
  BY DEF CallKept, WriteInv, WriteTypeOK, write_step, write_lost, send, take_half, lock_busy, write_head, write_late,
         write_tail, send_refused, half_gone, lock_busy_last, write_fails, Retry, Return, Move

LEMMA CallReturns ==
    ASSUME WriteInv, NEW w \in Writers, write_tail(w) \/ write_lost(w)
    PROVE  at'[w] = "idle"
  BY DEF WriteInv, WriteTypeOK, write_tail, write_lost, send_refused, half_gone, lock_busy_last, write_fails, Return, Move

LEMMA CallBegins ==
    ASSUME WriteInv, NEW w \in Writers, NEW m, send(w, m)
    PROVE  msg'[w] = m
  BY DEF WriteInv, WriteTypeOK, send, Move

LEMMA CallGoesOn ==
    ASSUME WriteInv, NEW w \in Writers, write_step(w)
    PROVE  at[w] # "idle" /\ msg'[w] = msg[w]
  BY DEF WriteInv, WriteTypeOK, write_step, take_half, lock_busy, write_head, write_late, Retry, Move

LEMMA TaskStep ==
    ASSUME BaseInv, TaskInv, [Next]_vars PROVE TaskInv'
  <1>0. WriteInv /\ Reader \in Writers /\ Worker \in Writers /\ Watchdog \in Writers
        /\ Reader # Worker /\ Reader # Watchdog /\ Worker # Watchdog
    BY HandshakeAssumption DEF BaseInv
  <1>1. CASE UNCHANGED vars
    BY <1>1 DEF TaskInv, Msg
  <1>2. CASE Quiet
    <2>1. UNCHANGED <<at, msg>>
      BY <1>2, QuietStep
    <2>2. CASE handle_subscribe \/ handle_extranonce_subscribe \/ handle_authorize
      <3>1. todo = <<>>
        BY <2>2 DEF handle_subscribe, handle_extranonce_subscribe, handle_authorize, accept_frame, BaseInv, HandshakeTypes
      <3>2. UNCHANGED <<working, hinting>>
        BY <2>2 DEF handle_subscribe, handle_extranonce_subscribe, handle_authorize
      <3> QED BY <2>1, <3>1, <3>2 DEF TaskInv, Msg
    <2>3. CASE handler_ends
      BY <2>1, <2>3 DEF handler_ends, TaskInv, Msg
    <2>4. CASE immediate_built \/ block_built
      BY <2>1, <2>4 DEF immediate_built, block_built, job_built, TaskInv, Msg
    <2>5. CASE watchdog_wakes
      BY <2>1, <2>5 DEF watchdog_wakes, TaskInv, Msg
    <2> QED BY <1>2, <2>2, <2>3, <2>4, <2>5 DEF Quiet
  <1>3. CASE ReaderStep
    <2>1. CallKept(Worker) /\ CallKept(Watchdog)
      BY <1>0, <1>3, CallsOfOthers DEF ReaderStep, reader_sends, reader_continues, handler_fails
    <2>2. UNCHANGED <<working, hinting>>
      BY <1>3 DEF ReaderStep, reader_sends, reader_continues, handler_fails
    <2>3. at'[Reader] # "idle" => todo' # <<>> /\ msg'[Reader] = Head(todo')
      BY <1>0, <1>3, CallBegins, CallReturns DEF ReaderStep, reader_sends, reader_continues, handler_fails
    <2> QED BY <2>1, <2>2, <2>3 DEF TaskInv, CallKept, Msg
  <1>4. CASE WorkerStep
    <2>1. CallKept(Reader) /\ CallKept(Watchdog)
      BY <1>0, <1>4, CallsOfOthers DEF WorkerStep, worker_sends, worker_continues, worker_fails
    <2>2. UNCHANGED <<todo, hinting>>
      BY <1>4 DEF WorkerStep, worker_sends, worker_continues, worker_fails
    <2>3. at'[Worker] # "idle" => working' # "idle" /\ msg'[Worker] = Msg(working')
      BY <1>0, <1>4, CallBegins, CallReturns DEF WorkerStep, worker_sends, worker_continues, worker_fails, Msg
    <2> QED BY <2>1, <2>2, <2>3 DEF TaskInv, CallKept, Msg
  <1>5. CASE WatchdogStep
    <2>1. CallKept(Reader) /\ CallKept(Worker)
      BY <1>0, <1>5, CallsOfOthers DEF WatchdogStep, watchdog_hints, watchdog_hinted
    <2>2. UNCHANGED <<todo, working>>
      BY <1>5 DEF WatchdogStep, watchdog_hints, watchdog_hinted
    <2>3. at'[Watchdog] # "idle" => hinting' = "hint" /\ msg'[Watchdog] = Msg("reconnect")
      BY <1>0, <1>5, CallBegins, CallReturns DEF WatchdogStep, watchdog_hints, watchdog_hinted
    <2> QED BY <2>1, <2>2, <2>3 DEF TaskInv, CallKept, Msg
  <1>6. CASE CloseSteps
    <2>1. UNCHANGED <<at, msg, todo, working>>
      BY <1>6 DEF CloseSteps, watchdog_disconnects, hang_up, finish_disconnect, disconnect, disconnect_half
    <2>2. hinting' = hinting \/ hinting # "hint"
      BY <1>6 DEF CloseSteps, watchdog_disconnects, hang_up, finish_disconnect
    <2> QED BY <2>1, <2>2 DEF TaskInv, Msg
  <1>7. CASE \E w \in Writers : call_step(w)
    <2>1. PICK w \in Writers : call_step(w)
      BY <1>7
    <2>2. at[w] # "idle" /\ msg'[w] = msg[w] /\ \A v \in Writers : v # w => CallKept(v)
      BY <1>0, <2>1, CallGoesOn, CallsOfOthers DEF call_step
    <2>3. UNCHANGED <<todo, working, hinting>>
      BY <2>1 DEF call_step
    <2> QED BY <1>0, <2>2, <2>3 DEF TaskInv, CallKept, Msg
  <1> QED BY <1>1, <1>2, <1>3, <1>4, <1>5, <1>6, <1>7, ActionsOfNext

\* The miner has a difficulty, or it was lost, or the connection goes.
Warned == HeardKind("set_difficulty") \/ crowded \/ closing \/ disconnecting

\* A job that is sent without a difficulty of its own follows one that had it, or
\* whose difficulty was lost.
DiffInv ==
    /\ HeardKind("notify") => Warned
    /\ working = "notify" => Warned
    /\ initialized /\ working = "idle" => Warned

\* What a step adds to the lines.
LEMMA LinesOfStep ==
    ASSUME [WriteNext]_writevars
    PROVE  \/ lines' = lines
           \/ \E w \in Writers : write_tail(w) /\ lines' = lines \union {[msg |-> msg[w], whole |-> fragments = 1]}
  BY DEF WriteNext, write_step, write_lost, send, take_half, lock_busy, write_head, write_late, write_tail,
         send_refused, half_gone, lock_busy_last, write_fails, disconnect, disconnect_half

LEMMA HeardByStep ==
    ASSUME [WriteNext]_writevars
    PROVE  /\ \A kind : HeardKind(kind) => HeardKind(kind)'
           /\ \A kind : HeardKind(kind)' => HeardKind(kind) \/ \E w \in Writers : write_tail(w) /\ msg[w].kind = kind
           /\ \A kind : (\E w \in Writers : write_tail(w) /\ msg[w].kind = kind) => HeardKind(kind)'
  <1>1. \A w \in Writers : write_tail(w) => lines' = lines \union {[msg |-> msg[w], whole |-> fragments = 1]}
    BY DEF write_tail
  <1>2. \A w \in Writers : [msg |-> msg[w], whole |-> fragments = 1].msg = msg[w]
    OBVIOUS
  <1>3. ASSUME NEW kind, HeardKind(kind) PROVE HeardKind(kind)'
    BY <1>3, LinesOfStep DEF HeardKind
  <1>4. ASSUME NEW kind, HeardKind(kind)', ~HeardKind(kind)
        PROVE  \E w \in Writers : write_tail(w) /\ msg[w].kind = kind
    <2>1. PICK l \in lines' : l.msg.kind = kind
      BY <1>4 DEF HeardKind
    <2>2. l \notin lines
      BY <1>4, <2>1 DEF HeardKind
    <2>3. PICK w \in Writers : write_tail(w) /\ l = [msg |-> msg[w], whole |-> fragments = 1]
      BY <2>2, LinesOfStep
    <2> QED BY <1>2, <2>1, <2>3
  <1>5. ASSUME NEW kind, NEW w \in Writers, write_tail(w), msg[w].kind = kind PROVE HeardKind(kind)'
    BY <1>1, <1>2, <1>5 DEF HeardKind
  <1> QED BY <1>3, <1>4, <1>5

LEMMA DiffStep ==
    ASSUME BaseInv, TaskInv, DiffInv, [Next]_vars PROVE DiffInv'
  <1>0. TypeOK /\ WriteInv /\ Reader \in Writers /\ Worker \in Writers /\ Watchdog \in Writers
        /\ Writers = {Reader, Worker, Watchdog}
    BY TypesSplit, HandshakeAssumption DEF BaseInv, WriteInv
  <1>1. [WriteNext]_writevars
    BY <1>0, HandshakeStep
  <1>2. Warned => Warned'
    BY <1>0, <1>1, HeardByStep, Excused DEF Warned
  \* Only the job task sends a job.
  <1>3. HeardKind("notify")' => HeardKind("notify") \/ (write_tail(Worker) /\ working = "notify")
    <2>1. ASSUME write_tail(Reader) PROVE msg[Reader].kind # "notify"
      <3>1. todo # <<>> /\ msg[Reader] = Head(todo)
        BY <2>1 DEF write_tail, TaskInv
      <3>2. Head(todo) \in Replies(handling)
        BY <3>1 DEF BaseInv, HandshakeTypes
      <3> QED BY <3>1, <3>2 DEF Replies
    <2>2. ASSUME write_tail(Watchdog) PROVE msg[Watchdog].kind # "notify"
      BY <2>2 DEF write_tail, TaskInv, Msg
    <2>3. ASSUME write_tail(Worker), msg[Worker].kind = "notify" PROVE working = "notify"
      BY <2>3 DEF write_tail, TaskInv, Msg
    <2> QED BY <1>0, <1>1, <2>1, <2>2, <2>3, HeardByStep
  <1>4. HeardKind("notify")' => Warned'
    BY <1>2, <1>3 DEF DiffInv
  <1>5. CASE UNCHANGED <<working, initialized>>
    BY <1>2, <1>4, <1>5 DEF DiffInv
  <1>6. CASE Quiet
    <2>1. CASE immediate_built
      BY <1>4, <2>1 DEF immediate_built, immediate_leads, DiffInv
    <2>2. CASE block_built
      <3>1. working' # "idle" /\ (working' = "notify" => initialized /\ working = "idle")
        BY <2>2 DEF block_built, job_built, block_leads
      <3> QED BY <1>2, <1>4, <3>1 DEF DiffInv
    <2>3. CASE handle_subscribe \/ handle_extranonce_subscribe \/ handle_authorize \/ handler_ends \/ watchdog_wakes
      BY <1>5, <2>3 DEF handle_subscribe, handle_extranonce_subscribe, handle_authorize, handler_ends, watchdog_wakes
    <2> QED BY <1>6, <2>1, <2>2, <2>3 DEF Quiet
  <1>7. CASE WorkerStep
    <2>1. CASE worker_sends
      BY <1>5, <2>1 DEF worker_sends
    <2>2. CASE worker_continues
      <3>1. at[Worker] # "idle" /\ write_tail(Worker) /\ msg[Worker] = Msg(working)
        BY <2>2 DEF worker_continues, write_tail, TaskInv
      <3>2. working = "set_difficulty" => HeardKind("set_difficulty")'
        BY <1>0, <1>1, <3>1, HeardByStep DEF Msg
      <3>3. working = "set_difficulty" \/ working = "notify"
        BY <2>2 DEF worker_continues, BaseInv, HandshakeTypes
      <3>4. Warned'
        BY <1>2, <3>2, <3>3 DEF Warned, DiffInv
      <3> QED BY <3>4 DEF DiffInv
    <2>3. CASE worker_fails
      <3>1. Warned'
        BY <1>0, <2>3, LostCall DEF worker_fails, Warned
      <3> QED BY <3>1 DEF DiffInv
    <2> QED BY <1>7, <2>1, <2>2, <2>3 DEF WorkerStep
  <1>8. CASE ReaderStep \/ WatchdogStep \/ CloseSteps \/ UNCHANGED vars \/ \E w \in Writers : call_step(w)
    BY <1>5, <1>8
    DEF ReaderStep, reader_sends, reader_continues, handler_fails, WatchdogStep, watchdog_hints, watchdog_hinted,
        CloseSteps, watchdog_disconnects, hang_up, finish_disconnect, call_step
  <1> QED BY <1>6, <1>7, <1>8, ActionsOfNext

\* A miner gets its difficulty before its first job, whatever the three tasks do
\* (send_immediate_job_to_client, new_block_available), unless a busy lock took it
\* or the connection is being closed.
THEOREM DifficultyFirst == Spec => []DifficultyBeforeJob
  <1>1. Init => BaseInv /\ TaskInv /\ DiffInv
    <2> SUFFICES ASSUME Init PROVE BaseInv /\ TaskInv /\ DiffInv
      OBVIOUS
    <2>1. TaskInv
      BY HandshakeAssumption DEF Init, WriteInit, TaskInv
    <2>2. DiffInv
      BY DEF Init, WriteInit, DiffInv, HeardKind
    <2> QED BY <2>1, <2>2, TypesInit DEF BaseInv
  <1>2. BaseInv /\ TaskInv /\ DiffInv /\ [Next]_vars => (BaseInv /\ TaskInv /\ DiffInv)'
    BY BaseStep, TaskStep, DiffStep
  <1>3. DiffInv => DifficultyBeforeJob
    BY DEF DiffInv, Warned, DifficultyBeforeJob
  <1> QED BY <1>1, <1>2, <1>3, PTL DEF Spec
-----------------------------------------------------------------------------
(* The extranonce a miner works with. *)

\* An IceRiver-like miner on a plain port is told at neither end: subscribe takes
\* it for a plain miner and authorize for an IceRiver.
Untold == profile = "icm" /\ ~common

Told(e) == \E kind \in {"subscribed", "set_extranonce"} : Heard(MsgWith(kind, e))
Tells(e) == {MsgWith("subscribed", e), MsgWith("set_extranonce", e)}
Listed(e) == \E i \in 1 .. Len(todo) : todo[i] \in Tells(e)

\* The handler that tells the miner its extranonce.
Teller == IF told_at_subscribe THEN "subscribe" ELSE "authorize"

\* The miner has been told once its teller has returned Ok, and as long as the
\* teller runs the message is still among those it has to send.
TellInv ==
    (~stalled /\ extranonce # None /\ ~Untold) =>
        /\ settled => Told(extranonce)
        /\ subscribed /\ told_at_subscribe => Told(extranonce)
        /\ handling = Teller => Told(extranonce) \/ Listed(extranonce)

\* Lines stay read, and a write that has stalled is not forgotten.
LEMMA LinesGrow ==
    ASSUME WriteInv, [WriteNext]_writevars
    PROVE  lines \subseteq lines' /\ (~stalled' => ~stalled)
  <1>1. lines \subseteq lines'
    BY LinesOfStep
  <1>2. stalls \in Nat
    BY WriteAssumption DEF WriteInv, WriteTypeOK
  <1>3. stalls' = stalls \/ stalls' = stalls + 1
    BY DEF WriteNext, write_step, write_lost, send, take_half, lock_busy, write_head, write_late, write_tail,
           send_refused, half_gone, lock_busy_last, write_fails, disconnect, disconnect_half
  <1> QED BY <1>1, <1>2, <1>3

\* What has been told stays told.
LEMMA ToldStays ==
    ASSUME lines \subseteq lines', NEW e, Told(e)
    PROVE  Told(e)'
  BY DEF Told, Heard

\* A step that leaves the handshake of the miner alone.
LEMMA TellFrame ==
    ASSUME TellInv, lines \subseteq lines', ~stalled' => ~stalled,
           UNCHANGED <<profile, common, extranonce, settled, subscribed, handling, todo>>
    PROVE  TellInv'
  <1>1. Told(extranonce) => Told(extranonce)'
    BY DEF Told, Heard
  <1>2. Listed(extranonce) => Listed(extranonce)'
    BY DEF Listed, Tells
  <1> QED BY <1>1, <1>2 DEF TellInv, Untold, Teller, told_at_subscribe

\* The scripts of the two tellers hold the message.
LEMMA SubscribeTells ==
    ASSUME NEW e \in Extranonces, ~Untold, told_at_subscribe,
           profile \in {"bitmain", "iceriver", "icm", "other"}, common \in BOOLEAN
    PROVE  \E i \in 1 .. Len(subscribe_script(e)) : subscribe_script(e)[i] \in Tells(e)
  <1>0. e # None
    BY HandshakeAssumption
  <1>1. CASE common
    <2> DEFINE first == MsgWith("subscribed", IF profile = "bitmain" THEN e ELSE None)
    <2>1. subscribe_script(e) = <<first>> \o <<MsgWith("set_extranonce", e), Msg("set_difficulty")>>
      BY <1>1 DEF subscribe_script
    <2> HIDE DEF first
    <2>2. /\ Len(subscribe_script(e)) = 3
          /\ subscribe_script(e)[2] = MsgWith("set_extranonce", e)
      BY <2>1
    <2> QED BY <2>2 DEF Tells
  <1>2. CASE ~common /\ profile = "iceriver"
    <2>1. subscribe_script(e) = <<MsgWith("subscribed", None)>> \o <<MsgWith("set_extranonce", e)>>
      BY <1>0, <1>2 DEF subscribe_script
    <2>2. /\ Len(subscribe_script(e)) = 2
          /\ subscribe_script(e)[2] = MsgWith("set_extranonce", e)
      BY <2>1
    <2> QED BY <2>2 DEF Tells
  <1>3. CASE ~common /\ profile = "bitmain"
    <2>1. subscribe_script(e) = <<MsgWith("subscribed", e)>> \o <<>>
      BY <1>3 DEF subscribe_script
    <2>2. /\ Len(subscribe_script(e)) = 1
          /\ subscribe_script(e)[1] = MsgWith("subscribed", e)
      BY <2>1
    <2> QED BY <2>2 DEF Tells
  <1> QED BY <1>1, <1>2, <1>3 DEF Untold, told_at_subscribe

\* The message at the head is read when the call returns Ok and nothing has stalled.
LEMMA HeadIsHeard ==
    ASSUME BaseInv, TaskInv, reader_continues, ~stalled, NEW e, Listed(e)
    PROVE  Told(e)' \/ Listed(e)'
  <1>1. /\ todo # <<>> /\ todo' = Tail(todo) /\ at[Reader] = "within"
        /\ lines' = lines \union {[msg |-> msg[Reader], whole |-> fragments = 1]}
    BY DEF reader_continues, write_tail
  <1>2. fragments = 1 /\ msg[Reader] = Head(todo) /\ todo \in Seq(Messages)
    BY <1>1, HandshakeAssumption, RepliesAreMessages DEF BaseInv, WriteInv, WireInv, TaskInv, HandshakeTypes
  <1>3. [msg |-> Head(todo), whole |-> TRUE] \in lines'
    BY <1>1, <1>2
  <1>4. PICK i \in 1 .. Len(todo) : todo[i] \in Tells(e)
    BY DEF Listed
  <1>5. CASE i = 1
    <2>1. Head(todo) \in Tells(e)
      BY <1>2, <1>4, <1>5
    <2>2. \E kind \in {"subscribed", "set_extranonce"} : Head(todo) = MsgWith(kind, e)
      BY <2>1 DEF Tells
    <2>3. Told(e)'
      BY <1>3, <2>2 DEF Told, Heard, MsgWith
    <2> QED BY <2>3
  <1>6. CASE i # 1
    <2>1. i - 1 \in 1 .. Len(todo') /\ todo'[i - 1] = todo[i]
      BY <1>1, <1>2, <1>6
    <2>2. Listed(e)'
      BY <1>4, <2>1 DEF Listed, Tells, MsgWith
    <2> QED BY <2>2
  <1> QED BY <1>5, <1>6

LEMMA TellStep ==
    ASSUME BaseInv, TaskInv, TellInv, [Next]_vars PROVE TellInv'
  <1>0. TypeOK /\ WriteInv /\ <<profile, common>> \in Kinds /\ todo \in Seq(Messages)
    BY TypesSplit, RepliesAreMessages DEF BaseInv, WriteInv, HandshakeTypes
  <1>a. profile \in {"bitmain", "iceriver", "icm", "other"} /\ common \in BOOLEAN
    BY <1>0, HandshakeAssumption
  <1>1. lines \subseteq lines' /\ (~stalled' => ~stalled)
    BY <1>0, HandshakeStep, LinesGrow
  <1>2. CASE UNCHANGED <<profile, common, extranonce, settled, subscribed, handling, todo>>
    BY <1>1, <1>2, TellFrame
  <1>3. CASE handle_subscribe
    <2>1. /\ UNCHANGED config /\ settled' = FALSE /\ subscribed' = FALSE /\ handling' = "subscribe"
          /\ todo' = subscribe_script(extranonce')
      BY <1>3 DEF handle_subscribe, accept_frame
    <2>2. extranonce' \in Extranonces \union {None}
      BY BaseStep DEF BaseInv, HandshakeTypes
    <2> SUFFICES ASSUME extranonce' # None, ~Untold', told_at_subscribe' PROVE Listed(extranonce)'
      BY <2>1 DEF TellInv, Teller
    <2>3. extranonce' \in Extranonces /\ ~Untold /\ told_at_subscribe
      BY <2>1, <2>2 DEF Untold, told_at_subscribe
    <2>4. \E i \in 1 .. Len(todo') : todo'[i] \in Tells(extranonce')
      BY <1>a, <2>1, <2>3, SubscribeTells
    <2> QED BY <2>4 DEF Listed, Tells, MsgWith
  <1>4. CASE handle_authorize \/ handle_extranonce_subscribe
    <2>1. UNCHANGED <<config, extranonce, settled, subscribed>> /\ handling' \in {"authorize", "extranonce_subscribe"}
      BY <1>4 DEF handle_authorize, handle_extranonce_subscribe, accept_frame
    <2>2. Told(extranonce) => Told(extranonce)'
      BY <1>1, <2>1 DEF Told, Heard
    <2>3. ASSUME extranonce # None, ~told_at_subscribe, handle_authorize PROVE Listed(extranonce)'
      <3>1. todo' = <<Msg("authorized")>> \o <<MsgWith("set_extranonce", extranonce)>>
        BY <2>3 DEF handle_authorize
      <3>2. 2 \in 1 .. Len(todo') /\ todo'[2] = MsgWith("set_extranonce", extranonce)
        BY <3>1
      <3> QED BY <2>1, <3>2 DEF Listed, Tells, MsgWith
    <2>4. handling' = "authorize" => handle_authorize
      BY <1>4 DEF handle_extranonce_subscribe, accept_frame
    <2> QED BY <1>1, <2>1, <2>2, <2>3, <2>4 DEF TellInv, Untold, Teller, told_at_subscribe
  <1>5. CASE handler_ends
    <2>1. /\ UNCHANGED <<config, extranonce, lines>> /\ todo = <<>> /\ handling' = "idle"
          /\ subscribed' = (subscribed \/ handling = "subscribe")
          /\ settled' = (settled \/ (handling = "authorize" /\ subscribed))
      BY <1>5 DEF handler_ends
    <2>2. ~Listed(extranonce)
      BY <2>1 DEF Listed
    <2>3. Told(extranonce) => Told(extranonce)'
      BY <1>1, <2>1 DEF Told, Heard
    <2> QED BY <1>1, <2>1, <2>2, <2>3 DEF TellInv, Untold, Teller, told_at_subscribe
  <1>6. CASE reader_continues
    <2>1. UNCHANGED <<config, extranonce, settled, subscribed, handling>>
      BY <1>6 DEF reader_continues
    <2>2. Told(extranonce) => Told(extranonce)'
      BY <1>1, <2>1 DEF Told, Heard
    <2>3. ASSUME ~stalled, Listed(extranonce) PROVE Told(extranonce)' \/ Listed(extranonce)'
      <3> DEFINE e == extranonce
      <3>1. Told(e)' \/ Listed(e)'
        BY <1>6, <2>3, <2>1, HeadIsHeard
      <3> QED BY <3>1, <2>1
    <2> QED BY <1>1, <2>1, <2>2, <2>3 DEF TellInv, Untold, Teller, told_at_subscribe
  <1>7. CASE handler_fails
    <2>1. UNCHANGED <<config, extranonce, settled, subscribed>> /\ handling' = "idle"
      BY <1>7 DEF handler_fails
    <2>2. Told(extranonce) => Told(extranonce)'
      BY <1>1, <2>1 DEF Told, Heard
    <2> QED BY <1>1, <2>1, <2>2 DEF TellInv, Untold, Teller, told_at_subscribe
  <1>8. CASE \/ immediate_built \/ block_built \/ watchdog_wakes \/ reader_sends \/ WorkerStep
             \/ WatchdogStep \/ CloseSteps \/ UNCHANGED vars \/ \E w \in Writers : call_step(w)
    BY <1>2, <1>8
    DEF immediate_built, block_built, watchdog_wakes, reader_sends, WorkerStep, worker_sends, worker_continues,
        worker_fails, WatchdogStep, watchdog_hints, watchdog_hinted, CloseSteps, watchdog_disconnects, hang_up,
        finish_disconnect, call_step
  <1> QED BY <1>3, <1>4, <1>5, <1>6, <1>7, <1>8, ActionsOfNext DEF Quiet, ReaderStep

\* Every miner whose handshake was carried out knows the extranonce its shares are
\* checked against, whichever handler tells its kind and whoever else writes
\* meanwhile; but for the IceRiver-like miners that neither handler tells.
THEOREM SettledCorrect == Spec => [](~Untold => SettledKnowsExtranonce)
  <1>1. Init => BaseInv /\ TaskInv /\ TellInv
    <2> SUFFICES ASSUME Init PROVE BaseInv /\ TaskInv /\ TellInv
      OBVIOUS
    <2>1. TaskInv
      BY HandshakeAssumption DEF Init, WriteInit, TaskInv
    <2>2. TellInv
      BY DEF Init, TellInv
    <2> QED BY <2>1, <2>2, TypesInit DEF BaseInv
  <1>2. BaseInv /\ TaskInv /\ TellInv /\ [Next]_vars => (BaseInv /\ TaskInv /\ TellInv)'
    BY BaseStep, TaskStep, TellStep
  <1>3. TellInv => (~Untold => SettledKnowsExtranonce)
    BY DEF TellInv, Told, SettledKnowsExtranonce
  <1> QED BY <1>1, <1>2, <1>3, PTL DEF Spec
=============================================================================
