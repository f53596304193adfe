--------------------------- MODULE StratumWrite ---------------------------
(***************************************************************************)
(* Writing to a miner (stratum_context.rs). The frame handlers, the job    *)
(* tasks and the watchdog of a connection all write through write_data. A  *)
(* writer sets write_lock, takes the write half out of its slot, writes    *)
(* under a deadline, puts the half back and clears the lock. It has a few  *)
(* attempts, each of them used up by a lock it finds set or by a deadline  *)
(* that passes, and a deadline may pass when part of the line is already   *)
(* on the wire. disconnect runs beside the writers: it raises the flag and *)
(* shuts the half down if it finds it in its slot.                         *)
(*                                                                         *)
(* A line goes out in two pieces, the second with the newline; whether one *)
(* first piece or several wait for a newline is what tells a whole line    *)
(* from a torn one. Setting the lock and taking the half are one step, and *)
(* so are the end of a write, putting the half back and clearing the lock: *)
(* a disconnect or another writer that comes between them finds what it    *)
(* would have found just before.                                           *)
(***************************************************************************)
EXTENDS Naturals

CONSTANTS
    Writers,       \* tasks that write to the connection
    Messages,      \* what they write
    Attempts,      \* attempts of a call: 3 in the code
    MaxStalls,     \* bound: writes that fail or pass their deadline
    Slot, Shut,    \* where the write half is when no writer has it
    None

ASSUME WriteAssumption ==
    /\ Attempts \in Nat \ {0} /\ MaxStalls \in Nat
    /\ Slot \notin Writers /\ Shut \notin Writers /\ Slot # Shut
    /\ None \notin Messages /\ None \notin Writers

VARIABLES
    closer,       \* disconnect: "open", then "flagged", then "closed"
    closing,      \* a task that will call disconnect has been spawned
    write_lock,   \* holder of the lock, or None
    write_half,   \* Slot, Shut, or the writer that took it
    at,           \* writer -> where its call is
    attempt,      \* writer -> attempts used up before this one
    msg,          \* writer -> message of its call
    lines,        \* lines the miner has read: the message at its end, and whether it is whole
    fragments,    \* first pieces on the wire since the last newline: 0, 1 or more
    stalls,       \* history: writes that failed or passed their deadline
    crowded,      \* history: a call has found the lock set at each of its attempts
    lost          \* history: a call has failed for another reason

calls == <<at, attempt, msg>>
wire == <<lines, fragments>>
past == <<stalls, crowded, lost>>
ending == <<closer, closing>>
writevars == <<calls, wire, past, ending, write_lock, write_half>>

disconnecting == closer # "open"
stalled == stalls # 0

WriteInit ==
    /\ closer = "open" /\ closing = FALSE
    /\ write_lock = None /\ write_half = Slot
    /\ at = [w \in Writers |-> "idle"]
    /\ attempt = [w \in Writers |-> 0]
    /\ msg = [w \in Writers |-> None]
    /\ lines = {} /\ fragments = 0
    /\ stalls = 0 /\ crowded = FALSE /\ lost = FALSE

Move(w, step) == at' = [at EXCEPT ![w] = step]

\* The call returns.
Return(w) ==
    /\ Move(w, "idle")
    /\ attempt' = [attempt EXCEPT ![w] = 0]
    /\ msg' = [msg EXCEPT ![w] = None]

Retry(w) ==
    /\ Move(w, "try")
    /\ attempt' = [attempt EXCEPT ![w] = @ + 1]
    /\ msg' = msg

last_attempt(w) == attempt[w] + 1 = Attempts

-----------------------------------------------------------------------------

\* reply, send, send_notification and send_v1_notification look at the flag, put
\* the line together and call write_data, which looks at it again.
send(w, m) ==
    /\ at[w] = "idle"
    /\ ~disconnecting
    /\ Move(w, "try")
    /\ msg' = [msg EXCEPT ![w] = m]
    /\ UNCHANGED <<attempt, wire, past, ending, write_lock, write_half>>

send_refused(w) ==
    /\ at[w] = "idle"
    /\ disconnecting
    /\ lost' = TRUE
    /\ UNCHANGED <<calls, wire, stalls, crowded, ending, write_lock, write_half>>

\* compare_exchange succeeds.
lock_free == write_lock = None

take_half(w) ==
    /\ at[w] = "try"
    /\ lock_free
    /\ write_half = Slot
    /\ write_lock' = w /\ write_half' = w
    /\ Move(w, "writing")
    /\ UNCHANGED <<attempt, msg, wire, past, ending>>

\* The lock is had and the half is not there: the lock is cleared again.
half_gone(w) ==
    /\ at[w] = "try"
    /\ lock_free
    /\ write_half # Slot
    /\ Return(w)
    /\ lost' = TRUE
    /\ UNCHANGED <<wire, stalls, crowded, ending, write_lock, write_half>>

\* compare_exchange fails: ten milliseconds, then the next attempt, if any.
lock_busy(w) ==
    /\ at[w] = "try"
    /\ write_lock # None
    /\ ~last_attempt(w)
    /\ Retry(w)
    /\ UNCHANGED <<wire, past, ending, write_lock, write_half>>

\* The call fails and the connection stays: the message is lost.
lock_busy_last(w) ==
    /\ at[w] = "try"
    /\ write_lock # None
    /\ last_attempt(w)
    /\ Return(w)
    /\ crowded' = TRUE
    /\ UNCHANGED <<wire, stalls, lost, ending, write_lock, write_half>>

write_head(w) ==
    /\ at[w] = "writing"
    /\ fragments' = IF fragments = 0 THEN 1 ELSE 2
    /\ Move(w, "within")
    /\ UNCHANGED <<attempt, msg, lines, past, ending, write_lock, write_half>>

\* The half goes back to its slot whatever the outcome, and whether or not the
\* connection is being closed; then the lock is cleared.
put_back == write_half' = Slot /\ write_lock' = None

\* Fault: the socket may take part of the line, and that counts for all of it.
write_tail_short(w) ==
    /\ at[w] = "within"
    /\ \/ UNCHANGED wire
       \/ lines' = lines \union {[msg |-> msg[w], whole |-> fragments = 1]} /\ fragments' = 0
    /\ Return(w)
    /\ put_back
    /\ UNCHANGED <<past, ending>>

\* write_all returns Ok.
write_tail(w) ==
    /\ at[w] = "within"
    /\ lines' = lines \union {[msg |-> msg[w], whole |-> fragments = 1]}
    /\ fragments' = 0
    /\ Return(w)
    /\ put_back
    /\ UNCHANGED <<past, ending>>

\* Fault: nobody is told of a socket that failed.
check_disconnect_never == closing' = closing

check_disconnect == closing' = (closing \/ ~disconnecting)

\* Five seconds pass: the whole line is tried again, whatever part of it is out.
write_late(w) ==
    /\ at[w] \in {"writing", "within"}
    /\ ~last_attempt(w)
    /\ Retry(w)
    /\ put_back
    /\ stalls < MaxStalls /\ stalls' = stalls + 1
    /\ UNCHANGED <<wire, crowded, lost, ending>>

\* The socket fails, or the last deadline passes.
write_fails(w) ==
    /\ at[w] \in {"writing", "within"}
    /\ Return(w)
    /\ put_back
    /\ check_disconnect
    /\ stalls < MaxStalls /\ stalls' = stalls + 1
    /\ lost' = TRUE
    /\ UNCHANGED <<wire, crowded, closer>>

\* The task that check_disconnect spawned, on_disconnect, the watchdog and a job
\* task all call it; only the first raises the flag.
disconnect ==
    /\ closer = "open"
    /\ closer' = "flagged"
    /\ closing' = FALSE
    /\ UNCHANGED <<calls, wire, past, write_lock, write_half>>

\* Fault: the half is shut down wherever it is.
shuts_half_always == write_half' = Shut

\* A half that a writer has taken is not there to be shut down.
shuts_half == write_half' = IF write_half = Slot THEN Shut ELSE write_half

disconnect_half ==
    /\ closer = "flagged"
    /\ closer' = "closed"
    /\ shuts_half
    /\ UNCHANGED <<calls, wire, past, closing, write_lock>>

-----------------------------------------------------------------------------

\* The steps of a call that goes on, and the ways it may fail.
write_step(w) == take_half(w) \/ lock_busy(w) \/ write_head(w) \/ write_late(w)
write_lost(w) == send_refused(w) \/ half_gone(w) \/ lock_busy_last(w) \/ write_fails(w)

WriteNext ==
    \/ \E w \in Writers :
        (\E m \in Messages : send(w, m)) \/ write_step(w) \/ write_tail(w) \/ write_lost(w)
    \/ disconnect \/ disconnect_half

WriteSpec == WriteInit /\ [][WriteNext]_writevars

-----------------------------------------------------------------------------

WriteTypeOK ==
    /\ closer \in {"open", "flagged", "closed"} /\ closing \in BOOLEAN
    /\ write_lock \in Writers \union {None}
    /\ write_half \in Writers \union {Slot, Shut}
    /\ at \in [Writers -> {"idle", "try", "writing", "within"}]
    /\ attempt \in [Writers -> 0 .. Attempts - 1]
    /\ msg \in [Writers -> Messages \union {None}]
    /\ lines \subseteq [msg : Messages, whole : BOOLEAN]
    /\ fragments \in 0 .. 2
    /\ stalls \in 0 .. MaxStalls /\ crowded \in BOOLEAN /\ lost \in BOOLEAN

\* The bytes of two writers never mix. So a line the miner cannot read has a cause:
\* a write before it that failed or passed its deadline and was begun again.
TornLinesHaveACause == \A l \in lines : l.whole \/ stalled

\* Once disconnect has shut the half down nothing more is written.
SilentAfterShutdown == [][write_half = Shut => UNCHANGED wire]_writevars

\* A call that fails, other than on a busy lock, leaves a connection that is being
\* closed: nobody goes on with a miner that misses a message.
LostMeansClosed == lost => closing \/ disconnecting
=============================================================================
