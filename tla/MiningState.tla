---------------------------- MODULE MiningState ----------------------------
(***************************************************************************)
(* The job store of one Stratum connection (mining_state.rs): a ring of    *)
(* MaxJobs slots in which job id i lives at slot i % MaxJobs, together     *)
(* with the difficulty that was in force when the job was added.           *)
(*                                                                         *)
(* The job-building tasks of client_handler.rs add jobs while the frame    *)
(* loop of the same connection looks them up, so the two look-ups that     *)
(* take their locks one after the other (get_job_diff, latest_job) are     *)
(* two steps here; add_job and get_job hold every lock they need at once   *)
(* and are atomic.                                                         *)
(***************************************************************************)
EXTENDS Naturals, FiniteSets, FiniteSetsExt

CONSTANTS
    MaxJobs,    \* MAX_JOBS: number of slots of the ring
    Jobs,       \* the job contents that can be added
    Diffs,      \* the share difficulties in use
    Readers,    \* the tasks that look jobs up
    MaxPublish, \* bound: number of jobs added in a behaviour
    None        \* Rust's Option::None

ASSUME MaxJobsAssumption == MaxJobs \in Nat \ {0}
ASSUME MaxPublishAssumption == MaxPublish \in Nat
ASSUME NoneAssumption == None \notin Jobs \union Diffs \union Nat

VARIABLES
    jobs,         \* slot -> job content, None where the map has no entry
    job_ids,      \* slot -> id of the job stored there
    job_diffs,    \* slot -> difficulty recorded with that job
    job_counter,  \* id of the last job added
    stratum_diff, \* the connection's current difficulty
    published,    \* history: id -> what was added under it, and with which difficulty
    look          \* reader -> progress and result of its current look-up

vars == <<jobs, job_ids, job_diffs, job_counter, stratum_diff, published, look>>

Slots == 0 .. MaxJobs - 1
Slot(id) == id % MaxJobs

\* A reader is idle, holds an id it has read from job_ids but not yet used, or
\* holds the answer of its last look-up.
Idle == [at |-> "idle", id |-> None, result |-> None]
Looks == [at : {"idle", "diff", "latest", "diff_done", "latest_done"},
          id : Nat \union {None}, result : Jobs \union Diffs \union {None}]

Init ==
    /\ jobs = [s \in Slots |-> None]
    /\ job_ids = [s \in Slots |-> None]
    /\ job_diffs = [s \in Slots |-> None]
    /\ job_counter = 0
    /\ stratum_diff = None
    /\ published = [i \in {} |-> None]
    /\ look = [r \in Readers |-> Idle]

-----------------------------------------------------------------------------
(* Writers. *)

\* The difficulty in force is recorded with the job; a connection without one
\* erases the entry of the slot.
recorded_diff(slot) == stratum_diff

\* Fault: the counter starts over with the ring.
next_id_wraps == IF job_counter = MaxJobs THEN 1 ELSE job_counter + 1

next_id == job_counter + 1

\* The next id takes the slot of the job MaxJobs before it.
add_job(job) ==
    LET idx == next_id
        slot == Slot(idx)
    IN  /\ job_counter < MaxPublish
        /\ job_counter' = idx
        /\ jobs' = [jobs EXCEPT ![slot] = job]
        /\ job_ids' = [job_ids EXCEPT ![slot] = idx]
        /\ job_diffs' = [job_diffs EXCEPT ![slot] = recorded_diff(slot)]
        /\ published' = [i \in 1 .. idx |->
                            IF i = idx THEN [job |-> job, diff |-> stratum_diff]
                                       ELSE published[i]]
        /\ UNCHANGED <<stratum_diff, look>>

set_stratum_diff(d) ==
    /\ stratum_diff' = d
    /\ UNCHANGED <<jobs, job_ids, job_diffs, job_counter, published, look>>

-----------------------------------------------------------------------------
(* Look-ups. *)

\* Fault: the slot answers for every id that maps to it.
get_job_aliased(id) == jobs[Slot(id)]

\* The id stored at the slot must be the id asked for.
get_job(id) == IF job_ids[Slot(id)] = id THEN jobs[Slot(id)] ELSE None

stored_job_ids == {job_ids[s] : s \in Slots} \ {None}

\* Fault: the id is not compared with the one asked for.
job_id_stored_any(id) == job_ids[Slot(id)] # None

job_id_stored(id) == job_ids[Slot(id)] = id

\* get_job_diff, first lock: the id is checked, and the lock released.
get_job_diff_check(r, id) ==
    /\ look[r].at \in {"idle", "diff_done", "latest_done"}
    /\ look' = [look EXCEPT ![r] =
                   IF job_id_stored(id)
                   THEN [at |-> "diff", id |-> id, result |-> None]
                   ELSE [at |-> "diff_done", id |-> id, result |-> None]]
    /\ UNCHANGED <<jobs, job_ids, job_diffs, job_counter, stratum_diff, published>>

\* get_job_diff, second lock: the difficulty is read from the slot.
get_job_diff_read(r) ==
    /\ look[r].at = "diff"
    /\ look' = [look EXCEPT ![r] = [at |-> "diff_done", id |-> look[r].id,
                                    result |-> job_diffs[Slot(look[r].id)]]]
    /\ UNCHANGED <<jobs, job_ids, job_diffs, job_counter, stratum_diff, published>>

\* latest_job, first lock: the greatest stored id, or nothing at all.
latest_job_max(r) ==
    /\ look[r].at \in {"idle", "diff_done", "latest_done"}
    /\ look' = [look EXCEPT ![r] =
                   IF stored_job_ids = {}
                   THEN [at |-> "latest_done", id |-> None, result |-> None]
                   ELSE [at |-> "latest", id |-> Max(stored_job_ids), result |-> None]]
    /\ UNCHANGED <<jobs, job_ids, job_diffs, job_counter, stratum_diff, published>>

\* latest_job, second pair of locks: the exact job under that id.
latest_job_get(r) ==
    /\ look[r].at = "latest"
    /\ look' = [look EXCEPT ![r] = [at |-> "latest_done", id |-> look[r].id,
                                    result |-> get_job(look[r].id)]]
    /\ UNCHANGED <<jobs, job_ids, job_diffs, job_counter, stratum_diff, published>>

Next ==
    \/ \E job \in Jobs : add_job(job)
    \/ \E d \in Diffs : set_stratum_diff(d)
    \/ \E r \in Readers :
          \/ \E id \in 1 .. MaxPublish : get_job_diff_check(r, id)
          \/ get_job_diff_read(r)
          \/ latest_job_max(r)
          \/ latest_job_get(r)

Spec == Init /\ [][Next]_vars

-----------------------------------------------------------------------------
(* Properties. *)

Published == [job : Jobs, diff : Diffs \union {None}]

\* Every variable has its type; the history is defined on exactly the ids that
\* add_job has handed out.
TypeOK ==
    /\ jobs \in [Slots -> Jobs \union {None}]
    /\ job_ids \in [Slots -> Nat \union {None}]
    /\ job_diffs \in [Slots -> Diffs \union {None}]
    /\ job_counter \in 0 .. MaxPublish
    /\ stratum_diff \in Diffs \union {None}
    /\ published \in [1 .. job_counter -> Published]
    /\ look \in [Readers -> Looks]

\* The id stored at a slot, in closed form: the last id handed out with that
\* residue. It is what makes look-ups by id exact after any number of wraps.
SlotHoldsNewest ==
    \A s \in Slots :
        IF \E i \in 1 .. job_counter : Slot(i) = s
        THEN /\ job_ids[s] \in 1 .. job_counter
             /\ Slot(job_ids[s]) = s
             /\ job_ids[s] + MaxJobs > job_counter
        ELSE job_ids[s] = None

\* The job and the difficulty of a slot are those the stored id was added with.
SlotMatchesHistory ==
    \A s \in Slots :
        job_ids[s] \in 1 .. job_counter =>
            /\ jobs[s] = published[job_ids[s]].job
            /\ job_diffs[s] = published[job_ids[s]].diff

\* The state of the ring in closed form, after any number of wraps: each slot
\* holds the newest job of its residue, with that job's content and difficulty.
RingInv == SlotHoldsNewest /\ SlotMatchesHistory

\* get_job's contract ("an expired ID must never alias the newer job occupying
\* the same slot"): an id still within the last MaxJobs yields exactly the job
\* added under it, any other id yields nothing.
ExactJob ==
    \A id \in 1 .. MaxPublish :
        get_job(id) = IF id <= job_counter /\ id + MaxJobs > job_counter
                      THEN published[id].job ELSE None

\* latest_job never pairs an id with another job's content, although the ring
\* may be rewritten between reading the id and reading the job.
LatestIsExact ==
    \A r \in Readers :
        (look[r].at = "latest_done" /\ look[r].result # None) =>
            /\ look[r].id \in 1 .. job_counter
            /\ look[r].result = published[look[r].id].job

\* get_job_diff's documentation: the answer is the difficulty "that was active
\* when this exact job was published". The id check and the read of the slot are
\* under two separate locks, so the ring may wrap between them.
JobDiffIsExact ==
    \A r \in Readers :
        (look[r].at = "diff_done" /\ look[r].result # None) =>
            /\ look[r].id \in 1 .. job_counter
            /\ look[r].result = published[look[r].id].diff

\* What the two-lock look-up does guarantee: the difficulty it returns was
\* recorded for a job of the same slot no older than the one asked for.
JobDiffOfSlot ==
    \A r \in Readers :
        (look[r].at = "diff_done" /\ look[r].result # None) =>
            /\ look[r].id \in 1 .. job_counter
            /\ \E i \in look[r].id .. job_counter :
                  Slot(i) = Slot(look[r].id) /\ look[r].result = published[i].diff

\* A retained job never changes: a step replaces the content of a slot only
\* together with its id, and ids only grow.
RetainedJobsAreImmutable ==
    [][\A s \in Slots :
          \/ job_ids'[s] = job_ids[s] /\ jobs'[s] = jobs[s] /\ job_diffs'[s] = job_diffs[s]
          \/ job_ids'[s] = job_counter' /\ job_counter' > job_counter]_vars
=============================================================================
