----------------------------- MODULE WorkProofs -----------------------------
(***************************************************************************)
(* Proofs about how work comes to the miners: the jobs of one connection   *)
(* (JobBuild), for any number of immediate tasks, addresses, templates and *)
(* jobs; and the process whose feeds ask for them (Bridge), for any number *)
(* of instances and any configuration. The two modules have no variable in *)
(* common. Liveness is left to TLC.                                        *)
(*                                                                         *)
(* Of a connection: job_build_lock is held for the whole of a full         *)
(* template, so a template that is being built is the latest one; a parent *)
(* refresh takes the lock only if its lane is still that of the newest     *)
(* job; and what is sent is the newest job.                                *)
(***************************************************************************)
EXTENDS JobBuild, Bridge, LaneTableProofs, TLAPS

JobRecords == [lane : Lanes, payee : Payees \union {None}, owner : Identities, diff : Diffs]

SessionTypes ==
    /\ connected \in BOOLEAN /\ auth \in {"idle", "wallet", "reply", "marked"}
    /\ identity \in Identities /\ payout \in Payees /\ authorized \in Identities
    /\ delivered \in Identities \union {None} /\ watchdogs \in SUBSET Identities
    /\ cut_short \in BOOLEAN /\ hasty \in BOOLEAN

TaskTypes ==
    /\ generation \in 0 .. MaxGenerations
    /\ lock \in Tasks \union {None}
    /\ pc \in [Tasks -> {"idle", "waiting", "template", "parent", "difficulty", "notify"}]
    /\ gen \in [Tasks -> 0 .. MaxGenerations] /\ owner \in [Tasks -> Identities]
    /\ payee \in [Tasks -> Payees] /\ job \in [Tasks -> 0 .. MaxJobs]
    /\ initial \in [Tasks -> Diffs \union {None}]

DiffTypes ==
    /\ fee_minute \in BOOLEAN /\ initialized \in BOOLEAN
    /\ stratum_diff \in Diffs /\ var_diff \in Diffs
    /\ told \in Diffs \union {None} /\ working \in 0 .. MaxJobs
    /\ turns \in 0 .. MaxTurns

StoreTypes == WellFormed(Lanes, PendingCap, pending) /\ jobs \in Seq(JobRecords) /\ Len(jobs) <= MaxJobs

Types == SessionTypes /\ TaskTypes /\ DiffTypes /\ StoreTypes

\* Steps of a full template, during which job_build_lock is held.
Building == {"template", "parent", "difficulty", "notify"}

\* Who builds a full template has the lock, and its template is the latest: no other
\* task can have asked for one since.
LockInv ==
    /\ \A t \in Tasks \ {Parent} : pc[t] \in Building => lock = t /\ gen[t] = generation /\ generation # 0
    /\ pc[Parent] \in {"idle", "parent", "notify"}
    /\ pc[Parent] = "notify" => lock = Parent
    /\ pc[Parent] = "parent" => gen[Parent] \in Lanes

\* An immediate job starts from the difficulty the worker was given.
InitialInv == pc[Block] # "waiting" /\ \A t \in Immediates : pc[t] # "idle" => initial[t] \in Diffs

\* No job is for a lane of the future; one that is being built is for a new lane.
LaneInv ==
    /\ \A i \in 1 .. Len(jobs) : jobs[i].lane <= generation
    /\ \A t \in Tasks \ {Parent} :
        pc[t] \in {"template", "parent"} => \A i \in 1 .. Len(jobs) : jobs[i].lane < generation

\* A job that is being sent is the newest one, and a refresh has a job to refresh.
SendInv ==
    /\ pc[Parent] = "parent" => Len(jobs) # 0
    /\ \A t \in Tasks : pc[t] \in {"difficulty", "notify"} => job[t] = Len(jobs) /\ Len(jobs) # 0
    /\ working <= Len(jobs)

BuildInv == Types /\ LockInv /\ InitialInv /\ LaneInv /\ SendInv /\ LanesMoveForward /\ AttributionIsTrue

LEMMA TypesGiveTypeOK == Types => TypeOK
  BY DEF Types, SessionTypes, TaskTypes, DiffTypes, StoreTypes, TypeOK, WellFormed, Tables, JobRecords

-----------------------------------------------------------------------------

\* Nothing has been asked for yet.
LEMMA BuildInitially == Init => BuildInv
  <1> SUFFICES ASSUME Init PROVE BuildInv
    OBVIOUS
  <1>1. WellFormed(Lanes, PendingCap, pending) /\ Known(pending) = {}
    BY EmptyFacts, BuildAssumption DEF Init
  <1>0. 0 \in Identities /\ 0 \in 0 .. MaxTurns /\ 0 \in 0 .. MaxJobs /\ Pool \in Payees
    BY BuildAssumption DEF Identities, Payees
  <1>2. SessionTypes
    BY <1>0, Zenon DEF Init, SessionTypes
  <1>3. TaskTypes
    BY BuildAssumption DEF Init, TaskTypes, Identities, Payees
  <1>4. DiffTypes
    BY <1>0, Zenon DEF Init, DiffTypes
  <1>5. StoreTypes /\ Len(jobs) = 0
    BY <1>1, BuildAssumption DEF Init, StoreTypes
  <1>6. Types
    BY <1>2, <1>3, <1>4, <1>5 DEF Types
  <1>7. LockInv /\ InitialInv
    BY DEF Init, LockInv, InitialInv, Building, Tasks
  <1>8. LaneInv /\ SendInv /\ LanesMoveForward /\ AttributionIsTrue
    BY <1>5 DEF Init, LaneInv, SendInv, LanesMoveForward, AttributionIsTrue, Tasks
  <1> QED BY <1>6, <1>7, <1>8 DEF BuildInv

\* The jobs in the store have their types.
LEMMA JobTypes ==
    ASSUME jobs \in Seq(JobRecords), NEW i \in 1 .. Len(jobs)
    PROVE  jobs[i] \in JobRecords /\ jobs[i].lane \in Lanes /\ jobs[i].owner \in Identities
  <1>1. jobs[i] \in JobRecords
    OBVIOUS
  <1> QED BY <1>1 DEF JobRecords

\* What is said of the jobs and the table stays when they do.
LEMMA StoreFrame ==
    ASSUME LanesMoveForward, AttributionIsTrue, UNCHANGED <<pending, jobs>>
    PROVE  LanesMoveForward' /\ AttributionIsTrue'
  BY DEF LanesMoveForward, AttributionIsTrue, paid_pool, Known

\* The authorize handler up to its job, the watchdog, vardiff and the fee minute, and
\* a client that is cut off: no task moves.
SessionStep ==
    \/ \E a \in 1 .. MaxAuths : authorize(a) \/ watchdog(a)
    \/ authorize_payout \/ authorize_reply_failed \/ authorize_extranonce_failed
    \/ mark_authorized \/ authorize_gone
    \/ block_no_wallet \/ hang_up
    \/ \E d \in Diffs, f \in BOOLEAN : turn(d, f)

LEMMA SessionKeeps == ASSUME BuildInv, SessionStep PROVE BuildInv'
  <1>1. SessionTypes'
    <2>1. CASE \E a \in 1 .. MaxAuths : authorize(a)
      BY <2>1, BuildAssumption DEF BuildInv, Types, SessionTypes, authorize, Identities
    <2>2. CASE \E a \in 1 .. MaxAuths : watchdog(a)
      BY <2>2 DEF BuildInv, Types, SessionTypes, watchdog, received_job
    <2>3. CASE \E d \in Diffs, f \in BOOLEAN : turn(d, f)
      BY <2>3 DEF BuildInv, Types, SessionTypes, turn, session
    <2>4. CASE \/ authorize_payout \/ authorize_reply_failed \/ authorize_extranonce_failed
               \/ mark_authorized \/ authorize_gone \/ block_no_wallet \/ hang_up
      BY <2>4 DEF BuildInv, Types, SessionTypes, authorize_payout, authorize_reply_failed,
                  authorize_extranonce_failed, mark_authorized, authorize_gone, block_no_wallet, hang_up
    <2> QED BY <2>1, <2>2, <2>3, <2>4 DEF SessionStep
  <1>2. UNCHANGED <<local, store, stratum_diff, initialized, told, working>>
    BY DEF SessionStep, authorize, watchdog, turn, authorize_payout, authorize_reply_failed,
           authorize_extranonce_failed, mark_authorized, authorize_gone, block_no_wallet, hang_up, diffs
  <1>3. var_diff' \in Diffs /\ fee_minute' \in BOOLEAN /\ turns' \in 0 .. MaxTurns
    <2>0. /\ var_diff \in Diffs /\ fee_minute \in BOOLEAN /\ turns \in 0 .. MaxTurns
      BY DEF BuildInv, Types, DiffTypes
    <2>1. CASE \E d \in Diffs, f \in BOOLEAN : turn(d, f)
      BY <2>0, <2>1, BuildAssumption DEF turn
    <2>2. CASE ~\E d \in Diffs, f \in BOOLEAN : turn(d, f)
      <3>1. UNCHANGED <<var_diff, fee_minute, turns>>
        BY <2>2 DEF SessionStep, authorize, watchdog, authorize_payout, authorize_reply_failed,
                    authorize_extranonce_failed, mark_authorized, authorize_gone, block_no_wallet,
                    hang_up, diffs
      <3> QED BY <2>0, <3>1
    <2> QED BY <2>1, <2>2
  <1>a. DiffTypes'
    BY <1>2, <1>3, Zenon DEF BuildInv, Types, DiffTypes
  <1>b. TaskTypes'
    BY <1>2 DEF BuildInv, Types, TaskTypes, local, store
  <1>4. TaskTypes' /\ DiffTypes' /\ StoreTypes'
    BY <1>a, <1>b, <1>2 DEF BuildInv, Types, StoreTypes, WellFormed, Known, store
  <1>5. LockInv' /\ InitialInv' /\ LaneInv' /\ SendInv'
    BY <1>2 DEF BuildInv, LockInv, InitialInv, LaneInv, SendInv, local, store
  <1>6. LanesMoveForward' /\ AttributionIsTrue'
    BY <1>2, StoreFrame DEF BuildInv, store
  <1> QED BY <1>1, <1>4, <1>5, <1>6 DEF BuildInv, Types

\* An immediate job is asked for, by authorize or by the refresh coordinator.
StartStep == \E t \in Immediates : authorize_job(t) \/ serve_refresh(t)

LEMMA StartKeeps == ASSUME BuildInv, StartStep PROVE BuildInv'
  <1>1. PICK t \in Immediates : authorize_job(t) \/ serve_refresh(t)
    BY DEF StartStep
  <1>2. /\ t \in Tasks /\ t # Parent /\ t # Block /\ pc[t] = "idle"
        /\ pc' = [pc EXCEPT ![t] = "waiting"] /\ initial' = [initial EXCEPT ![t] = var_diff]
        /\ stratum_diff' = var_diff
    BY <1>1, BuildAssumption DEF authorize_job, serve_refresh, start_immediate, Go, Tasks
  <1>3. UNCHANGED <<gen, owner, payee, job, store, initialized, var_diff, told, working, fee_minute, turns>>
    BY <1>1 DEF authorize_job, serve_refresh
  <1>4. SessionTypes'
    BY <1>1 DEF BuildInv, Types, SessionTypes, authorize_job, serve_refresh, session
  <1>5. TaskTypes' /\ DiffTypes' /\ StoreTypes'
    BY <1>2, <1>3 DEF BuildInv, Types, TaskTypes, DiffTypes, StoreTypes, WellFormed, Known, store
  <1>6. LockInv' /\ InitialInv' /\ LaneInv' /\ SendInv'
    BY <1>2, <1>3 DEF BuildInv, Types, TaskTypes, DiffTypes, LockInv, InitialInv, LaneInv, SendInv, store, Building, Tasks
  <1>7. LanesMoveForward' /\ AttributionIsTrue'
    BY <1>3, StoreFrame DEF BuildInv, store
  <1> QED BY <1>4, <1>5, <1>6, <1>7 DEF BuildInv, Types

\* A template is requested under the lock, with a generation of its own.
RequestStep == block_locks \/ \E t \in Immediates : immediate_locks(t)

LEMMA RequestKeeps == ASSUME BuildInv, RequestStep PROVE BuildInv'
  <1>1. PICK t \in Tasks \ {Parent} : request_template(t) /\ pc[t] \in {"idle", "waiting"} /\ (t = Block \/ pc[t] = "waiting")
    BY BuildAssumption DEF RequestStep, block_locks, immediate_locks, Tasks
  <1>2. /\ lock = None /\ lock' = t
        /\ generation < MaxGenerations /\ generation' = generation + 1
        /\ gen' = [gen EXCEPT ![t] = generation + 1] /\ owner' = [owner EXCEPT ![t] = identity]
        /\ payee' = [payee EXCEPT ![t] = payout] /\ pc' = [pc EXCEPT ![t] = "template"]
    BY <1>1 DEF request_template, can_lock, Go
  <1>3. UNCHANGED <<session, pending, jobs, job, initial, diffs, fee_minute, turns>>
    BY <1>1 DEF request_template
  <1>4. generation \in Nat /\ generation + 1 \in Lanes
    BY <1>2, BuildAssumption DEF BuildInv, Types, TaskTypes, Lanes
  <1>5. TaskTypes'
    BY <1>2, <1>3, <1>4, BuildAssumption DEF BuildInv, Types, TaskTypes, SessionTypes, Lanes
  <1>6. SessionTypes' /\ DiffTypes' /\ StoreTypes'
    BY <1>3 DEF BuildInv, Types, SessionTypes, DiffTypes, StoreTypes, WellFormed, Known, session, diffs
  <1>7. \A s \in Tasks \ {t} : pc'[s] = pc[s] /\ gen'[s] = gen[s]
    BY <1>2 DEF BuildInv, Types, TaskTypes
  <1>8. \A s \in Tasks \ {Parent} : pc[s] \notin Building
    BY <1>2, BuildAssumption DEF BuildInv, LockInv
  <1>9. pc[Parent] # "notify" /\ Parent \in Tasks \ {t} /\ pc'[t] = "template" /\ gen'[t] = generation'
    BY <1>1, <1>2, BuildAssumption DEF BuildInv, LockInv, Types, TaskTypes, Tasks
  <1>10. LockInv'
    BY <1>2, <1>4, <1>7, <1>8, <1>9 DEF BuildInv, LockInv
  <1>11. InitialInv'
    BY <1>1, <1>2, <1>3, <1>7, BuildAssumption DEF BuildInv, InitialInv, Types, TaskTypes, Tasks
  <1>12. \A i \in 1 .. Len(jobs) : jobs[i].lane \in Int
    BY JobTypes DEF BuildInv, Types, StoreTypes, Lanes
  <1>13. LaneInv'
    BY <1>2, <1>3, <1>4, <1>12 DEF BuildInv, LaneInv
  <1>14. SendInv'
    BY <1>3, <1>7, <1>9 DEF BuildInv, SendInv, diffs
  <1>15. LanesMoveForward' /\ AttributionIsTrue'
    BY <1>3, StoreFrame DEF BuildInv
  <1> QED BY <1>5, <1>6, <1>10, <1>11, <1>13, <1>14, <1>15 DEF BuildInv, Types

\* The template arrives and the payee is decided.
LEMMA ArriveKeeps == ASSUME BuildInv, NEW t \in Tasks, template_arrives(t) PROVE BuildInv'
  <1>1. /\ t # Parent /\ pc[t] = "template"
        /\ pc' = [pc EXCEPT ![t] = "parent"]
        /\ payee' = [payee EXCEPT ![t] = IF fee_minute THEN Pool ELSE @]
    BY BuildAssumption DEF template_arrives, Go, BuildInv, LockInv
  <1>2. UNCHANGED <<session, gen, owner, job, initial, store, diffs, fee_minute, turns>>
    BY DEF template_arrives
  <1>3. payee' \in [Tasks -> Payees]
    BY <1>1 DEF BuildInv, Types, TaskTypes, Payees
  <1>4. TaskTypes'
    BY <1>1, <1>2, <1>3 DEF BuildInv, Types, TaskTypes, store
  <1>5. SessionTypes' /\ DiffTypes' /\ StoreTypes'
    BY <1>2 DEF BuildInv, Types, SessionTypes, DiffTypes, StoreTypes, WellFormed, Known, session, diffs, store
  <1>6. LockInv' /\ InitialInv' /\ LaneInv' /\ SendInv'
    BY <1>1, <1>2 DEF BuildInv, Types, TaskTypes, LockInv, InitialInv, LaneInv, SendInv, store, diffs, Building, Tasks
  <1>7. LanesMoveForward' /\ AttributionIsTrue'
    BY <1>2, StoreFrame DEF BuildInv, store
  <1> QED BY <1>4, <1>5, <1>6, <1>7 DEF BuildInv, Types

\* A task that ends gives up its locals and, if it has it, the lock; whoever else
\* builds keeps it.
LEMMA FinishKeeps ==
    ASSUME BuildInv, NEW t \in Tasks, Finish(t), UNCHANGED <<generation, jobs>>, working' <= Len(jobs)
    PROVE  TaskTypes' /\ LockInv' /\ InitialInv' /\ LaneInv' /\ SendInv'
  <1>1. /\ pc' = [pc EXCEPT ![t] = "idle"] /\ lock' = IF lock = t THEN None ELSE lock
        /\ gen' = [gen EXCEPT ![t] = 0] /\ owner' = [owner EXCEPT ![t] = 0]
        /\ payee' = [payee EXCEPT ![t] = Pool] /\ job' = [job EXCEPT ![t] = 0]
        /\ initial' = [initial EXCEPT ![t] = None]
    BY DEF Finish, Go
  <1>2. TaskTypes'
    BY <1>1, BuildAssumption DEF BuildInv, Types, TaskTypes, Identities, Payees
  <1>3. pc'[t] = "idle"
    BY <1>1 DEF BuildInv, Types, TaskTypes
  <1>4. \A s \in Tasks \ {t} : /\ pc'[s] = pc[s] /\ gen'[s] = gen[s] /\ job'[s] = job[s] /\ initial'[s] = initial[s]
                               /\ lock = s => lock' = s
    BY <1>1 DEF BuildInv, Types, TaskTypes
  <1>5. Parent \in Tasks /\ Block \in Tasks /\ Immediates \subseteq Tasks
    BY DEF Tasks
  <1>6. LockInv'
    BY <1>3, <1>4, <1>5 DEF BuildInv, LockInv, Building
  <1>7. InitialInv'
    BY <1>3, <1>4, <1>5 DEF BuildInv, InitialInv
  <1>8. LaneInv'
    BY <1>3, <1>4 DEF BuildInv, LaneInv
  <1>9. SendInv'
    BY <1>3, <1>4, <1>5 DEF BuildInv, SendInv
  <1> QED BY <1>2, <1>6, <1>7, <1>8, <1>9

\* Tasks that end without a job sent, and the one that has sent it.
EndStep(t) == template_failed(t) \/ send_failed(t) \/ send_notify(t) \/ (t = Parent /\ parent_dropped)

LEMMA EndKeeps == ASSUME BuildInv, NEW t \in Tasks, EndStep(t) PROVE BuildInv'
  <1>1. Finish(t) /\ UNCHANGED <<generation, pending, jobs>>
    BY DEF EndStep, template_failed, send_failed, send_notify, parent_dropped
  <1>2. UNCHANGED <<stratum_diff, initialized, var_diff, told, fee_minute, turns, auth, identity, payout, authorized,
                    watchdogs, cut_short, hasty>>
    BY DEF EndStep, template_failed, send_failed, send_notify, parent_dropped, diffs, session
  <1>3. connected' \in {connected, FALSE}
    BY DEF EndStep, template_failed, send_failed, send_notify, parent_dropped, session
  <1>4. /\ working' \in 0 .. MaxJobs /\ working' <= Len(jobs)
        /\ delivered' \in Identities \union {None}
    <2>1. CASE send_notify(t)
      <3>1. job[t] \in 1 .. Len(jobs) /\ job[t] = Len(jobs) /\ Len(jobs) <= MaxJobs /\ job[t] \in 0 .. MaxJobs
        BY <2>1 DEF send_notify, BuildInv, SendInv, Types, StoreTypes, TaskTypes
      <3>2. jobs[job[t]].owner \in Identities
        BY <3>1, JobTypes DEF BuildInv, Types, StoreTypes
      <3> QED BY <2>1, <3>1, <3>2 DEF send_notify
    <2>2. CASE ~send_notify(t)
      BY <2>2 DEF EndStep, template_failed, send_failed, parent_dropped, diffs, session, BuildInv, Types, DiffTypes,
                  SessionTypes, SendInv
    <2> QED BY <2>1, <2>2
  <1>5. TaskTypes' /\ LockInv' /\ InitialInv' /\ LaneInv' /\ SendInv'
    BY <1>1, <1>4, FinishKeeps
  <1>6. SessionTypes'
    BY <1>2, <1>3, <1>4 DEF BuildInv, Types, SessionTypes
  <1>7. DiffTypes'
    BY <1>2, <1>4, Zenon DEF BuildInv, Types, DiffTypes
  <1>8. StoreTypes'
    BY <1>1 DEF BuildInv, Types, StoreTypes, WellFormed, Known
  <1>9. LanesMoveForward' /\ AttributionIsTrue'
    BY <1>1, StoreFrame DEF BuildInv
  <1> QED BY <1>5, <1>6, <1>7, <1>8, <1>9 DEF BuildInv, Types

-----------------------------------------------------------------------------
(* The lane enters the table, and its job the store. *)

\* A new lane says nothing about those that have jobs, but that one of them may be gone.
LaneEffect(t) ==
    /\ WellFormed(Lanes, PendingCap, pending')
    /\ \A i \in 1 .. Len(jobs) :
        jobs[i].lane \in Known(pending') =>
            /\ jobs[i].lane \in Known(pending)
            /\ paid_pool(pending', jobs[i].lane) <=> paid_pool(pending, jobs[i].lane)
    /\ Merged => (paid_pool(pending', gen[t]) <=> payee[t] = Pool)

LEMMA InsertLane ==
    ASSUME BuildInv, NEW t \in Tasks \ {Parent}, insert_lane(t)
    PROVE  LaneEffect(t)
  <1>1. /\ WellFormed(Lanes, PendingCap, pending) /\ PendingCap \in Nat \ {0} /\ Merged \in BOOLEAN
        /\ records_paid_pool(t) \in BOOLEAN /\ (records_paid_pool(t) <=> payee[t] = Pool)
    BY BuildAssumption DEF BuildInv, Types, StoreTypes, records_paid_pool
  <1>2. pc[t] = "parent" /\ gen[t] = generation /\ generation \in Lanes
    BY DEF insert_lane, BuildInv, Types, TaskTypes, LockInv, Building, Lanes
  <1>3. \A i \in 1 .. Len(jobs) : jobs[i].lane \in Lanes /\ jobs[i].lane < generation /\ jobs[i].lane # gen[t]
    <2> SUFFICES ASSUME NEW i \in 1 .. Len(jobs)
                 PROVE  jobs[i].lane \in Lanes /\ jobs[i].lane < generation /\ jobs[i].lane # gen[t]
      OBVIOUS
    <2>1. jobs[i].lane \in Lanes /\ jobs[i].lane < generation
      BY <1>2, JobTypes DEF BuildInv, Types, StoreTypes, LaneInv
    <2> QED BY <2>1, <1>2 DEF Lanes
  <1>4. CASE Merged
    <2>1. InsertEffect(Lanes, PendingCap, pending, gen[t], records_paid_pool(t), pending')
      BY <1>1, <1>2, <1>4, InsertFacts DEF insert_lane
    <2>2. /\ WellFormed(Lanes, PendingCap, pending') /\ gen[t] \in Known(pending')
          /\ Known(pending') \subseteq Known(pending) \union {gen[t]}
          /\ \A g \in Lanes : g \in pending'.fee_lane <=>
                /\ g \in Known(pending')
                /\ IF g = gen[t] THEN records_paid_pool(t) ELSE g \in pending.fee_lane
      BY <2>1 DEF InsertEffect
    <2> QED BY <1>1, <1>2, <1>3, <2>2 DEF LaneEffect, paid_pool
  <1>5. CASE ~Merged
    <2>1. pending' = pending
      BY <1>5 DEF insert_lane
    <2> QED BY <1>1, <1>5, <2>1 DEF LaneEffect
  <1> QED BY <1>4, <1>5

\* The attribution of the jobs there are survives an insertion.
LEMMA AttributionKept ==
    ASSUME AttributionIsTrue, NEW t, LaneEffect(t), NEW i \in 1 .. Len(jobs), jobs[i].payee # None,
           jobs[i].lane \in Known(pending'), \A j \in 1 .. i - 1 : jobs[j].lane # jobs[i].lane
    PROVE  paid_pool(pending', jobs[i].lane) <=> jobs[i].payee = Pool
  BY DEF AttributionIsTrue, LaneEffect

\* The lane is recorded and no job comes of it.
LEMMA SerializeKeeps == ASSUME BuildInv, NEW t \in Tasks, serialize_failed(t) PROVE BuildInv'
  <1>1. /\ t \in Tasks \ {Parent} /\ insert_lane(t) /\ Finish(t)
        /\ UNCHANGED <<session, generation, jobs, diffs, fee_minute, turns>>
    BY DEF serialize_failed
  <1>2. LaneEffect(t)
    BY <1>1, InsertLane
  <1>3. working' <= Len(jobs)
    BY <1>1 DEF BuildInv, SendInv, diffs
  <1>4. TaskTypes' /\ LockInv' /\ InitialInv' /\ LaneInv' /\ SendInv'
    BY <1>1, <1>3, FinishKeeps
  <1>5. SessionTypes' /\ DiffTypes'
    BY <1>1 DEF BuildInv, Types, SessionTypes, DiffTypes, session, diffs
  <1>6. StoreTypes'
    BY <1>1, <1>2 DEF BuildInv, Types, StoreTypes, LaneEffect
  <1>7. LanesMoveForward'
    BY <1>1 DEF BuildInv, LanesMoveForward
  <1>8. AttributionIsTrue'
    BY <1>1, <1>2, AttributionKept DEF BuildInv, AttributionIsTrue
  <1> QED BY <1>4, <1>5, <1>6, <1>7, <1>8 DEF BuildInv, Types

\* A job is added to the store.
AddEffect(t, p) ==
    /\ jobs' \in Seq(JobRecords) /\ Len(jobs') = Len(jobs) + 1 /\ Len(jobs') <= MaxJobs
    /\ \A i \in 1 .. Len(jobs) : jobs'[i] = jobs[i]
    /\ jobs'[Len(jobs) + 1].lane = gen[t] /\ jobs'[Len(jobs) + 1].payee = p
    /\ job' = [job EXCEPT ![t] = Len(jobs')]

LEMMA AddJob ==
    ASSUME BuildInv, NEW t \in Tasks, NEW p \in Payees \union {None}, gen[t] \in Lanes, add_job(t, p)
    PROVE  AddEffect(t, p)
  <1>1. jobs \in Seq(JobRecords) /\ Len(jobs) \in Nat /\ Len(jobs) < MaxJobs /\ MaxJobs \in Nat
    BY BuildAssumption DEF BuildInv, Types, StoreTypes, add_job
  <1>2. Job(t, p) \in JobRecords
    BY DEF Job, JobRecords, BuildInv, Types, TaskTypes, DiffTypes
  <1>3. Job(t, p).lane = gen[t] /\ Job(t, p).payee = p
    BY DEF Job
  <1>4. jobs' = Append(jobs, Job(t, p)) /\ job' = [job EXCEPT ![t] = Len(jobs) + 1]
    BY DEF add_job
  <1>5. /\ jobs' \in Seq(JobRecords) /\ Len(jobs') = Len(jobs) + 1
        /\ \A i \in 1 .. Len(jobs) : jobs'[i] = jobs[i]
        /\ jobs'[Len(jobs) + 1] = Job(t, p)
    BY <1>1, <1>2, <1>4
  <1> QED BY <1>1, <1>3, <1>4, <1>5 DEF AddEffect

\* A job that is not for an older lane than the one before it keeps the order.
LEMMA AddKeepsOrder ==
    ASSUME BuildInv, NEW t \in Tasks, NEW p, AddEffect(t, p), gen[t] \in Lanes,
           Len(jobs) # 0 => jobs[Len(jobs)].lane <= gen[t]
    PROVE  LanesMoveForward'
  <1>1. Len(jobs) \in Nat
    BY DEF BuildInv, Types, StoreTypes
  <1> SUFFICES ASSUME NEW i \in 2 .. Len(jobs') PROVE jobs'[i - 1].lane <= jobs'[i].lane
    BY DEF LanesMoveForward
  <1>2. CASE i <= Len(jobs)
    <2>1. i \in 2 .. Len(jobs) /\ i \in 1 .. Len(jobs) /\ i - 1 \in 1 .. Len(jobs)
      BY <1>1, <1>2
    <2> QED BY <2>1 DEF BuildInv, LanesMoveForward, AddEffect
  <1>3. CASE ~(i <= Len(jobs))
    <2>1. i = Len(jobs) + 1 /\ i - 1 = Len(jobs) /\ Len(jobs) \in 1 .. Len(jobs) /\ Len(jobs) # 0
      BY <1>1, <1>3 DEF AddEffect
    <2> QED BY <2>1 DEF AddEffect
  <1> QED BY <1>2, <1>3

\* The publication of a full template: the lane and the job together.
PublishStep(t) == immediate_published(t) \/ (t = Block /\ block_published)

LEMMA PublishKeeps == ASSUME BuildInv, NEW t \in Tasks, PublishStep(t) PROVE BuildInv'
  <1>1. /\ t \in Tasks \ {Parent} /\ publish_template(t)
        /\ UNCHANGED <<session, gen, owner, payee, initial, generation, lock, var_diff, told, working,
                       fee_minute, turns>>
    BY BuildAssumption DEF PublishStep, immediate_published, block_published, Tasks
  <1>2. insert_lane(t) /\ pc[t] = "parent" /\ initialized' = TRUE
    BY <1>1 DEF publish_template, insert_lane
  <1>3. PICK p \in Payees \union {None} :
            /\ add_job(t, p)
            /\ p # None => Merged /\ p = payee[t]
    BY <1>1 DEF publish_template, BuildInv, Types, TaskTypes
  <1>4. gen[t] = generation /\ generation \in Lanes /\ lock = t /\ lock' = t /\ gen' = gen /\ generation' = generation
    BY <1>1, <1>2 DEF BuildInv, Types, TaskTypes, LockInv, Building, Lanes
  <1>5. LaneEffect(t) /\ AddEffect(t, p)
    BY <1>1, <1>2, <1>3, <1>4, InsertLane, AddJob
  <1>6. \A i \in 1 .. Len(jobs) : jobs[i].lane \in Lanes /\ jobs[i].lane < generation
    BY <1>1, <1>2, JobTypes DEF BuildInv, Types, StoreTypes, LaneInv
  <1>7. PICK q \in {"difficulty", "notify"} : pc' = [pc EXCEPT ![t] = q]
    BY DEF PublishStep, immediate_published, block_published, Go
  <1>8. stratum_diff' \in Diffs
    BY <1>2 DEF PublishStep, immediate_published, block_published, BuildInv, InitialInv, Types, DiffTypes, TaskTypes
  <1>9. Len(jobs) \in Nat /\ Len(jobs') \in 0 .. MaxJobs /\ Len(jobs') = Len(jobs) + 1
    BY <1>5 DEF BuildInv, Types, StoreTypes, AddEffect
  <1>10. SessionTypes'
    BY <1>1 DEF BuildInv, Types, SessionTypes, session
  <1>11. TaskTypes'
    BY <1>1, <1>5, <1>7, <1>9 DEF BuildInv, Types, TaskTypes, AddEffect
  <1>12. DiffTypes'
    BY <1>1, <1>2, <1>8, Zenon DEF BuildInv, Types, DiffTypes
  <1>13. StoreTypes'
    BY <1>5 DEF StoreTypes, LaneEffect, AddEffect
  <1>14. /\ pc'[t] = q /\ job'[t] = Len(jobs')
         /\ \A s \in Tasks \ {t} : pc'[s] = pc[s] /\ job'[s] = job[s] /\ pc[s] \notin {"difficulty", "notify"}
         /\ \A s \in Tasks \ {t, Parent} : pc[s] \notin Building
    BY <1>4, <1>5, <1>7 DEF AddEffect, BuildInv, Types, TaskTypes, LockInv, Building
  <1>15. LockInv'
    BY <1>1, <1>4, <1>14, BuildAssumption DEF BuildInv, LockInv, Tasks, Building, Lanes
  <1>16. InitialInv'
    BY <1>1, <1>2, <1>14, BuildAssumption DEF BuildInv, InitialInv, Tasks
  <1>17. LaneInv'
    <2>1. \A i \in 1 .. Len(jobs') : jobs'[i].lane <= generation
      <3> SUFFICES ASSUME NEW i \in 1 .. Len(jobs') PROVE jobs'[i].lane <= generation
        OBVIOUS
      <3>1. CASE i = Len(jobs) + 1
        BY <3>1, <1>4, <1>5 DEF AddEffect, Lanes
      <3>2. CASE i # Len(jobs) + 1
        <4>1. i \in 1 .. Len(jobs)
          BY <3>2, <1>9
        <4> QED BY <4>1, <1>4, <1>5, <1>6 DEF AddEffect, Lanes
      <3> QED BY <3>1, <3>2
    <2> QED BY <2>1, <1>4, <1>14 DEF LaneInv, Building
  <1>18. SendInv'
    BY <1>1, <1>9, <1>14 DEF BuildInv, SendInv, Types, DiffTypes
  <1>19. Len(jobs) # 0 => jobs[Len(jobs)].lane <= gen[t]
    BY <1>4, <1>6, <1>9 DEF Lanes
  <1>20. LanesMoveForward'
    BY <1>4, <1>5, <1>19, AddKeepsOrder
  <1>21. AttributionIsTrue'
    <2> SUFFICES ASSUME NEW i \in 1 .. Len(jobs'), jobs'[i].payee # None, jobs'[i].lane \in Known(pending'),
                        \A j \in 1 .. i - 1 : jobs'[j].lane # jobs'[i].lane
                 PROVE  paid_pool(pending', jobs'[i].lane) <=> jobs'[i].payee = Pool
      BY DEF AttributionIsTrue
    <2>1. CASE i = Len(jobs) + 1
      BY <2>1, <1>3, <1>5 DEF AddEffect, LaneEffect
    <2>2. CASE i # Len(jobs) + 1
      <3>1. i \in 1 .. Len(jobs) /\ \A j \in 1 .. i - 1 : j \in 1 .. Len(jobs)
        BY <2>2, <1>9
      <3>2. jobs'[i] = jobs[i] /\ \A j \in 1 .. i - 1 : jobs[j].lane # jobs[i].lane
        BY <3>1, <1>5 DEF AddEffect
      <3> QED BY <3>1, <3>2, <1>5, AttributionKept DEF BuildInv
    <2> QED BY <2>1, <2>2
  <1> QED BY <1>10, <1>11, <1>12, <1>13, <1>15, <1>16, <1>17, <1>18, <1>20, <1>21 DEF BuildInv, Types

\* The difficulty goes out ahead of the job.
LEMMA TellKeeps == ASSUME BuildInv, NEW t \in Tasks, send_client_diff(t) PROVE BuildInv'
  <1>1. /\ pc[t] = "difficulty" /\ pc' = [pc EXCEPT ![t] = "notify"] /\ told' = stratum_diff
        /\ UNCHANGED <<session, gen, owner, payee, job, initial, store, stratum_diff, initialized,
                       var_diff, working, fee_minute, turns>>
    BY DEF send_client_diff, Go
  <1>2. t # Parent
    BY <1>1 DEF BuildInv, LockInv
  <1>3. SessionTypes' /\ TaskTypes' /\ StoreTypes'
    BY <1>1 DEF BuildInv, Types, SessionTypes, TaskTypes, StoreTypes, WellFormed, Known, session, store
  <1>4. DiffTypes'
    BY <1>1, Zenon DEF BuildInv, Types, DiffTypes
  <1>5. LockInv' /\ InitialInv' /\ LaneInv' /\ SendInv'
    BY <1>1, <1>2 DEF BuildInv, Types, TaskTypes, LockInv, InitialInv, LaneInv, SendInv, Building, store, Tasks
  <1>6. LanesMoveForward' /\ AttributionIsTrue'
    BY <1>1, StoreFrame DEF BuildInv, store
  <1> QED BY <1>3, <1>4, <1>5, <1>6 DEF BuildInv, Types

\* A fresh parent is asked for, without the lock.
LEMMA ParentStarts == ASSUME BuildInv, parent_starts PROVE BuildInv'
  <1>1. /\ pc[Parent] = "idle" /\ jobs # <<>>
        /\ gen' = [gen EXCEPT ![Parent] = Newest.lane] /\ owner' = [owner EXCEPT ![Parent] = Newest.owner]
        /\ payee' = [payee EXCEPT ![Parent] = payout] /\ pc' = [pc EXCEPT ![Parent] = "parent"]
        /\ UNCHANGED <<session, job, initial, store, diffs, fee_minute, turns>>
    BY DEF parent_starts, Go
  <1>2. Len(jobs) \in 1 .. Len(jobs)
    BY <1>1 DEF BuildInv, Types, StoreTypes
  <1>3. Newest.lane \in Lanes /\ Newest.lane \in 0 .. MaxGenerations /\ Newest.owner \in Identities
    BY <1>2, JobTypes DEF BuildInv, Types, StoreTypes, Newest, Lanes
  <1>4. SessionTypes' /\ DiffTypes' /\ StoreTypes'
    BY <1>1 DEF BuildInv, Types, SessionTypes, DiffTypes, StoreTypes, WellFormed, Known, session, store, diffs
  <1>5. TaskTypes'
    BY <1>1, <1>3 DEF BuildInv, Types, TaskTypes, SessionTypes, store
  <1>6. /\ Parent \in Tasks /\ pc'[Parent] = "parent" /\ gen'[Parent] \in Lanes
        /\ \A s \in Tasks \ {Parent} : pc'[s] = pc[s] /\ gen'[s] = gen[s]
    BY <1>1, <1>3 DEF BuildInv, Types, TaskTypes, Tasks
  <1>7. LockInv' /\ InitialInv' /\ LaneInv' /\ SendInv'
    BY <1>1, <1>6, BuildAssumption DEF BuildInv, LockInv, InitialInv, LaneInv, SendInv, store, diffs, Tasks
  <1>8. LanesMoveForward' /\ AttributionIsTrue'
    BY <1>1, StoreFrame DEF BuildInv, store
  <1> QED BY <1>4, <1>5, <1>7, <1>8 DEF BuildInv, Types

\* It is published only while the lane it was asked for is that of the newest job.
LEMMA ParentArrives == ASSUME BuildInv, parent_arrives PROVE BuildInv'
  <1>1. /\ pc[Parent] = "parent" /\ lock = None /\ Newest.lane = gen[Parent] /\ lock' = Parent
        /\ add_job(Parent, payee[Parent]) /\ pc' = [pc EXCEPT ![Parent] = "notify"]
        /\ UNCHANGED <<session, gen, owner, payee, initial, generation, pending, diffs, fee_minute, turns>>
    BY DEF parent_arrives, can_lock, still_newest, Go
  <1>2. Parent \in Tasks /\ gen[Parent] \in Lanes /\ payee[Parent] \in Payees
    BY <1>1 DEF BuildInv, LockInv, Types, TaskTypes, Tasks
  <1>3. AddEffect(Parent, payee[Parent])
    BY <1>1, <1>2, AddJob
  <1>4. Len(jobs) \in Nat /\ Len(jobs') \in 0 .. MaxJobs /\ Len(jobs') = Len(jobs) + 1
    BY <1>3 DEF BuildInv, Types, StoreTypes, AddEffect
  <1>5. SessionTypes' /\ DiffTypes'
    BY <1>1 DEF BuildInv, Types, SessionTypes, DiffTypes, session, diffs
  <1>6. TaskTypes'
    BY <1>1, <1>2, <1>3, <1>4 DEF BuildInv, Types, TaskTypes, AddEffect
  <1>7. StoreTypes'
    BY <1>1, <1>3 DEF BuildInv, Types, StoreTypes, AddEffect, WellFormed, Known
  <1>8. /\ pc'[Parent] = "notify" /\ job'[Parent] = Len(jobs')
        /\ \A s \in Tasks \ {Parent} : pc'[s] = pc[s] /\ job'[s] = job[s] /\ pc[s] \notin Building
    BY <1>1, <1>2, <1>3, BuildAssumption DEF AddEffect, BuildInv, Types, TaskTypes, LockInv
  <1>9. LockInv' /\ InitialInv'
    BY <1>1, <1>8, BuildAssumption DEF BuildInv, LockInv, InitialInv, Tasks
  <1>10. Len(jobs) # 0
    BY <1>1 DEF BuildInv, SendInv
  <1>11. LaneInv'
    <2>1. \A i \in 1 .. Len(jobs') : jobs'[i].lane <= generation
      <3> SUFFICES ASSUME NEW i \in 1 .. Len(jobs') PROVE jobs'[i].lane <= generation
        OBVIOUS
      <3>1. CASE i = Len(jobs) + 1
        <4>1. Len(jobs) \in 1 .. Len(jobs)
          BY <1>4, <1>10
        <4> QED BY <4>1, <3>1, <1>1, <1>3 DEF AddEffect, Newest, BuildInv, LaneInv
      <3>2. CASE i # Len(jobs) + 1
        <4>1. i \in 1 .. Len(jobs)
          BY <3>2, <1>4
        <4> QED BY <4>1, <1>3 DEF AddEffect, BuildInv, LaneInv
      <3> QED BY <3>1, <3>2
    <2> QED BY <2>1, <1>1, <1>8 DEF LaneInv, Building
  <1>12. SendInv'
    BY <1>1, <1>4, <1>8 DEF BuildInv, SendInv, Types, DiffTypes, diffs, Building
  <1>13. Len(jobs) # 0 => jobs[Len(jobs)].lane <= gen[Parent]
    BY <1>1, <1>2 DEF Newest, Lanes
  <1>14. LanesMoveForward'
    BY <1>2, <1>3, <1>13, AddKeepsOrder
  <1>15. AttributionIsTrue'
    <2> SUFFICES ASSUME NEW i \in 1 .. Len(jobs'), jobs'[i].payee # None, jobs'[i].lane \in Known(pending),
                        \A j \in 1 .. i - 1 : jobs'[j].lane # jobs'[i].lane
                 PROVE  paid_pool(pending, jobs'[i].lane) <=> jobs'[i].payee = Pool
      BY <1>1 DEF AttributionIsTrue
    <2>1. i # Len(jobs) + 1
      <3> SUFFICES ASSUME i = Len(jobs) + 1 PROVE FALSE
        OBVIOUS
      <3>1. Len(jobs) \in 1 .. i - 1 /\ Len(jobs) \in 1 .. Len(jobs)
        BY <1>4, <1>10
      <3> QED BY <3>1, <1>1, <1>3 DEF AddEffect, Newest
    <2>2. i \in 1 .. Len(jobs) /\ \A j \in 1 .. i - 1 : j \in 1 .. Len(jobs)
      BY <2>1, <1>4
    <2>3. jobs'[i] = jobs[i] /\ \A j \in 1 .. i - 1 : jobs[j].lane # jobs[i].lane
      BY <2>2, <1>3 DEF AddEffect
    <2> QED BY <2>2, <2>3 DEF BuildInv, AttributionIsTrue
  <1> QED BY <1>5, <1>6, <1>7, <1>9, <1>11, <1>12, <1>14, <1>15 DEF BuildInv, Types

\* A claim marks its lane and leaves the payees of the lanes alone.
LEMMA ClaimKeeps == ASSUME BuildInv, NEW h \in Lanes, claim(h) PROVE BuildInv'
  <1>1. /\ pending' = claim_solution(pending, h)
        /\ UNCHANGED <<session, local, generation, jobs, lock, diffs, fee_minute, turns>>
    BY DEF claim
  <1>2. ClaimEffect(Lanes, PendingCap, pending, h, pending')
    BY <1>1, ClaimFacts, BuildAssumption DEF BuildInv, Types, StoreTypes
  <1>3. WellFormed(Lanes, PendingCap, pending') /\ Known(pending') = Known(pending) /\ pending'.fee_lane = pending.fee_lane
    BY <1>2 DEF ClaimEffect, Known
  <1>4. SessionTypes' /\ TaskTypes' /\ DiffTypes' /\ StoreTypes'
    BY <1>1, <1>3 DEF BuildInv, Types, SessionTypes, TaskTypes, DiffTypes, StoreTypes, session, local, diffs
  <1>5. LockInv' /\ InitialInv' /\ LaneInv' /\ SendInv'
    BY <1>1 DEF BuildInv, LockInv, InitialInv, LaneInv, SendInv, local, diffs
  <1>6. LanesMoveForward' /\ AttributionIsTrue'
    BY <1>1, <1>3 DEF BuildInv, LanesMoveForward, AttributionIsTrue, paid_pool
  <1> QED BY <1>4, <1>5, <1>6 DEF BuildInv, Types

\* The steps of a task, one by one.
LEMMA BuildCases ==
    ASSUME NEW t \in Tasks, build(t)
    PROVE  \/ RequestStep \/ template_arrives(t) \/ serialize_failed(t) \/ PublishStep(t)
           \/ send_client_diff(t) \/ EndStep(t) \/ parent_arrives
  BY DEF build, RequestStep, PublishStep, EndStep, immediate_locks

LEMMA NextCases ==
    ASSUME Next
    PROVE  \/ SessionStep \/ StartStep \/ RequestStep \/ parent_starts
           \/ \E t \in Tasks : build(t)
           \/ \E h \in Lanes : claim(h)
  BY DEF Next, authorizing, SessionStep, StartStep, RequestStep

LEMMA BuildNext == BuildInv /\ [Next]_vars => BuildInv'
  <1> SUFFICES ASSUME BuildInv, [Next]_vars PROVE BuildInv'
    OBVIOUS
  <1>1. CASE SessionStep
    BY <1>1, SessionKeeps
  <1>2. CASE StartStep
    BY <1>2, StartKeeps
  <1>3. CASE RequestStep
    BY <1>3, RequestKeeps
  <1>4. CASE parent_starts
    BY <1>4, ParentStarts
  <1>5. ASSUME NEW t \in Tasks, build(t) PROVE BuildInv'
    BY <1>3, <1>5, BuildCases, ArriveKeeps, SerializeKeeps, PublishKeeps, TellKeeps, EndKeeps, ParentArrives
  <1>6. ASSUME NEW h \in Lanes, claim(h) PROVE BuildInv'
    BY <1>6, ClaimKeeps
  <1>7. CASE UNCHANGED vars
    <2>1. UNCHANGED <<session, local, store, diffs, fee_minute, turns>>
      BY <1>7 DEF vars
    <2>2. SessionTypes' /\ TaskTypes' /\ DiffTypes' /\ StoreTypes'
      BY <2>1 DEF BuildInv, Types, SessionTypes, TaskTypes, DiffTypes, StoreTypes, WellFormed, Known, session, local,
                  diffs, store
    <2>3. LockInv' /\ InitialInv' /\ LaneInv' /\ SendInv'
      BY <2>1 DEF BuildInv, LockInv, InitialInv, LaneInv, SendInv, local, diffs, store
    <2>4. LanesMoveForward' /\ AttributionIsTrue'
      BY <2>1, StoreFrame DEF BuildInv, store
    <2> QED BY <2>2, <2>3, <2>4 DEF BuildInv, Types
  <1> QED BY <1>1, <1>2, <1>3, <1>4, <1>5, <1>6, <1>7, NextCases

LEMMA BuildInvariance == Spec => []BuildInv
  BY BuildInitially, BuildNext, PTL DEF Spec

\* Type correctness of job building: sessions, tasks, the job store and the table of
\* pending blocks, whose capacity holds whoever inserts.
THEOREM BuildTypeCorrect == Spec => []TypeOK
  <1>1. BuildInv => TypeOK
    BY TypesGiveTypeOK DEF BuildInv
  <1> QED BY <1>1, BuildInvariance, PTL

\* No carrier for obsolete work is published: lanes only move forward in the store,
\* for any number of immediate jobs racing with block and parent notifications.
THEOREM LanesCorrect == Spec => []LanesMoveForward
  <1>1. BuildInv => LanesMoveForward
    BY DEF BuildInv
  <1> QED BY <1>1, BuildInvariance, PTL

\* The table records the payee of each lane as its template's Kaspa parent pays it,
\* wherever the fee minute begins or ends.
THEOREM AttributionCorrect == Spec => []AttributionIsTrue
  <1>1. BuildInv => AttributionIsTrue
    BY DEF BuildInv
  <1> QED BY <1>1, BuildInvariance, PTL

\* Jobs reach the miner in the order in which they were added, since a job that is
\* being sent is the newest one while its task holds the lock.
THEOREM SendsInOrder == Spec => NeverSendsOlderJob
  <1>1. BuildInv /\ [Next]_vars => [working' >= working]_vars
    <2> SUFFICES ASSUME BuildInv, Next PROVE working' >= working
      OBVIOUS
    <2>0. working \in Nat
      BY DEF BuildInv, Types, DiffTypes
    <2>1. ASSUME NEW t \in Tasks, send_notify(t) PROVE working' >= working
      BY <2>0, <2>1 DEF send_notify, BuildInv, SendInv
    <2>2. ASSUME NEW t \in Tasks, build(t), ~send_notify(t) PROVE working' = working
      BY <2>2 DEF build, immediate_locks, request_template, template_failed, template_arrives, serialize_failed,
                  immediate_published, send_client_diff, send_failed, block_published, parent_arrives,
                  parent_dropped, diffs
    <2>3. CASE ~\E t \in Tasks : build(t)
      <3>1. working' = working
        BY <2>3 DEF Next, authorizing, authorize, authorize_payout, authorize_reply_failed,
                    authorize_extranonce_failed, mark_authorized, authorize_job, authorize_gone,
                    serve_refresh, watchdog, block_locks, request_template,
                    block_no_wallet, parent_starts, claim, turn, hang_up, diffs
      <3> QED BY <2>0, <3>1
    <2> QED BY <2>0, <2>1, <2>2, <2>3
  <1> QED BY <1>1, BuildInvariance, PTL DEF Spec, NeverSendsOlderJob

\* The lanes of the templates, as the submissions see them.
Ledger == INSTANCE LaneLedger WITH
    offered <- Known(pending), claimed <- pending.solved, pool_paid <- pending.fee_lane

\* Recording a lane is an offer with the payee that was decided for it.
LEMMA LaneOffers ==
    ASSUME BuildInv, NEW t \in Tasks \ {Parent}, insert_lane(t)
    PROVE  Ledger!Next \/ UNCHANGED Ledger!ledger
  <1>1. /\ WellFormed(Lanes, PendingCap, pending) /\ PendingCap \in Nat \ {0}
        /\ records_paid_pool(t) \in BOOLEAN
    BY BuildAssumption DEF BuildInv, Types, StoreTypes, records_paid_pool
  <1>2. gen[t] \in Lanes
    BY DEF insert_lane, BuildInv, Types, TaskTypes, LockInv, Building, Lanes
  <1>3. CASE Merged
    <2>1. InsertEffect(Lanes, PendingCap, pending, gen[t], records_paid_pool(t), pending')
      BY <1>1, <1>2, <1>3, InsertFacts DEF insert_lane
    <2>2. Ledger!Offer(gen[t], records_paid_pool(t))
      <3>1. OfferEffect(pending, gen[t], records_paid_pool(t), pending')
        BY <1>1, <1>2, <2>1, InsertOffers
      <3> QED BY <3>1 DEF OfferEffect, Ledger!Offer
    <2> QED BY <1>1, <1>2, <2>2 DEF Ledger!Next
  <1>4. CASE ~Merged
    BY <1>4 DEF insert_lane, Ledger!ledger
  <1> QED BY <1>3, <1>4

\* Whichever tasks build, fail and refresh, they leave the lanes as the ledger says:
\* a claim survives every job, and the payee of a lane is that of its template.
THEOREM BuildRefinesLedger == Spec => Ledger!Spec
  <1>1. Init => Ledger!Init
    <2> SUFFICES ASSUME Init PROVE Ledger!Init
      OBVIOUS
    <2>1. pending.solved = {} /\ pending.fee_lane = {}
      BY DEF Init, EmptyTable
    <2>2. Known(pending) = {}
      BY EmptyFacts, BuildAssumption DEF Init
    <2> QED BY <2>1, <2>2 DEF Ledger!Init
  <1>2. BuildInv /\ [Next]_vars => [Ledger!Next]_(Ledger!ledger)
    <2> SUFFICES ASSUME BuildInv, [Next]_vars PROVE Ledger!Next \/ UNCHANGED Ledger!ledger
      OBVIOUS
    <2>1. CASE pending' = pending
      BY <2>1 DEF Ledger!ledger
    <2>2. ASSUME NEW t \in Tasks, build(t), ~serialize_failed(t), ~immediate_published(t),
                 ~(t = Block /\ block_published)
          PROVE  pending' = pending
      BY <2>2 DEF build, immediate_locks, request_template, template_failed, template_arrives,
                  send_client_diff, send_notify, send_failed, parent_arrives, parent_dropped, store
    <2>3. ASSUME NEW t \in Tasks,
                 serialize_failed(t) \/ immediate_published(t) \/ (t = Block /\ block_published)
          PROVE  Ledger!Next \/ UNCHANGED Ledger!ledger
      <3>1. t # Parent /\ insert_lane(t)
        BY <2>3, BuildAssumption DEF serialize_failed, immediate_published, block_published, publish_template
      <3> QED BY <3>1, LaneOffers
    <2>4. ASSUME NEW h \in Lanes, claim(h) PROVE Ledger!Next
      <3>1. can_claim(pending, h) /\ ClaimEffect(Lanes, PendingCap, pending, h, pending')
        BY <2>4, ClaimFacts, BuildAssumption DEF claim, BuildInv, Types, StoreTypes
      <3> QED BY <3>1 DEF ClaimEffect, can_claim, Ledger!Claim, Ledger!Next
    <2>5. ASSUME ~\E t \in Tasks : build(t), ~\E h \in Lanes : claim(h) PROVE pending' = pending
      BY <2>5 DEF Next, authorizing, authorize, authorize_payout, authorize_reply_failed,
                  authorize_extranonce_failed, mark_authorized, authorize_job, authorize_gone,
                  serve_refresh, watchdog, block_locks, request_template,
                  block_no_wallet, parent_starts, turn, hang_up, vars, store
    <2> QED BY <2>1, <2>2, <2>3, <2>4, <2>5
  <1> QED BY <1>1, <1>2, BuildInvariance, PTL DEF Spec, Ledger!Spec

-----------------------------------------------------------------------------
(* The process. *)

USE DEF BridgeAssumption, given, tasks, node, startup, process, bridgevars

\* There are tasks only while main waits for them, which it does only when the
\* node was ready; and an instance is done, or main drains, only after Ctrl-C.
ProcessInv ==
    /\ running => seen_synced \/ config.allow_unsynced
    /\ ~running => NoTasks(inst, feed, behind)
    /\ phase = "draining" => shutdown
    /\ \A i \in Instances : inst[i] = "done" => shutdown

BridgeInv == BridgeTypeOK /\ ProcessInv

LEMMA BridgeInitially == BridgeInit => BridgeInv
  <1> SUFFICES ASSUME BridgeInit PROVE BridgeInv
    OBVIOUS
  <1>1. BridgeTypeOK
    BY DEF BridgeInit, BridgeTypeOK, NoTasks, Tried, retry_of
  <1>2. ProcessInv
    BY DEF BridgeInit, ProcessInv, NoTasks, running
  <1> QED BY <1>1, <1>2 DEF BridgeInv

\* The process ends: no task is left.
LEMMA ExitStep ==
    ASSUME BridgeInv, NEW how \in {"ok", "error", "killed", "forced"}, Exit(how) PROVE BridgeInv'
  <1>1. BridgeTypeOK'
    BY DEF BridgeInv, BridgeTypeOK, Exit, NoTasks
  <1>2. ProcessInv'
    BY DEF BridgeInv, ProcessInv, Exit, NoTasks, running
  <1> QED BY <1>1, <1>2 DEF BridgeInv

\* The nodes.
LEMMA NodeStep ==
    ASSUME BridgeInv, sync_changes \/ new_template \/ channel_closes PROVE BridgeInv'
  <1>1. BridgeTypeOK'
    BY DEF BridgeInv, BridgeTypeOK, sync_changes, new_template, channel_closes
  <1>2. ProcessInv'
    BY DEF BridgeInv, ProcessInv, sync_changes, new_template, channel_closes, NoTasks, running
  <1> QED BY <1>1, <1>2 DEF BridgeInv

\* main, up to the start of the instances.
LEMMA MainStep ==
    ASSUME BridgeInv, main PROVE BridgeInv'
  <1>1. CASE start_instances
    <2>1. BridgeTypeOK'
      BY <1>1 DEF BridgeInv, BridgeTypeOK, start_instances, skips_wait
    <2>2. seen_synced' \/ config.allow_unsynced
      BY <1>1 DEF start_instances, mining_ready, skips_wait
    <2>3. ProcessInv'
      BY <1>1, <2>2 DEF BridgeInv, ProcessInv, start_instances, running
    <2> QED BY <2>1, <2>3 DEF BridgeInv
  <1>2. CASE connect \/ start_notify \/ attempt_fails \/ backoff_elapses \/ connect_kaspa
    <2>1. BridgeTypeOK'
      <3>1. phase' \in Tried \union Retried \union {"kaspa", "serving", "draining", "exited"}
        BY <1>2 DEF connect, start_notify, attempt_fails, backoff_elapses, connect_kaspa, Tried, Retried, retry_of
      <3>2. notice' \in {"none", "empty", "pending", "closed"} /\ kaspa_client' \in BOOLEAN
        BY <1>2 DEF BridgeInv, BridgeTypeOK, connect, start_notify, attempt_fails, backoff_elapses, connect_kaspa
      <3>3. UNCHANGED <<given, synced, seen_synced, exit, shutdown, tasks>>
        BY <1>2 DEF connect, start_notify, attempt_fails, backoff_elapses, connect_kaspa
      <3> QED BY <3>1, <3>2, <3>3 DEF BridgeInv, BridgeTypeOK
    <2>2. ~running /\ ~running'
      BY <1>2 DEF connect, start_notify, attempt_fails, backoff_elapses, connect_kaspa, running, Tried, retry_of
    <2>3. UNCHANGED <<given, shutdown, tasks>>
      BY <1>2 DEF connect, start_notify, attempt_fails, backoff_elapses, connect_kaspa
    <2>4. ProcessInv'
      BY <2>2, <2>3 DEF BridgeInv, ProcessInv, NoTasks, running
    <2> QED BY <2>1, <2>4 DEF BridgeInv
  <1> QED BY <1>1, <1>2 DEF main

\* A step of an instance.
LEMMA ServeStep ==
    ASSUME BridgeInv, NEW i \in Instances, serve(i) PROVE BridgeInv'
  <1>1. BridgeTypeOK'
    BY DEF BridgeInv, BridgeTypeOK, serve, settings_refused, start_feeds, listener_binds, bind_fails, listener_stops, Settle,
           Turn, loop_top
  <1>2. running /\ running' /\ UNCHANGED <<config, seen_synced, phase, shutdown>>
    BY DEF serve, settings_refused, start_feeds, listener_binds, bind_fails, listener_stops, running
  <1>3. \A j \in Instances : inst'[j] = "done" => shutdown
    BY DEF BridgeInv, BridgeTypeOK, ProcessInv, serve, settings_refused, start_feeds, listener_binds, bind_fails,
           listener_stops, Settle
  <1> QED BY <1>1, <1>2, <1>3 DEF BridgeInv, ProcessInv

\* A step of a feed.
FeedStep ==
    \/ block_feed \/ feed_notified \/ feed_cut_off
    \/ \E i \in Instances : feed_stops(i) \/ feed_ticks(i) \/ poll_returns(i)

LEMMA FeedSteps ==
    ASSUME BridgeInv, FeedStep PROVE BridgeInv'
  <1>1. BridgeTypeOK'
    <2>1. CASE block_feed
      BY <2>1, BridgeAssumption DEF BridgeInv, BridgeTypeOK, block_feed, feed_begins, wait_for_sync, Turn
    <2>2. CASE feed_notified \/ feed_cut_off
      BY <2>2, BridgeAssumption DEF BridgeInv, BridgeTypeOK, feed_notified, feed_cut_off, Turn, Tell, loop_top
    <2>3. CASE \E i \in Instances : feed_stops(i) \/ feed_ticks(i) \/ poll_returns(i)
      <3>1. PICK i \in Instances : feed_stops(i) \/ feed_ticks(i) \/ poll_returns(i)
        BY <2>3
      <3>2. PICK step \in {"top", "waiting", "calling", "stopped"} : feed' = [feed EXCEPT ![i] = step]
        BY <3>1 DEF feed_stops, feed_ticks, poll_returns, Turn, loop_top
      <3>3. behind' = behind \/ behind' = [behind EXCEPT ![i] = FALSE]
        BY <3>1 DEF feed_stops, feed_ticks, poll_returns, Tell
      <3>4. UNCHANGED <<given, node, startup, process, inst>>
        BY <3>1 DEF feed_stops, feed_ticks, poll_returns
      <3>5. feed' \in [Instances -> {"none", "top", "syncing", "waiting", "calling", "stopped"}]
        BY <3>2 DEF BridgeInv, BridgeTypeOK
      <3>6. behind' \in [Instances -> BOOLEAN]
        BY <3>3 DEF BridgeInv, BridgeTypeOK
      <3> QED BY <3>4, <3>5, <3>6 DEF BridgeInv, BridgeTypeOK, given, node, startup, process
    <2> QED BY <2>1, <2>2, <2>3 DEF FeedStep
  <1>2. running /\ running' /\ UNCHANGED <<config, seen_synced, phase, shutdown, inst>>
    BY DEF FeedStep, block_feed, feed_begins, wait_for_sync, feed_notified, feed_cut_off, feed_stops, feed_ticks,
           poll_returns, running
  <1> QED BY <1>1, <1>2 DEF BridgeInv, ProcessInv

\* Ctrl-C and the end.
LEMMA LeaveStep ==
    ASSUME BridgeInv, leave \/ ctrl_c_kills \/ ctrl_c \/ second_ctrl_c PROVE BridgeInv'
  <1>1. CASE \E how \in {"ok", "error", "killed", "forced"} : Exit(how)
    BY <1>1, ExitStep
  <1>2. CASE shutdown_begins \/ ctrl_c
    <2>1. BridgeTypeOK'
      BY <1>2 DEF BridgeInv, BridgeTypeOK, shutdown_begins, ctrl_c
    <2>2. shutdown' /\ (running' <=> running) /\ UNCHANGED <<config, seen_synced, tasks>>
      BY <1>2 DEF shutdown_begins, ctrl_c, running
    <2> QED BY <2>1, <2>2 DEF BridgeInv, ProcessInv, NoTasks
  <1> QED BY <1>1, <1>2 DEF leave, startup_aborts, instances_end, drain_elapses, ctrl_c_kills, second_ctrl_c

LEMMA BridgeStep == BridgeInv /\ [BridgeNext]_bridgevars => BridgeInv'
  <1> SUFFICES ASSUME BridgeInv, [BridgeNext]_bridgevars PROVE BridgeInv'
    OBVIOUS
  <1>1. CASE UNCHANGED bridgevars
    BY <1>1 DEF BridgeInv, BridgeTypeOK, ProcessInv, NoTasks, running
  <1>2. CASE BridgeNext
    BY <1>2, NodeStep, MainStep, ServeStep, FeedSteps, LeaveStep DEF BridgeNext, FeedStep
  <1> QED BY <1>1, <1>2

LEMMA BridgeCorrect == BridgeSpec => []BridgeInv
  BY BridgeInitially, BridgeStep, PTL DEF BridgeSpec

\* The types of the process and of its tasks.
THEOREM BridgeTypeCorrect == BridgeSpec => []BridgeTypeOK
  <1>1. BridgeInv => BridgeTypeOK
    BY DEF BridgeInv
  <1> QED BY <1>1, BridgeCorrect, PTL

\* Ports are opened and feeds run only when the node was seen synced or the
\* operator allows an unsynced one (wait_for_sync_with_shutdown, main).
THEOREM ReadyCorrect == BridgeSpec => []ServesOnlyWhenReady
  <1>1. BridgeInv => ServesOnlyWhenReady
    BY DEF BridgeInv, ProcessInv, NoTasks, ServesOnlyWhenReady
  <1> QED BY <1>1, BridgeCorrect, PTL

\* An exit nobody asked for finds every instance failed (try_join_all).
THEOREM LeavesCorrect == BridgeSpec => LeavesOnlyUnserved
  <1>1. BridgeInv /\ [BridgeNext]_bridgevars
        => [exit' = "ok" /\ ~shutdown /\ exit = "none" => \A i \in Instances : inst[i] = "failed"]_bridgevars
    <2> SUFFICES ASSUME BridgeInv, BridgeNext, exit' = "ok", ~shutdown, exit = "none"
                 PROVE  \A i \in Instances : inst[i] = "failed"
      OBVIOUS
    <2>1. exit' # exit
      OBVIOUS
    <2>2. instances_end \/ drain_elapses
      BY <2>1
      DEF BridgeNext, sync_changes, new_template, channel_closes, main, connect, start_notify, attempt_fails, backoff_elapses,
          connect_kaspa, start_instances, leave, startup_aborts, shutdown_begins, block_feed, feed_begins, wait_for_sync,
          feed_notified, feed_cut_off, serve, settings_refused, start_feeds, listener_binds, bind_fails, listener_stops,
          feed_stops, feed_ticks, poll_returns, ctrl_c_kills, ctrl_c, second_ctrl_c, Exit
    <2>3. ~drain_elapses
      BY DEF drain_elapses, BridgeInv, ProcessInv
    <2> QED BY <2>2, <2>3 DEF instances_end, all_ended, BridgeInv, ProcessInv
  <1> QED BY <1>1, BridgeCorrect, PTL DEF BridgeSpec, LeavesOnlyUnserved
=============================================================================
