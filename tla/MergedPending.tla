---------------------------- MODULE MergedPending --------------------------
(***************************************************************************)
(* The table of pending ZKas blocks as the bridge uses it (merged.rs,      *)
(* behind the mutex of KaspaApi.pending_fc): template builders insert      *)
(* lanes, submissions claim them. Every operation holds the mutex, so      *)
(* each is one atomic step; any number of tasks interleave them.           *)
(***************************************************************************)
EXTENDS LaneTable, FiniteSets

CONSTANTS
    Lanes,       \* the H_fc hashes
    Cap,         \* capacity the table is created with
    MaxInserts   \* bound: number of insertions in a behaviour

ASSUME CapAssumption == Cap \in Nat
ASSUME MaxInsertsAssumption == MaxInserts \in Nat

VARIABLES
    pending,     \* the table
    template,    \* history: lane -> did its latest template pay the pool?
    issued,      \* history: lane -> how often it entered the table
    claims,      \* history: lane -> how often a claim answered true
    inserts      \* history: number of insertions, bounds the behaviour

vars == <<pending, template, issued, claims, inserts>>

\* MergedPending::new: a capacity of zero becomes one.
cap == IF Cap = 0 THEN 1 ELSE Cap

Init ==
    /\ pending = EmptyTable
    /\ template = [h \in Lanes |-> FALSE]
    /\ issued = [h \in Lanes |-> 0]
    /\ claims = [h \in Lanes |-> 0]
    /\ inserts = 0

\* get_block_template, after it has the lane's Kaspa parent.
insert(h, paid) ==
    /\ inserts < MaxInserts
    /\ inserts' = inserts + 1
    /\ pending' = insert_with_payee(pending, h, paid, cap)
    /\ template' = [template EXCEPT ![h] = paid]
    /\ issued' = [issued EXCEPT ![h] = IF h \in Known(pending) THEN @ ELSE @ + 1]
    /\ UNCHANGED claims

\* claim_network_solution in merged mode.
claim(h) ==
    /\ pending' = claim_solution(pending, h)
    /\ claims' = [claims EXCEPT ![h] = IF can_claim(pending, h) THEN @ + 1 ELSE @]
    /\ UNCHANGED <<template, issued, inserts>>

Next == \E h \in Lanes : (\E paid \in BOOLEAN : insert(h, paid)) \/ claim(h)

Spec == Init /\ [][Next]_vars

-----------------------------------------------------------------------------
(* Properties. *)

TableType == [order : Seq(Lanes), solved : SUBSET Lanes, fee_lane : SUBSET Lanes]

\* Every variable has its type.
TypeOK ==
    /\ pending \in TableType
    /\ template \in [Lanes -> BOOLEAN]
    /\ issued \in [Lanes -> Nat]
    /\ claims \in [Lanes -> Nat]
    /\ inserts \in 0 .. MaxInserts

\* insert's eviction keeps the table within its capacity, with each lane queued
\* once (so `map` and `order` never drift apart) and with no flag of a lane that
\* has left it.
Bounded ==
    /\ Len(pending.order) <= cap
    /\ \A i, j \in 1 .. Len(pending.order) : pending.order[i] = pending.order[j] => i = j
    /\ pending.solved \subseteq Known(pending)
    /\ pending.fee_lane \subseteq Known(pending)

\* "Attribution has to follow the template the work was actually done against":
\* a lane in the table answers paid_pool as its latest template was built, and a
\* lane that is not in the table answers false.
AttributionFollowsTemplate ==
    \A h \in Lanes :
        paid_pool(pending, h) <=> (h \in Known(pending) /\ template[h])

\* "the first caller returns true and later AuxPoW proofs for the same ZKAS block
\* return false": no more claims of a lane succeed than times it entered the
\* table, and while it is there unsolved one fewer has.
ClaimedOncePerIssue ==
    \A h \in Lanes :
        /\ claims[h] <= issued[h]
        /\ is_unsolved(pending, h) => claims[h] < issued[h]

\* A solved lane stays solved for as long as it stays in the table.
SolvedIsFinal ==
    [][\A h \in pending.solved : h \in pending'.solved \/ h \notin Known(pending')]_vars

\* The table implements the ledger: claim once, withdraw with all flags, latest
\* offer decides the payee.
Ledger == INSTANCE LaneLedger WITH
    offered <- Known(pending), claimed <- pending.solved, pool_paid <- pending.fee_lane

ImplementsLedger == Ledger!Spec
=============================================================================
