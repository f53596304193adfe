-------------------------- MODULE WorkStatsProofs --------------------------
(***************************************************************************)
(* The count of the connections of a worker, for any number of connections *)
(* and identities, whatever the threads do in between; and the difficulty  *)
(* that a worker is left with while it is away.                            *)
(***************************************************************************)
EXTENDS WorkStats, FiniteSetTheorems, WellFoundedInduction, TLAPS

\* The types the argument needs.
CountTypes ==
    /\ pc \in [Conns -> {"off", "open", "mixed", "claimed", "counted", "live", "closing", "gone"}]
    /\ ident \in [Conns -> Ids \union {NoId}] /\ want \in [Conns -> Ids \union {NoId}]
    /\ holds \in [Conns -> BOOLEAN] /\ stats \in SUBSET Keys /\ active \in [Keys -> Nat]

\* An activation that holds the entry of the map finds it there: without this the
\* count of Count(c) could go to a key that has no entry.
HeldIsPresent == \A c \in Conns : pc[c] = "claimed" /\ holds[c] => ident[c] \in stats

CountInv == CountTypes /\ HeldIsPresent /\ CountIsExact

\* What a step leaves alone when it moves nobody on or off the count: connections
\* stay registered with the key they had, and no entry leaves the map.
CountKept ==
    /\ \A k \in Keys : Counted(k)' = Counted(k)
    /\ active' = active /\ stats \subseteq stats' /\ raced' = raced
    /\ \A c \in Conns : pc'[c] = "claimed" /\ holds'[c] => ident'[c] \in stats'

\* Every identity is a key, and so is every pair that stats_key reads.
LEMMA IdentityIsKey == \A i \in Ids \union {NoId} : i \in Keys
  BY WorkStatsAssumption DEF WorkStatsAssumption, Keys

LEMMA ReadKeys ==
    ASSUME CountTypes, NEW c \in Conns, NEW k \in stats_key(c) PROVE k \in Keys
  <1>1. ident[c] \in Ids \union {NoId} /\ want[c] \in Ids \union {NoId}
    BY DEF CountTypes
  <1>2. CASE pc[c] = "mixed"
    BY <1>1, <1>2 DEF stats_key, Keys
  <1>3. CASE pc[c] # "mixed"
    BY <1>1, <1>3, IdentityIsKey DEF stats_key
  <1>4. QED
    BY <1>2, <1>3

\* The counted connections of a key are finitely many.
LEMMA CountedFinite == \A k : IsFiniteSet(Counted(k)) /\ Cardinality(Counted(k)) \in Nat
  <1>1. \A k : Counted(k) \subseteq Conns
    BY DEF Counted
  <1>2. QED
    BY <1>1, WorkStatsAssumption, FS_Subset, FS_CardinalityType DEF WorkStatsAssumption

\* A step that keeps the count keeps the invariant.
LEMMA KeptCount ==
    ASSUME CountInv, CountTypes', CountKept PROVE CountInv'
  <1>1. HeldIsPresent'
    BY DEF CountKept, HeldIsPresent
  <1>2. ASSUME NEW k \in Keys \ raced'
        PROVE  active'[k] = Cardinality(Counted(k)') /\ (Counted(k)' # {} => k \in stats')
    <2>1. k \in Keys \ raced /\ Counted(k)' = Counted(k) /\ active'[k] = active[k]
      BY <1>2 DEF CountKept
    <2>2. active[k] = Cardinality(Counted(k)) /\ (Counted(k) # {} => k \in stats)
      BY <2>1 DEF CountInv, CountIsExact
    <2>3. QED
      BY <2>1, <2>2 DEF CountKept
  <1>3. CountIsExact'
    BY <1>2 DEF CountIsExact, Counted
  <1>4. QED
    BY <1>1, <1>3 DEF CountInv

\* deactivate_client_vardiff with the connection no longer registered: the others of
\* its worker stay counted, and the entry that loses one had it.
LEMMA Leaving ==
    ASSUME CountInv, CountTypes', NEW c \in Conns, pc[c] \in {"open", "live"},
           deactivate_client_vardiff(c), ident' = ident, holds' = holds, stats' = stats,
           raced' = raced, NEW p \in {"mixed", "closing"}, pc' = [pc EXCEPT ![c] = p]
    PROVE  CountInv'
  <1> DEFINE k == ident[c]
  <1>0. pc \in [Conns -> {"off", "open", "mixed", "claimed", "counted", "live", "closing", "gone"}]
    BY DEF CountInv, CountTypes
  <1>1. k \in Keys
    BY IdentityIsKey DEF CountInv, CountTypes
  <1>2. HeldIsPresent'
    BY <1>0 DEF HeldIsPresent, CountInv
  <1>3. \A j : Counted(j)' = Counted(j) \ {c}
    BY <1>0 DEF Counted, Registered
  <1>4. CASE pc[c] = "open"
    <2>1. \A j : Counted(j)' = Counted(j)
      BY <1>0, <1>4 DEF Counted, Registered
    <2>2. active' = active
      BY <1>4 DEF deactivate_client_vardiff
    <2>3. CountKept
      BY <1>2, <2>1, <2>2 DEF CountKept, HeldIsPresent
    <2>4. QED
      BY <2>3, KeptCount
  <1>5. CASE pc[c] = "live"
    <2>1. c \in Counted(k) /\ \A j : j # k => c \notin Counted(j)
      BY <1>5 DEF Counted, Registered
    <2>2. ASSUME NEW j \in Keys \ raced'
          PROVE  active'[j] = Cardinality(Counted(j)') /\ (Counted(j)' # {} => j \in stats')
      <3>1. active[j] = Cardinality(Counted(j)) /\ (Counted(j) # {} => j \in stats)
        BY <2>2 DEF CountInv, CountIsExact
      <3>2. active \in [Keys -> Nat]
        BY DEF CountInv, CountTypes
      <3>3. CASE j = k
        <4>1. IsFiniteSet(Counted(k)) /\ Cardinality(Counted(k)) \in Nat
          BY CountedFinite
        <4>2. Cardinality(Counted(k) \ {c}) = Cardinality(Counted(k)) - 1
          BY <4>1, <2>1, FS_RemoveElement
        <4>3. Cardinality(Counted(k)) # 0
          BY <4>1, <2>1, FS_EmptySet
        <4>4. k \in stats
          BY <3>1, <3>3, <2>1
        <4>5. active' = [active EXCEPT ![k] = IF active[k] = 0 THEN 0 ELSE active[k] - 1]
          BY <1>5, <4>4 DEF deactivate_client_vardiff
        <4>6. active[k] # 0
          BY <3>1, <3>3, <4>3
        <4>7. active'[k] = active[k] - 1
          BY <4>5, <4>6, <3>2, <1>1
        <4>8. QED
          BY <4>7, <4>2, <3>1, <3>3, <1>3, <4>4
      <3>4. CASE j # k
        <4>1. active'[j] = active[j]
          BY <3>4, <3>2, <1>1 DEF deactivate_client_vardiff
        <4>2. Counted(j)' = Counted(j)
          BY <1>3, <2>1, <3>4
        <4>3. QED
          BY <4>1, <4>2, <3>1
      <3>5. QED
        BY <3>3, <3>4
    <2>3. CountIsExact'
      BY <2>2 DEF CountIsExact, Counted
    <2>4. QED
      BY <1>2, <2>3 DEF CountInv
  <1>6. QED
    BY <1>4, <1>5

\* Count(c): one more connection under its key, or a key that has lost its race.
LEMMA Counting ==
    ASSUME CountInv, CountTypes', NEW c \in Conns, Count(c) PROVE CountInv'
  <1> DEFINE k == ident[c]
  <1>0. pc \in [Conns -> {"off", "open", "mixed", "claimed", "counted", "live", "closing", "gone"}]
    BY DEF CountInv, CountTypes
  <1>1. k \in Keys
    BY IdentityIsKey DEF CountInv, CountTypes
  <1>2. HeldIsPresent'
    BY <1>0 DEF HeldIsPresent, CountInv, Count
  <1>4. c \notin Counted(k)
    BY DEF Counted, Registered, Count
  <1>5. ASSUME NEW j \in Keys \ raced'
        PROVE  active'[j] = Cardinality(Counted(j)') /\ (Counted(j)' # {} => j \in stats')
    <2>1. j \in Keys \ raced /\ stats' = stats
      BY <1>5 DEF Count
    <2>2. active[j] = Cardinality(Counted(j)) /\ (Counted(j) # {} => j \in stats)
      BY <2>1 DEF CountInv, CountIsExact
    <2>3. active \in [Keys -> Nat]
      BY DEF CountInv, CountTypes
    <2>4. CASE j # k
      <3>1. Counted(j)' = Counted(j)
        BY <1>0, <2>4 DEF Counted, Registered, Count
      <3>2. active'[j] = active[j]
        BY <2>4, <2>1, <2>3, <1>1 DEF Count
      <3>3. QED
        BY <3>1, <3>2, <2>1, <2>2
    <2>5. CASE j = k
      <3>1. holds[c]
        <4>1. SUFFICES ASSUME ~ holds[c] PROVE FALSE
          OBVIOUS
        <4>2. raced' = raced \union {k}
          BY <4>1 DEF Count
        <4>3. QED
          BY <4>2, <2>5, <1>5
      <3>2. k \in stats
        BY <3>1 DEF CountInv, HeldIsPresent, Count
      <3>3. active'[k] = active[k] + 1
        BY <3>1, <2>3, <1>1 DEF Count
      <3>4. Cardinality(Counted(k) \union {c}) = Cardinality(Counted(k)) + 1
        BY <1>4, CountedFinite, FS_AddElement
      <3>5. Counted(j)' = Counted(j) \union {c}
        BY <1>0, <2>5 DEF Counted, Registered, Count
      <3>6. Cardinality(Counted(j)') = active[j] + 1
        BY <3>4, <3>5, <2>2, <2>5
      <3>7. active'[j] = active[j] + 1 /\ j \in stats'
        BY <3>2, <3>3, <2>1, <2>5
      <3>8. QED
        BY <3>6, <3>7
    <2>6. QED
      BY <2>4, <2>5
  <1>6. CountIsExact'
    BY <1>5 DEF CountIsExact, Counted
  <1>7. QED
    BY <1>2, <1>6 DEF CountInv

\* Prune takes out entries with no connection on their count.
LEMMA Pruning ==
    ASSUME CountInv, CountTypes', Prune PROVE CountInv'
  <1> DEFINE out == {k \in stats : ~ should_retain_vardiff_stats(k)}
  <1>0. stats' = stats \ out /\ raced' = raced /\ pc' = pc /\ ident' = ident
    BY DEF Prune
  <1>1. \A k : Counted(k)' = Counted(k)
    BY <1>0 DEF Counted
  <1>2. active \in [Keys -> Nat]
    BY DEF CountInv, CountTypes
  <1>3. \A k \in out : active[k] = 0
    BY <1>2 DEF should_retain_vardiff_stats, CountInv, CountTypes
  <1>4. active' = [k \in Keys |-> IF k \in out THEN 0 ELSE active[k]]
    BY DEF Prune
  <1>5. active' = active
    BY <1>2, <1>3, <1>4
  <1>6. HeldIsPresent'
    <2>1. holds' = [c \in Conns |-> holds[c] /\ ident[c] \notin out]
      BY DEF Prune
    <2>2. ASSUME NEW c \in Conns, pc'[c] = "claimed", holds'[c] PROVE ident'[c] \in stats'
      <3>1. holds[c] /\ ident[c] \notin out
        BY <2>1, <2>2
      <3>2. ident[c] \in stats
        BY <3>1, <2>2, <1>0 DEF CountInv, HeldIsPresent
      <3>3. QED
        BY <3>1, <3>2, <1>0
    <2>3. QED
      BY <2>2 DEF HeldIsPresent
  <1>7. ASSUME NEW k \in Keys \ raced'
        PROVE  active'[k] = Cardinality(Counted(k)') /\ (Counted(k)' # {} => k \in stats')
    <2>1. active[k] = Cardinality(Counted(k)) /\ (Counted(k) # {} => k \in stats)
      BY <1>7, <1>0 DEF CountInv, CountIsExact
    <2>2. Counted(k) # {} => k \notin out
      <3>1. SUFFICES ASSUME Counted(k) # {}, k \in out PROVE FALSE
        OBVIOUS
      <3>2. Cardinality(Counted(k)) = 0
        BY <3>1, <1>3, <2>1
      <3>3. QED
        BY <3>1, <3>2, CountedFinite, FS_EmptySet
    <2>3. QED
      BY <2>1, <2>2, <1>0, <1>1, <1>5
  <1>8. CountIsExact'
    BY <1>7 DEF CountIsExact, Counted
  <1>9. QED
    BY <1>6, <1>8 DEF CountInv

\* Every step keeps the types.
LEMMA TypesKept ==
    ASSUME CountInv, Next PROVE CountTypes'
  <1>0. CountTypes
    BY DEF CountInv
  <1>1. ASSUME NEW c \in Conns, Connect(c) PROVE CountTypes'
    BY <1>0, <1>1 DEF CountTypes, Connect, entries
  <1>2. ASSUME NEW c \in Conns, deactivate_client_vardiff(c) PROVE active' \in [Keys -> Nat]
    <2>1. ident[c] \in Keys /\ active \in [Keys -> Nat]
      BY <1>0, IdentityIsKey DEF CountTypes
    <2>2. (IF active[ident[c]] = 0 THEN 0 ELSE active[ident[c]] - 1) \in Nat
      BY <2>1
    <2>3. QED
      BY <1>2, <2>1, <2>2 DEF deactivate_client_vardiff
  <1>3. ASSUME NEW c \in Conns, NEW id \in Ids, Authorize(c, id) PROVE CountTypes'
    <2>1. active' \in [Keys -> Nat]
      BY <1>2, <1>3 DEF Authorize
    <2>2. QED
      BY <1>0, <1>3, <2>1 DEF CountTypes, Authorize
  <1>4. ASSUME NEW c \in Conns, Claim(c) PROVE CountTypes'
    <2>1. want[c] \in Ids \union {NoId} /\ want[c] \in Keys
      BY <1>0, IdentityIsKey DEF CountTypes
    <2>2. stats' \in SUBSET Keys
      BY <1>0, <1>4, <2>1 DEF CountTypes, Claim, get_create_stats
    <2>3. holds' \in [Conns -> BOOLEAN]
      BY <1>0, <1>4 DEF CountTypes, Claim
    <2>4. QED
      BY <1>0, <1>4, <2>1, <2>2, <2>3 DEF CountTypes, Claim
  <1>5. ASSUME NEW c \in Conns, Count(c) PROVE CountTypes'
    <2>1. active' \in [Keys -> Nat]
      <3>1. active \in [Keys -> Nat] /\ active[ident[c]] \in Nat
        BY <1>0, IdentityIsKey DEF CountTypes
      <3>2. active[ident[c]] + 1 \in Nat
        BY <3>1
      <3>3. [active EXCEPT ![ident[c]] = @ + 1] \in [Keys -> Nat]
        BY <3>1, <3>2
      <3>4. QED
        BY <1>5, <3>1, <3>3 DEF Count
    <2>2. QED
      BY <1>0, <1>5, <2>1 DEF CountTypes, Count
  <1>6. ASSUME NEW c \in Conns, Fresh(c) PROVE CountTypes'
    <2>1. holds' \in [Conns -> BOOLEAN]
      BY <1>0, <1>6 DEF CountTypes, Fresh
    <2>2. QED
      BY <1>0, <1>6, <2>1 DEF CountTypes, Fresh
  <1>7. ASSUME NEW c \in Conns, Disconnect(c) PROVE CountTypes'
    <2>1. active' \in [Keys -> Nat]
      BY <1>2, <1>7 DEF Disconnect
    <2>2. QED
      BY <1>0, <1>7, <2>1 DEF CountTypes, Disconnect
  <1>8. ASSUME NEW c \in Conns, Finish(c) PROVE CountTypes'
    BY <1>0, <1>8 DEF CountTypes, Finish, entries
  <1>9. ASSUME NEW c \in Conns, Job(c) PROVE CountTypes'
    <2>1. PICK k \in stats_key(c) : stats' = stats \union {k}
      BY <1>9 DEF Job
    <2>2. k \in Keys
      BY <1>0, ReadKeys
    <2>3. QED
      BY <1>0, <1>9, <2>1, <2>2 DEF CountTypes, Job
  <1>9a. ASSUME NEW c \in Conns, Update(c) PROVE CountTypes'
    BY <1>0, <1>9a DEF CountTypes, Update
  <1>10. ASSUME NEW c \in Conns, Touch(c) PROVE CountTypes'
    <2>1. PICK k \in stats_key(c) : stats' = stats \union {k}
      BY <1>10 DEF Touch, get_create_stats
    <2>2. k \in Keys
      BY <1>0, ReadKeys
    <2>3. QED
      BY <1>0, <1>10, <2>1, <2>2 DEF CountTypes, Touch, conns
  <1>11. ASSUME NEW c \in Conns, Share(c) PROVE CountTypes'
    <2>1. ident[c] \in Keys
      BY <1>0, IdentityIsKey DEF CountTypes
    <2>2. QED
      BY <1>0, <1>11, <2>1 DEF CountTypes, Share, get_create_stats, conns
  <1>12. CASE Adjust
    BY <1>0, <1>12 DEF CountTypes, Adjust, conns
  <1>13. CASE Prune
    <2>1. active' \in [Keys -> Nat]
      BY <1>0, <1>13 DEF CountTypes, Prune
    <2>2. holds' \in [Conns -> BOOLEAN]
      BY <1>0, <1>13, Zenon DEF CountTypes, Prune
    <2>3. QED
      BY <1>0, <1>13, <2>1, <2>2 DEF CountTypes, Prune
  <1>14. CASE Elapse
    BY <1>0, <1>14 DEF CountTypes, Elapse, conns
  <1>15. QED
    BY <1>1, <1>3, <1>4, <1>5, <1>6, <1>7, <1>8, <1>9, <1>10, <1>11, <1>12, <1>13, <1>14,
       <1>9a
    DEF Next, ConnStep

\* The steps that keep the count: nobody becomes registered or leaves, and the map
\* only grows.
LEMMA Keeping ==
    ASSUME CountInv, CountTypes',
           \/ \E c \in Conns : \/ Connect(c) \/ Claim(c) \/ Fresh(c) \/ Finish(c)
                               \/ Job(c) \/ Update(c) \/ Touch(c) \/ Share(c)
           \/ Adjust \/ Elapse \/ UNCHANGED vars
    PROVE  CountKept
  <1>0. /\ pc \in [Conns -> {"off", "open", "mixed", "claimed", "counted", "live", "closing", "gone"}]
        /\ ident \in [Conns -> Ids \union {NoId}] /\ HeldIsPresent
        /\ holds \in [Conns -> BOOLEAN]
    BY DEF CountInv, CountTypes
  <1>1. ASSUME NEW c \in Conns, Connect(c) PROVE CountKept
    BY <1>0, <1>1 DEF CountKept, Connect, entries, Counted, Registered, HeldIsPresent
  <1>2. ASSUME NEW c \in Conns, Claim(c) PROVE CountKept
    <2>1. active' = active /\ raced' = raced /\ stats' = stats \union {want[c]}
      BY <1>2 DEF Claim, get_create_stats
    <2>2. \A k \in Keys : Counted(k)' = Counted(k)
      BY <1>0, <1>2 DEF Claim, Counted, Registered
    <2>3. \A d \in Conns : pc'[d] = "claimed" /\ holds'[d] => ident'[d] \in stats'
      BY <1>0, <1>2, <2>1 DEF Claim, HeldIsPresent
    <2>4. QED
      BY <2>1, <2>2, <2>3 DEF CountKept
  <1>3. ASSUME NEW c \in Conns, Fresh(c) PROVE CountKept
    <2>1. active' = active /\ raced' = raced /\ stats' = stats /\ ident' = ident
      BY <1>3 DEF Fresh
    <2>2. \A k \in Keys : Counted(k)' = Counted(k)
      BY <1>0, <1>3 DEF Fresh, Counted, Registered
    <2>3. \A d \in Conns : pc'[d] = "claimed" /\ holds'[d] => ident'[d] \in stats'
      BY <1>0, <1>3, <2>1 DEF Fresh, HeldIsPresent
    <2>4. QED
      BY <2>1, <2>2, <2>3 DEF CountKept
  <1>4. ASSUME NEW c \in Conns, Finish(c) PROVE CountKept
    BY <1>0, <1>4 DEF CountKept, Finish, entries, Counted, Registered, HeldIsPresent
  <1>5. ASSUME pc' = pc, ident' = ident, holds' = holds, active' = active, raced' = raced,
               stats \subseteq stats'
        PROVE  CountKept
    BY <1>0, <1>5 DEF CountKept, Counted, HeldIsPresent
  <1>6. ASSUME NEW c \in Conns, Job(c) PROVE CountKept
    BY <1>5, <1>6 DEF Job
  <1>6a. ASSUME NEW c \in Conns, Update(c) PROVE CountKept
    BY <1>5, <1>6a DEF Update
  <1>7. ASSUME NEW c \in Conns, Touch(c) PROVE CountKept
    BY <1>5, <1>7 DEF Touch, get_create_stats, conns
  <1>8. ASSUME NEW c \in Conns, Share(c) PROVE CountKept
    BY <1>5, <1>8 DEF Share, get_create_stats, conns
  <1>9. CASE Adjust
    BY <1>5, <1>9 DEF Adjust, conns
  <1>10. CASE Elapse
    BY <1>5, <1>10 DEF Elapse, conns
  <1>11. CASE UNCHANGED vars
    BY <1>5, <1>11 DEF vars, conns, entries
  <1>12. QED
    BY <1>1, <1>2, <1>3, <1>4, <1>6, <1>7, <1>8, <1>9, <1>10, <1>11, <1>6a

\* The count holds at the start and through every step.
LEMMA CountInitially == Init => CountInv
  <1> SUFFICES ASSUME Init PROVE CountInv
    OBVIOUS
  <1>1. CountTypes
    BY DEF Init, CountTypes
  <1>2. \A k : Counted(k) = {}
    BY DEF Init, Counted, Registered
  <1>3. CountIsExact
    BY <1>2, FS_EmptySet DEF Init, CountIsExact
  <1>4. HeldIsPresent
    BY DEF Init, HeldIsPresent
  <1>5. QED
    BY <1>1, <1>3, <1>4 DEF CountInv

\* One case per kind of step: those that keep the count, the connection that leaves
\* it, the one that joins it and the prune thread.
LEMMA CountStep == CountInv /\ [Next]_vars => CountInv'
  <1> SUFFICES ASSUME CountInv, [Next]_vars PROVE CountInv'
    OBVIOUS
  <1>1. CASE UNCHANGED vars
    <2>1. CountTypes'
      BY <1>1 DEF CountInv, CountTypes, vars, conns, entries
    <2>2. QED
      BY <1>1, <2>1, Keeping, KeptCount
  <1>2. CASE Next
    <2>0. CountTypes'
      BY <1>2, TypesKept
    <2>1. ASSUME NEW c \in Conns, NEW id \in Ids, Authorize(c, id) PROVE CountInv'
      BY <2>0, <2>1, Leaving DEF Authorize
    <2>2. ASSUME NEW c \in Conns, Disconnect(c) PROVE CountInv'
      BY <2>0, <2>2, Leaving DEF Disconnect
    <2>3. ASSUME NEW c \in Conns, Count(c) PROVE CountInv'
      BY <2>0, <2>3, Counting
    <2>4. CASE Prune
      BY <2>0, <2>4, Pruning
    <2>5. CASE \/ \E c \in Conns : \/ Connect(c) \/ Claim(c) \/ Fresh(c) \/ Finish(c)
                                   \/ Job(c) \/ Update(c) \/ Touch(c) \/ Share(c)
               \/ Adjust \/ Elapse
      BY <2>0, <2>5, Keeping, KeptCount
    <2>6. QED
      BY <1>2, <2>1, <2>2, <2>3, <2>4, <2>5 DEF Next, ConnStep
  <1>3. QED
    BY <1>1, <1>2

\* activate_client_vardiff and deactivate_client_vardiff keep active_connections equal
\* to the number of the worker's registered connections, for any connections and any
\* identities, and the prune thread never takes the entry of a counted connection.
THEOREM CountCorrect == Spec => []CountIsExact
  <1>1. Init => CountInv
    BY CountInitially
  <1>2. CountInv /\ [Next]_vars => CountInv'
    BY CountStep
  <1>3. CountInv => CountIsExact
    BY DEF CountInv
  <1>4. QED
    BY <1>1, <1>2, <1>3, PTL DEF Spec

-----------------------------------------------------------------------------
(* The step of the vardiff thread: for any powers, whatever was observed, the  *)
(* next difficulty is no lower than the half the code allows.                  *)

Below == {ss \in Nat \X Nat : ss[1] < ss[2]}

\* The least-number principle, for sets.
LEMMA LeastExists ==
    ASSUME NEW T, T \subseteq Nat, T # {}
    PROVE  \E m \in T : \A n \in T : m <= n
  <1>0. IsWellFoundedOn(Below, Nat)
    BY NatLessThanWellFounded, Zenon DEF OpToRel, Below
  <1>1. PICK m \in T : \A n \in T : ~(<<n, m>> \in Below)
    BY <1>0, WFMin, Zenon
  <1>2. \A n \in T : n < m => <<n, m>> \in Below
    BY DEF Below
  <1>3. \A n \in T : ~(n < m)
    BY <1>1, <1>2
  <1> QED BY <1>3

\* A bounded set of numbers has a greatest one: the least of its bounds.
LEMMA GreatestExists ==
    ASSUME NEW T, T \subseteq Nat, T # {}, NEW b \in Nat, \A n \in T : n <= b
    PROVE  \E m \in T : \A n \in T : n <= m
  <1> DEFINE Bounds == {m \in Nat : \A n \in T : n <= m}
  <1>1. Bounds \subseteq Nat /\ b \in Bounds
    OBVIOUS
  <1>2. PICK m \in Bounds : \A n \in Bounds : m <= n
    BY <1>1, LeastExists
  <1>3. m \in T
    <2> SUFFICES ASSUME m \notin T PROVE FALSE
      OBVIOUS
    <2>1. m \in Nat /\ \A n \in T : n \in Nat /\ n <= m /\ n # m
      BY <1>2
    <2>2. \A n \in T : n <= m - 1 /\ 0 <= m - 1
      BY <2>1
    <2>n. PICK n \in T : TRUE
      OBVIOUS
    <2>3. m - 1 \in Nat
      BY <2>1, <2>2, <2>n
    <2>4. m - 1 \in Bounds
      BY <2>2, <2>3
    <2> QED BY <1>2, <2>1, <2>4
  <1> QED BY <1>2, <1>3

\* Products grow with their factors.
LEMMA Times ==
    ASSUME NEW x \in Nat, NEW y \in Nat, NEW z \in Nat, x <= y
    PROVE  x * z \in Nat /\ y * z \in Nat /\ x * z <= y * z /\ x * z = z * x
  OBVIOUS

Fits(cur, num, den) == {p \in Powers : p >= MinDiff /\ p * p * den <= cur * cur * num}

\* Going down: the largest power that fits, or the floor.
LEMMA BelowFacts ==
    ASSUME NEW cur \in Nat, NEW num \in Nat, NEW den \in Nat \ {0}
    PROVE  /\ PowerBelow(cur, num, den) \in Nat /\ PowerBelow(cur, num, den) >= MinDiff
           /\ Fits(cur, num, den) = {} => PowerBelow(cur, num, den) = MinDiff
           /\ Fits(cur, num, den) # {} => PowerBelow(cur, num, den) \in Fits(cur, num, den)
           /\ \A p \in Fits(cur, num, den) : p <= PowerBelow(cur, num, den)
  <1> DEFINE fit == Fits(cur, num, den)
  <1>0. MinDiff \in Nat /\ fit \subseteq Nat /\ MinDiff \in Powers /\ Powers \subseteq Nat \ {0}
    BY VarDiffAssumption DEF Fits
  <1>1. PowerBelow(cur, num, den) = IF fit = {} THEN MinDiff ELSE CHOOSE p \in fit : \A q \in fit : q <= p
    BY DEF PowerBelow, Fits
  <1>2. CASE fit = {}
    BY <1>0, <1>1, <1>2
  <1>3. CASE fit # {}
    <2>1. cur * cur * num \in Nat
      OBVIOUS
    <2>2. \A p \in fit : p <= cur * cur * num
      <3> SUFFICES ASSUME NEW p \in fit PROVE p <= cur * cur * num
        OBVIOUS
      <3>1. p \in Nat /\ 1 <= p /\ p * p * den <= cur * cur * num /\ 1 <= den /\ p * p \in Nat
        BY <1>0 DEF Fits
      <3>2. p <= p * p
        BY <3>1, Times
      <3>3. p * p <= p * p * den
        <4>1. 1 * (p * p) <= den * (p * p)
          BY <3>1, Times
        <4> QED BY <4>1, <3>1
      <3>4. p * p * den \in Nat
        BY <3>1
      <3> HIDE DEF fit
      <3> QED BY <2>1, <3>1, <3>2, <3>3, <3>4
    <2>3. \E p \in fit : \A q \in fit : q <= p
      BY <1>0, <1>3, <2>1, <2>2, GreatestExists
    <2>4. PowerBelow(cur, num, den) \in fit /\ \A q \in fit : q <= PowerBelow(cur, num, den)
      BY <1>1, <1>3, <2>3
    <2>5. \A p \in fit : p >= MinDiff
      BY DEF Fits
    <2> QED BY <1>0, <1>3, <2>4, <2>5
  <1> QED BY <1>2, <1>3

\* Going up: never below where it was.
LEMMA AboveFacts ==
    ASSUME NEW cur \in Nat, NEW num, NEW den
    PROVE  PowerAbove(cur, num, den) \in Nat /\ PowerAbove(cur, num, den) >= cur
  <1> DEFINE fit == {p \in Powers : p >= cur /\ p * p * den >= cur * cur * num}
  <1>0. fit \subseteq Nat
    BY VarDiffAssumption
  <1>1. PowerAbove(cur, num, den) = IF fit = {} THEN cur ELSE CHOOSE p \in fit : \A q \in fit : p <= q
    BY DEF PowerAbove
  <1>2. CASE fit = {}
    BY <1>1, <1>2
  <1>3. CASE fit # {}
    <2>1. \E p \in fit : \A q \in fit : p <= q
      BY <1>0, <1>3, LeastExists
    <2>2. PowerAbove(cur, num, den) \in fit
      BY <1>1, <1>3, <2>1
    <2> QED BY <1>0, <2>2
  <1> QED BY <1>2, <1>3

\* A half is no more than the whole, and no less than the floor.
LEMMA HalvedFacts ==
    ASSUME NEW cur \in Nat, cur >= MinDiff
    PROVE  Halved(cur) \in Nat /\ Halved(cur) >= MinDiff /\ Halved(cur) <= cur
  <1>0. MinDiff \in Nat /\ Powers \subseteq Nat
    BY VarDiffAssumption
  <1>1. CASE cur <= MinDiff
    BY <1>0, <1>1 DEF Halved
  <1>2. CASE ~(cur <= MinDiff)
    <2>1. Halved(cur) = PowerBelow(cur, 1, 4)
      BY <1>2 DEF Halved
    <2>2. \A p \in Fits(cur, 1, 4) : p <= cur
      <3> SUFFICES ASSUME NEW p \in Fits(cur, 1, 4), cur < p PROVE FALSE
        BY <1>0 DEF Fits
      <3>1. p \in Nat /\ p * p * 4 <= cur * cur * 1 /\ p * p \in Nat /\ cur * cur \in Nat
        BY <1>0 DEF Fits
      <3>2. cur * cur <= p * cur /\ cur * p <= p * p /\ cur * p = p * cur /\ p * cur \in Nat
        BY <3>1, Times
      <3>3. 1 * p <= p * p
        BY <3>1, Times
      <3>4. 4 * (p * p) <= cur * cur
        BY <3>1
      <3> QED BY <3>1, <3>2, <3>3, <3>4
    <2>3. /\ PowerBelow(cur, 1, 4) \in Nat /\ PowerBelow(cur, 1, 4) >= MinDiff
          /\ PowerBelow(cur, 1, 4) = MinDiff \/ PowerBelow(cur, 1, 4) \in Fits(cur, 1, 4)
      BY BelowFacts, 4 \in Nat \ {0}
    <2> QED BY <1>0, <1>2, <2>1, <2>2, <2>3
  <1> QED BY <1>1, <1>2

\* The step is no deeper than a half.
LEMMA SteppedFacts ==
    ASSUME NEW cur \in Nat, cur >= MinDiff, NEW num \in Nat, NEW den \in Nat \ {0}
    PROVE  Stepped(cur, num, den) \in Nat /\ Stepped(cur, num, den) >= Halved(cur)
  <1>0. MinDiff \in Nat /\ Powers \subseteq Nat
    BY VarDiffAssumption
  <1>1. Halved(cur) \in Nat /\ Halved(cur) >= MinDiff /\ Halved(cur) <= cur
    BY HalvedFacts
  <1>2. CASE 4 * num <= 3 * den
    <2>0. Stepped(cur, num, den) = IF cur <= MinDiff THEN cur
                                   ELSE IF 4 * num < den THEN Halved(cur) ELSE PowerBelow(cur, num, den)
      BY <1>2 DEF Stepped
    <2>1. CASE cur <= MinDiff \/ 4 * num < den
      BY <1>1, <2>0, <2>1
    <2>2. CASE ~(cur <= MinDiff) /\ ~(4 * num < den)
      <3>1. Stepped(cur, num, den) = PowerBelow(cur, num, den) /\ Halved(cur) = PowerBelow(cur, 1, 4)
        BY <2>0, <2>2 DEF Halved
      <3>2. Fits(cur, 1, 4) \subseteq Fits(cur, num, den)
        <4> SUFFICES ASSUME NEW p \in Fits(cur, 1, 4) PROVE p * p * den <= cur * cur * num
          BY DEF Fits
        <4>1. p \in Nat /\ p * p \in Nat /\ cur * cur \in Nat /\ p * p * 4 <= cur * cur * 1
          BY <1>0 DEF Fits
        <4> DEFINE a == p * p
                   b == cur * cur
        <4>2. a \in Nat /\ b \in Nat /\ 4 * a <= b /\ den <= 4 * num /\ 4 * num \in Nat /\ 4 * a \in Nat
          BY <4>1, <2>2
        <4> SUFFICES a * den <= b * num
          OBVIOUS
        <4> HIDE DEF a, b
        <4>3. den * a <= (4 * num) * a
          BY <4>2, Times
        <4>4. (4 * a) * num <= b * num
          BY <4>2, Times
        <4>5. (4 * num) * a = (4 * a) * num /\ den * a = a * den
          BY <4>2
        <4> QED BY <4>2, <4>3, <4>4, <4>5
      <3>3. PowerBelow(cur, 1, 4) <= PowerBelow(cur, num, den)
        <4>1. CASE Fits(cur, 1, 4) = {}
          <5>1. PowerBelow(cur, 1, 4) = MinDiff
            BY <4>1, BelowFacts, 4 \in Nat \ {0}
          <5>2. PowerBelow(cur, num, den) >= MinDiff
            BY BelowFacts
          <5> QED BY <5>1, <5>2, <1>0
        <4>2. CASE Fits(cur, 1, 4) # {}
          <5>1. PowerBelow(cur, 1, 4) \in Fits(cur, num, den)
            BY <4>2, <3>2, BelowFacts
          <5> QED BY <5>1, BelowFacts
        <4> QED BY <4>1, <4>2
      <3> QED BY <3>1, <3>3, BelowFacts
    <2> QED BY <2>1, <2>2
  <1>3. CASE ~(4 * num <= 3 * den)
    <2>1. Stepped(cur, num, den) \in {cur, PowerAbove(cur, 16384, 1), PowerAbove(cur, num, den)}
      BY <1>3 DEF Stepped
    <2>2. Stepped(cur, num, den) \in Nat /\ Stepped(cur, num, den) >= cur
      BY <2>1, AboveFacts
    <2> QED BY <1>1, <2>2
  <1> QED BY <1>2, <1>3

\* vardiff_compute_next_diff: whatever was observed, the next difficulty is at least
\* the half that VARDIFF_MAX_STEP_DOWN allows, and a window that has just begun
\* changes nothing.
LEMMA NextDiffFacts ==
    ASSUME NEW cur \in Nat, cur >= MinDiff, NEW shares \in Nat, NEW elapsed \in Nat
    PROVE  /\ NextDiff(cur, shares, elapsed) \in Nat
           /\ NextDiff(cur, shares, elapsed) >= Halved(cur)
           /\ elapsed = 0 => NextDiff(cur, shares, elapsed) = cur
  <1>1. Halved(cur) \in Nat /\ Halved(cur) <= cur
    BY HalvedFacts
  <1>2. CASE elapsed = 0
    BY <1>1, <1>2 DEF NextDiff
  <1>3. CASE elapsed # 0
    <2>1. shares * Minute \in Nat /\ elapsed * ExpectedSpm \in Nat \ {0}
      BY <1>3, VarDiffAssumption
    <2> DEFINE next == Stepped(cur, shares * Minute, elapsed * ExpectedSpm)
    <2>2. next \in Nat /\ next >= Halved(cur)
      BY <2>1, SteppedFacts
    <2>3. NextDiff(cur, shares, elapsed) \in {cur, Halved(cur), next}
      BY <1>3 DEF NextDiff
    <2> HIDE DEF next
    <2> QED BY <1>1, <1>3, <2>2, <2>3
  <1> QED BY <1>2, <1>3

-----------------------------------------------------------------------------
(* Types, with the floor of the difficulties.                                 *)

Settable == {n \in Nat : n = 0 \/ n >= MinDiff}

EntryTypes ==
    /\ auths \in 0 .. MaxAuths
    /\ assigned \in [Conns -> Settable] /\ min_diff \in [Keys -> Settable] /\ cached \in [Keys -> Settable]
    /\ window \in [Keys -> 0 .. NoWindow] /\ found \in [Keys -> 0 .. MaxShares]
    /\ idle \in [Keys -> 0 .. Ttl] /\ raced \in SUBSET Keys

LEMMA TypesTogether == CountTypes /\ EntryTypes => TypeOK
  BY DEF CountTypes, EntryTypes, TypeOK, Settable

\* What an entry is created with, or has, is a difficulty.
LEMMA CreatedType ==
    ASSUME CountTypes, EntryTypes, NEW c \in Conns, NEW k \in Keys
    PROVE  created_diff(c, k) \in Settable /\ get_client_vardiff(c, k) \in Settable
  BY DEF EntryTypes, created_diff, get_client_vardiff

LEMMA CreateTypes ==
    ASSUME CountTypes, EntryTypes, NEW c \in Conns, NEW k \in Keys, get_create_stats(c, k)
    PROVE  min_diff' \in [Keys -> Settable] /\ idle' \in [Keys -> 0 .. Ttl]
  <1>1. created_diff(c, k) \in Settable
    BY CreatedType
  <1>2. 0 \in 0 .. Ttl
    BY WorkStatsAssumption
  <1> QED BY <1>1, <1>2 DEF EntryTypes, get_create_stats

LEMMA LeaveTypes ==
    ASSUME CountTypes, EntryTypes, NEW c \in Conns, deactivate_client_vardiff(c)
    PROVE  idle' \in [Keys -> 0 .. Ttl] /\ cached' \in [Keys -> Settable]
  <1>1. ident[c] \in Keys /\ 0 \in 0 .. Ttl
    BY IdentityIsKey, WorkStatsAssumption DEF CountTypes
  <1> QED BY <1>1 DEF EntryTypes, deactivate_client_vardiff

\* Every step keeps the types of the entries.
LEMMA EntryTypesKept ==
    ASSUME CountTypes, EntryTypes, [Next]_vars PROVE EntryTypes'
  <1>0. /\ 0 \in 0 .. Ttl /\ 0 \in 0 .. NoWindow /\ NoWindow \in 0 .. NoWindow /\ 0 \in 0 .. MaxShares
        /\ 0 \in Settable /\ MinDiff \in Nat /\ Seed \in Nat
    BY WorkStatsAssumption, VarDiffAssumption DEF Settable, NoWindow
  <1>k. ASSUME NEW c \in Conns PROVE ident[c] \in Keys /\ want[c] \in Keys
    BY IdentityIsKey DEF CountTypes
  <1>1. ASSUME NEW c \in Conns, Connect(c) PROVE EntryTypes'
    BY <1>1 DEF EntryTypes, Connect, entries
  <1>2. ASSUME NEW c \in Conns, NEW id \in Ids, Authorize(c, id) PROVE EntryTypes'
    <2>1. auths' \in 0 .. MaxAuths
      BY <1>2, WorkStatsAssumption DEF Authorize, EntryTypes
    <2>2. deactivate_client_vardiff(c) /\ UNCHANGED <<assigned, min_diff, window, found, raced>>
      BY <1>2 DEF Authorize
    <2> QED BY <2>1, <2>2, LeaveTypes DEF EntryTypes
  <1>3. ASSUME NEW c \in Conns, Claim(c) PROVE EntryTypes'
    BY <1>3, <1>k, CreateTypes DEF Claim, EntryTypes
  <1>4. ASSUME NEW c \in Conns, Count(c) PROVE EntryTypes'
    BY <1>4, <1>k DEF Count, EntryTypes
  <1>5. ASSUME NEW c \in Conns, Fresh(c) PROVE EntryTypes'
    BY <1>0, <1>5, <1>k DEF Fresh, EntryTypes
  <1>6. ASSUME NEW c \in Conns, Disconnect(c) PROVE EntryTypes'
    BY <1>6, LeaveTypes DEF Disconnect, EntryTypes
  <1>7. ASSUME NEW c \in Conns, Finish(c) PROVE EntryTypes'
    BY <1>0, <1>7 DEF Finish, EntryTypes, entries
  <1>8. ASSUME NEW c \in Conns, Job(c) PROVE EntryTypes'
    <2>1. PICK k \in stats_key(c) :
            LET diff == created_diff(c, k)
                restored == IF diff < MinDiff THEN (IF Seed > MinDiff THEN Seed ELSE MinDiff)
                            ELSE diff
            IN  /\ min_diff' = [min_diff EXCEPT ![k] = restored]
                /\ window' = [window EXCEPT ![k] = start_client_vardiff(k)]
                /\ idle' = [idle EXCEPT ![k] = 0]
                /\ assigned' = [assigned EXCEPT ![c] = restored]
      BY <1>8 DEF Job
    <2>2. k \in Keys
      BY ReadKeys
    <2>3. created_diff(c, k) \in Settable /\ start_client_vardiff(k) \in 0 .. NoWindow
      BY <1>0, <2>2, CreatedType DEF start_client_vardiff, EntryTypes
    <2> DEFINE diff == created_diff(c, k)
               restored == IF diff < MinDiff THEN (IF Seed > MinDiff THEN Seed ELSE MinDiff) ELSE diff
    <2>4. min_diff' = [min_diff EXCEPT ![k] = restored] /\ assigned' = [assigned EXCEPT ![c] = restored]
      BY <2>1
    <2>5. window' = [window EXCEPT ![k] = start_client_vardiff(k)] /\ idle' = [idle EXCEPT ![k] = 0]
      BY <2>1
    <2>6. diff \in Settable
      BY <2>3
    <2> HIDE DEF diff
    <2>7. restored \in Settable
      BY <1>0, <2>6 DEF Settable
    <2> HIDE DEF restored
    <2>8. UNCHANGED <<auths, found, raced, cached>>
      BY <1>8 DEF Job
    <2> QED BY <1>0, <2>2, <2>3, <2>4, <2>5, <2>7, <2>8 DEF EntryTypes
  <1>9. ASSUME NEW c \in Conns, Update(c) PROVE EntryTypes'
    <2>1. PICK k \in stats_key(c) :
            LET diff == get_client_vardiff(c, k)
            IN  IF diff = 0
                THEN set_client_vardiff(k, assigned[c]) /\ UNCHANGED assigned
                ELSE /\ assigned' = [assigned EXCEPT ![c] = diff]
                     /\ window' = IF diff # assigned[c] /\ k \in stats
                                  THEN [window EXCEPT ![k] = start_client_vardiff(k)] ELSE window
                     /\ UNCHANGED <<min_diff, found>>
      BY <1>9 DEF Update
    <2>2. k \in Keys
      BY ReadKeys
    <2>3. /\ get_client_vardiff(c, k) \in Settable /\ start_client_vardiff(k) \in 0 .. NoWindow
          /\ assigned[c] \in Settable
      BY <1>0, <2>2, CreatedType DEF start_client_vardiff, EntryTypes
    <2>4. assigned' \in [Conns -> Settable] /\ min_diff' \in [Keys -> Settable]
      BY <1>0, <2>1, <2>2, <2>3 DEF EntryTypes, set_client_vardiff
    <2>5. window' \in [Keys -> 0 .. NoWindow] /\ found' \in [Keys -> 0 .. MaxShares]
      BY <1>0, <2>1, <2>2, <2>3 DEF EntryTypes, set_client_vardiff
    <2> QED BY <1>9, <2>4, <2>5 DEF Update, EntryTypes
  <1>10. ASSUME NEW c \in Conns, Touch(c) PROVE EntryTypes'
    <2>1. PICK k \in stats_key(c) : get_create_stats(c, k)
      BY <1>10 DEF Touch
    <2>2. k \in Keys
      BY ReadKeys
    <2> QED BY <1>10, <2>1, <2>2, CreateTypes DEF Touch, EntryTypes, conns
  <1>11. ASSUME NEW c \in Conns, Share(c) PROVE EntryTypes'
    <2>1. found' \in [Keys -> 0 .. MaxShares]
      BY <1>11, <1>k, WorkStatsAssumption DEF Share, EntryTypes
    <2>2. get_create_stats(c, ident[c]) /\ UNCHANGED <<conns, active, window, raced, cached>>
      BY <1>11 DEF Share
    <2>3. min_diff' \in [Keys -> Settable] /\ idle' \in [Keys -> 0 .. Ttl]
      BY <1>k, <2>2, CreateTypes
    <2> QED BY <2>1, <2>2, <2>3 DEF EntryTypes, conns
  <1>12. CASE Adjust
    <2> DEFINE next == [k \in Keys |-> IF adjustable(k) THEN NextDiff(min_diff[k], found[k], window[k])
                                      ELSE min_diff[k]]
               moved == {k \in Keys : next[k] # min_diff[k]}
    <2>1. /\ min_diff' = next
          /\ window' = [k \in Keys |-> IF k \in moved THEN 0 ELSE window[k]]
          /\ found' = [k \in Keys |-> IF k \in moved THEN 0 ELSE found[k]]
          /\ UNCHANGED <<conns, stats, active, idle, raced, cached>>
      BY <1>12 DEF Adjust
    <2>2. ASSUME NEW k \in Keys PROVE next[k] \in Settable
      <3>1. min_diff[k] \in Settable /\ found[k] \in Nat /\ window[k] \in Nat
        BY DEF EntryTypes
      <3>2. CASE min_diff[k] = 0
        <4>1. NextDiff(min_diff[k], found[k], window[k]) = 0
          BY <3>2 DEF NextDiff
        <4> QED BY <1>0, <3>2, <4>1
      <3>3. CASE min_diff[k] # 0
        <4>1. min_diff[k] \in Nat /\ min_diff[k] >= MinDiff
          BY <3>1, <3>3 DEF Settable
        <4> DEFINE to == NextDiff(min_diff[k], found[k], window[k])
        <4>2. to \in Nat /\ to >= Halved(min_diff[k])
          BY <3>1, <4>1, NextDiffFacts
        <4>3. Halved(min_diff[k]) \in Nat /\ Halved(min_diff[k]) >= MinDiff
          BY <4>1, HalvedFacts
        <4>4. next[k] = to \/ next[k] = min_diff[k]
          OBVIOUS
        <4> HIDE DEF to, next
        <4> QED BY <1>0, <3>1, <4>2, <4>3, <4>4 DEF Settable
      <3> QED BY <3>2, <3>3
    <2>3. min_diff' \in [Keys -> Settable]
      BY <2>1, <2>2
    <2> HIDE DEF moved, next
    <2> QED BY <1>0, <2>1, <2>3 DEF EntryTypes, conns
  <1>13. CASE Prune
    BY <1>0, <1>13 DEF Prune, EntryTypes
  <1>14. CASE Elapse
    <2>1. window' \in [Keys -> 0 .. NoWindow]
      BY <1>14, WorkStatsAssumption DEF Elapse, EntryTypes, NoWindow
    <2>2. idle' \in [Keys -> 0 .. Ttl]
      BY <1>14, WorkStatsAssumption DEF Elapse, EntryTypes
    <2> QED BY <1>14, <2>1, <2>2 DEF Elapse, EntryTypes, conns
  <1>15. CASE UNCHANGED vars
    BY <1>15 DEF EntryTypes, vars, conns, entries
  <1> QED BY <1>1, <1>2, <1>3, <1>4, <1>5, <1>6, <1>7, <1>8, <1>9, <1>10, <1>11, <1>12, <1>13, <1>14, <1>15
      DEF Next, ConnStep

\* What the cache rests on: the count and the types together.
LEMMA TypeInvariance == Spec => [](CountInv /\ EntryTypes)
  <1>1. Init => CountInv /\ EntryTypes
    <2>1. Init => EntryTypes
      BY WorkStatsAssumption, VarDiffAssumption DEF Init, EntryTypes, Settable, NoWindow
    <2> QED BY <2>1, CountInitially
  <1>2. (CountInv /\ EntryTypes) /\ [Next]_vars => (CountInv /\ EntryTypes)'
    BY CountStep, EntryTypesKept DEF CountInv
  <1> QED BY <1>1, <1>2, PTL DEF Spec

\* Every variable keeps its type, and no difficulty that was set is ever below the
\* floor, whatever the vardiff thread computes from whatever window.
THEOREM TypeCorrect == Spec => []TypeOK
  <1>1. CountInv /\ EntryTypes => TypeOK
    BY TypesTogether DEF CountInv
  <1> QED BY <1>1, TypeInvariance, PTL

-----------------------------------------------------------------------------
(* The cached difficulty. It is what the worker had when its last connection   *)
(* left, until a connection has opened a window: in between, the count is up   *)
(* again only while an activation stands between its count and its window, no  *)
(* time passes, and the one step the vardiff thread can take from the old      *)
(* window restarts it.                                                         *)

Opening(k) == \E c \in Conns : pc[c] = "counted" /\ holds[c] /\ ident[c] = k

CacheInv ==
    \A k \in Keys : cached[k] # 0 =>
        /\ k \in stats
        /\ active[k] = 0 \/ Opening(k)
        /\ \/ min_diff[k] = cached[k]
           \/ Opening(k) /\ window[k] = 0 /\ min_diff[k] >= Halved(cached[k])

LEMMA CacheGives == ASSUME EntryTypes, CacheInv PROVE CachedDifficultyKept
  <1> SUFFICES ASSUME NEW k \in Keys, cached[k] # 0 PROVE min_diff[k] >= Halved(cached[k])
    BY DEF CachedDifficultyKept
  <1>1. cached[k] \in Nat /\ cached[k] >= MinDiff
    BY DEF EntryTypes, Settable
  <1>2. Halved(cached[k]) <= cached[k] /\ Halved(cached[k]) \in Nat
    BY <1>1, HalvedFacts
  <1> QED BY <1>1, <1>2 DEF CacheInv

\* A cached difficulty is set: the worker has one.
LEMMA CachedIsSet ==
    ASSUME EntryTypes, CacheInv, NEW k \in Keys, cached[k] # 0
    PROVE  k \in stats /\ min_diff[k] \in Nat /\ min_diff[k] >= MinDiff /\ min_diff[k] # 0
  <1>1. cached[k] \in Nat /\ cached[k] >= MinDiff /\ MinDiff \in Nat \ {0}
    BY VarDiffAssumption DEF EntryTypes, Settable
  <1>2. Halved(cached[k]) \in Nat /\ Halved(cached[k]) >= MinDiff
    BY <1>1, HalvedFacts
  <1>3. min_diff[k] \in Nat
    BY DEF EntryTypes, Settable
  <1> QED BY <1>1, <1>2, <1>3 DEF CacheInv

\* A step that counts nobody, ends no activation and leaves the worker's difficulty
\* and a window that has just begun as they are.
CacheQuiet ==
    /\ \A k \in Keys : cached'[k] # 0 =>
        /\ cached'[k] = cached[k] /\ active'[k] = active[k] /\ min_diff'[k] = min_diff[k]
        /\ window[k] = 0 => window'[k] = 0
        /\ k \in stats => k \in stats'
        /\ Opening(k) => Opening(k)'

LEMMA QuietCache == ASSUME CacheInv, CacheQuiet PROVE CacheInv'
  <1> SUFFICES ASSUME NEW k \in Keys, cached'[k] # 0
               PROVE  /\ k \in stats'
                      /\ active'[k] = 0 \/ Opening(k)'
                      /\ \/ min_diff'[k] = cached'[k]
                         \/ Opening(k)' /\ window'[k] = 0 /\ min_diff'[k] >= Halved(cached'[k])
    BY DEF CacheInv
  <1>1. /\ cached'[k] = cached[k] /\ active'[k] = active[k] /\ min_diff'[k] = min_diff[k]
        /\ window[k] = 0 => window'[k] = 0
        /\ k \in stats => k \in stats'
        /\ Opening(k) => Opening(k)'
    BY DEF CacheQuiet
  <1>2. /\ k \in stats
        /\ active[k] = 0 \/ Opening(k)
        /\ \/ min_diff[k] = cached[k]
           \/ Opening(k) /\ window[k] = 0 /\ min_diff[k] >= Halved(cached[k])
    BY <1>1 DEF CacheInv
  <1> QED BY <1>1, <1>2

\* get_create_stats changes nothing of an entry that is there.
LEMMA CreateQuiet ==
    ASSUME CountTypes, EntryTypes, CacheInv, NEW c \in Conns, NEW k \in Keys, get_create_stats(c, k),
           UNCHANGED <<active, window, cached>>, \A j \in Keys : Opening(j) => Opening(j)'
    PROVE  CacheQuiet
  <1> SUFFICES ASSUME NEW j \in Keys, cached[j] # 0 PROVE j \in stats' /\ min_diff'[j] = min_diff[j]
    BY DEF CacheQuiet
  <1>1. j \in stats
    BY DEF CacheInv
  <1>2. stats' = stats \union {k} /\ min_diff' = [min_diff EXCEPT ![k] = created_diff(c, k)]
    BY DEF get_create_stats
  <1>3. j = k => created_diff(c, k) = min_diff[k]
    BY <1>1 DEF created_diff
  <1> QED BY <1>1, <1>2, <1>3 DEF EntryTypes

\* A connection leaves: if it was the last, the difficulty it leaves is cached.
LEMMA LeaveCache ==
    ASSUME CountTypes, EntryTypes, CacheInv, NEW c \in Conns, pc[c] \in {"open", "live"},
           deactivate_client_vardiff(c), NEW p, pc' = [pc EXCEPT ![c] = p],
           UNCHANGED <<ident, holds, stats, min_diff, window>>
    PROVE  CacheInv'
  <1> DEFINE k == ident[c]
             left == IF active[k] = 0 THEN 0 ELSE active[k] - 1
             leaves == pc[c] = "live" /\ k \in stats
  <1>1. k \in Keys /\ active[k] \in Nat
    BY IdentityIsKey DEF CountTypes
  <1>2. \A j : Opening(j) => Opening(j)'
    BY DEF Opening, CountTypes
  <1>3. /\ active' = IF leaves THEN [active EXCEPT ![k] = left] ELSE active
        /\ cached' = IF leaves /\ left = 0 THEN [cached EXCEPT ![k] = min_diff[k]] ELSE cached
    BY DEF deactivate_client_vardiff
  <1>4. ASSUME NEW j \in Keys, cached'[j] # 0
        PROVE  /\ j \in stats'
               /\ active'[j] = 0 \/ Opening(j)'
               /\ \/ min_diff'[j] = cached'[j]
                  \/ Opening(j)' /\ window'[j] = 0 /\ min_diff'[j] >= Halved(cached'[j])
    <2>1. CASE leaves /\ left = 0 /\ j = k
      <3>1. active'[k] = 0 /\ cached'[k] = min_diff[k]
        BY <1>1, <1>3, <2>1 DEF CountTypes, EntryTypes
      <3> QED BY <2>1, <3>1
    <2>2. CASE ~(leaves /\ left = 0 /\ j = k)
      <3>1. cached'[j] = cached[j]
        BY <1>1, <1>3, <2>2 DEF EntryTypes
      <3>2. active'[j] = active[j] \/ active[j] # 0
        BY <1>1, <1>3, <2>2 DEF CountTypes
      <3> HIDE DEF left, leaves, k
      <3>3. /\ j \in stats /\ (active[j] = 0 \/ Opening(j))
            /\ \/ min_diff[j] = cached[j]
               \/ Opening(j) /\ window[j] = 0 /\ min_diff[j] >= Halved(cached[j])
        BY <1>4, <3>1 DEF CacheInv
      <3> QED BY <1>2, <3>1, <3>2, <3>3
    <2> QED BY <2>1, <2>2
  <1> QED BY <1>4 DEF CacheInv

\* A connection counts itself and has yet to open its window.
LEMMA CountCache ==
    ASSUME CountTypes, EntryTypes, CacheInv, NEW c \in Conns, Count(c) PROVE CacheInv'
  <1>1. /\ pc' = [pc EXCEPT ![c] = "counted"] /\ pc[c] = "claimed"
        /\ active' = IF holds[c] THEN [active EXCEPT ![ident[c]] = @ + 1] ELSE active
        /\ UNCHANGED <<ident, holds, stats, min_diff, window, cached>>
    BY DEF Count
  <1>2. \A j : Opening(j) => Opening(j)'
    BY <1>1 DEF Opening, CountTypes
  <1>3. holds[c] => Opening(ident[c])'
    BY <1>1 DEF Opening, CountTypes
  <1>4. \A j \in Keys : active'[j] = active[j] \/ Opening(j)'
    BY <1>1, <1>3 DEF CountTypes
  <1> QED BY <1>1, <1>2, <1>4 DEF CacheInv

\* It opens the window, and the difficulty is its own again.
LEMMA FreshCache ==
    ASSUME CountTypes, EntryTypes, CacheInv, NEW c \in Conns, Fresh(c) PROVE CacheInv'
  <1>1. /\ pc[c] = "counted" /\ pc' = [pc EXCEPT ![c] = "live"] /\ holds' = [holds EXCEPT ![c] = FALSE]
        /\ UNCHANGED <<ident, stats, active, min_diff>>
    BY DEF Fresh
  <1>2. ident[c] \in Keys
    BY IdentityIsKey DEF CountTypes
  <1>3. \A j : Opening(j) /\ ~(holds[c] /\ j = ident[c]) => Opening(j)'
    BY <1>1 DEF Opening, CountTypes
  <1>4. CASE holds[c]
    <2>1. window' = [window EXCEPT ![ident[c]] = 0] /\ cached' = [cached EXCEPT ![ident[c]] = 0]
      BY <1>4 DEF Fresh
    <2>2. \A j \in Keys : cached'[j] # 0 => j # ident[c] /\ cached'[j] = cached[j] /\ window'[j] = window[j]
      BY <1>2, <2>1 DEF EntryTypes
    <2>3. CacheQuiet
      BY <1>1, <1>3, <2>2 DEF CacheQuiet
    <2> QED BY <2>3, QuietCache
  <1>5. CASE ~holds[c]
    <2>1. window' = window /\ cached' = cached
      BY <1>5 DEF Fresh
    <2>2. CacheQuiet
      BY <1>1, <1>3, <1>5, <2>1 DEF CacheQuiet
    <2> QED BY <2>2, QuietCache
  <1> QED BY <1>4, <1>5

\* The vardiff thread can take one step, which restarts the window.
LEMMA AdjustCache ==
    ASSUME CountTypes, EntryTypes, CacheInv, Adjust PROVE CacheInv'
  <1> DEFINE next == [k \in Keys |-> IF adjustable(k) THEN NextDiff(min_diff[k], found[k], window[k])
                                    ELSE min_diff[k]]
             moved == {k \in Keys : next[k] # min_diff[k]}
  <1>1. /\ min_diff' = next
        /\ window' = [k \in Keys |-> IF k \in moved THEN 0 ELSE window[k]]
        /\ UNCHANGED <<pc, ident, holds, stats, active, cached>>
    BY DEF Adjust, conns
  <1>2. \A j : Opening(j)' <=> Opening(j)
    BY <1>1 DEF Opening
  <1>3. ASSUME NEW k \in Keys, cached[k] # 0
        PROVE  \/ min_diff'[k] = cached[k]
               \/ Opening(k) /\ window'[k] = 0 /\ min_diff'[k] >= Halved(cached[k])
    <2>1. min_diff[k] \in Nat /\ min_diff[k] >= MinDiff /\ found[k] \in Nat /\ window[k] \in Nat
      BY <1>3, CachedIsSet DEF EntryTypes
    <2>2. CASE k \notin moved
      <3>1. min_diff'[k] = min_diff[k] /\ window'[k] = window[k]
        BY <1>1, <2>2
      <3> QED BY <1>3, <3>1 DEF CacheInv
    <2>3. CASE k \in moved
      <3>1. adjustable(k) /\ min_diff'[k] = NextDiff(min_diff[k], found[k], window[k])
            /\ min_diff'[k] # min_diff[k] /\ window'[k] = 0
        BY <1>1, <2>3
      <3>2. window[k] # 0 /\ min_diff'[k] >= Halved(min_diff[k])
        BY <2>1, <3>1, NextDiffFacts
      <3>3. Opening(k)
        BY <1>3, <3>1 DEF CacheInv, adjustable, CountTypes
      <3>4. min_diff[k] = cached[k]
        BY <1>3, <3>2 DEF CacheInv
      <3> QED BY <3>1, <3>2, <3>3, <3>4
    <2> QED BY <2>2, <2>3
  <1> HIDE DEF moved, next
  <1> QED BY <1>1, <1>2, <1>3 DEF CacheInv

\* The prune thread forgets the cache with the entry.
LEMMA PruneCache ==
    ASSUME CountTypes, EntryTypes, CacheInv, Prune PROVE CacheInv'
  <1> DEFINE out == {k \in stats : ~ should_retain_vardiff_stats(k)}
  <1>1. /\ stats' = stats \ out
        /\ active' = [k \in Keys |-> IF k \in out THEN 0 ELSE active[k]]
        /\ min_diff' = [k \in Keys |-> IF k \in out THEN 0 ELSE min_diff[k]]
        /\ window' = [k \in Keys |-> IF k \in out THEN NoWindow ELSE window[k]]
        /\ cached' = [k \in Keys |-> IF k \in out THEN 0 ELSE cached[k]]
        /\ holds' = [c \in Conns |-> holds[c] /\ ident[c] \notin out]
        /\ UNCHANGED <<pc, ident>>
    BY DEF Prune
  <1> HIDE DEF out
  <1>2. ASSUME NEW k \in Keys, k \notin out, Opening(k) PROVE Opening(k)'
    <2>1. PICK c \in Conns : pc[c] = "counted" /\ holds[c] /\ ident[c] = k
      BY <1>2 DEF Opening
    <2>2. holds'[c]
      BY <1>1, <1>2, <2>1
    <2> QED BY <1>1, <2>1, <2>2 DEF Opening
  <1>3. \A k \in Keys : cached'[k] # 0 => k \notin out
    BY <1>1
  <1>4. CacheQuiet
    BY <1>1, <1>2, <1>3 DEF CacheQuiet
  <1> QED BY <1>4, QuietCache

\* The remaining steps are quiet.
LEMMA OtherCache ==
    ASSUME CountTypes, EntryTypes, CacheInv,
           \/ \E c \in Conns : Connect(c) \/ Claim(c) \/ Finish(c) \/ Job(c) \/ Update(c) \/ Touch(c) \/ Share(c)
           \/ Elapse \/ UNCHANGED vars
    PROVE  CacheInv'
  <1>s. ASSUME UNCHANGED <<pc, holds, ident>> PROVE \A j : Opening(j) => Opening(j)'
    BY <1>s DEF Opening
  <1>k. ASSUME NEW c \in Conns PROVE ident[c] \in Keys /\ want[c] \in Keys
    BY IdentityIsKey DEF CountTypes
  <1>1. ASSUME NEW c \in Conns, Connect(c) \/ Finish(c) PROVE CacheQuiet
    <2>1. \A j : Opening(j) => Opening(j)'
      BY <1>1 DEF Opening, Connect, Finish, CountTypes
    <2> QED BY <1>1, <2>1 DEF Connect, Finish, entries, CacheQuiet
  <1>2. ASSUME NEW c \in Conns, Claim(c) PROVE CacheQuiet
    <2>1. \A j : Opening(j) => Opening(j)'
      BY <1>2 DEF Opening, Claim, CountTypes
    <2>2. get_create_stats(c, want[c]) /\ UNCHANGED <<active, window, cached>>
      BY <1>2 DEF Claim
    <2> QED BY <1>k, <2>1, <2>2, CreateQuiet
  <1>3. ASSUME NEW c \in Conns, Job(c) PROVE CacheQuiet
    <2>1. PICK k \in stats_key(c) :
            LET diff == created_diff(c, k)
                restored == IF diff < MinDiff THEN (IF Seed > MinDiff THEN Seed ELSE MinDiff)
                            ELSE diff
            IN  /\ min_diff' = [min_diff EXCEPT ![k] = restored]
                /\ window' = [window EXCEPT ![k] = start_client_vardiff(k)]
                /\ stats' = stats \union {k}
      BY <1>3 DEF Job
    <2>2. k \in Keys
      BY ReadKeys
    <2>3. UNCHANGED <<pc, ident, holds, active, cached>>
      BY <1>3 DEF Job
    <2>4. window[k] = 0 => window'[k] = 0
      BY <2>1, <2>2, WorkStatsAssumption DEF start_client_vardiff, NoWindow, EntryTypes
    <2>5. cached[k] # 0 => min_diff'[k] = min_diff[k]
      <3> SUFFICES ASSUME cached[k] # 0 PROVE min_diff'[k] = min_diff[k]
        OBVIOUS
      <3>1. created_diff(c, k) = min_diff[k] /\ min_diff[k] \in Nat /\ min_diff[k] >= MinDiff /\ MinDiff \in Nat
        BY <2>2, CachedIsSet, VarDiffAssumption DEF created_diff
      <3> QED BY <2>1, <2>2, <3>1 DEF EntryTypes
    <2>6. \A j \in Keys \ {k} : min_diff'[j] = min_diff[j] /\ window'[j] = window[j]
      BY <2>1 DEF EntryTypes
    <2> QED BY <1>s, <2>1, <2>3, <2>4, <2>5, <2>6 DEF CacheQuiet
  <1>4. ASSUME NEW c \in Conns, Update(c) PROVE CacheQuiet
    <2>1. PICK k \in stats_key(c) :
            LET diff == get_client_vardiff(c, k)
            IN  IF diff = 0
                THEN set_client_vardiff(k, assigned[c]) /\ UNCHANGED assigned
                ELSE /\ window' = IF diff # assigned[c] /\ k \in stats
                                  THEN [window EXCEPT ![k] = start_client_vardiff(k)] ELSE window
                     /\ UNCHANGED <<min_diff, found>>
      BY <1>4 DEF Update
    <2>2. k \in Keys
      BY ReadKeys
    <2>3. UNCHANGED <<pc, ident, holds, active, cached, stats>>
      BY <1>4 DEF Update
    <2>4. window[k] = 0 => window'[k] = 0
      BY <2>1, <2>2, WorkStatsAssumption DEF start_client_vardiff, NoWindow, EntryTypes, set_client_vardiff
    <2>5. cached[k] # 0 => min_diff'[k] = min_diff[k]
      <3> SUFFICES ASSUME cached[k] # 0 PROVE min_diff'[k] = min_diff[k]
        OBVIOUS
      <3>1. get_client_vardiff(c, k) # 0
        BY <2>2, CachedIsSet DEF get_client_vardiff
      <3> QED BY <2>1, <3>1
    <2>6. \A j \in Keys \ {k} : min_diff'[j] = min_diff[j] /\ window'[j] = window[j]
      BY <2>1 DEF EntryTypes, set_client_vardiff
    <2> QED BY <1>s, <2>3, <2>4, <2>5, <2>6 DEF CacheQuiet
  <1>5. ASSUME NEW c \in Conns, Touch(c) \/ Share(c) PROVE CacheQuiet
    <2>1. PICK k \in Keys : get_create_stats(c, k)
      BY <1>5, <1>k, ReadKeys DEF Touch, Share
    <2>2. UNCHANGED <<pc, ident, holds, active, window, cached>>
      BY <1>5 DEF Touch, Share, conns
    <2> QED BY <1>s, <2>1, <2>2, CreateQuiet
  <1>6. CASE Elapse
    <2>1. UNCHANGED <<pc, ident, holds, stats, active, min_diff, cached>> /\ \A c \in Conns : pc[c] # "counted"
      BY <1>6 DEF Elapse, conns, MidStep
    <2>2. \A j : ~Opening(j)
      BY <2>1 DEF Opening
    <2> QED BY <2>1, <2>2 DEF CacheInv
  <1>7. CASE UNCHANGED vars
    BY <1>s, <1>7 DEF vars, conns, entries, CacheInv
  <1> QED BY <1>1, <1>2, <1>3, <1>4, <1>5, <1>6, <1>7, QuietCache

\* "Offline time is not evidence that the assigned difficulty was too high": for any
\* connections, identities and powers, the difficulty a worker left comes down by at
\* most one step before a connection has a window of its own.
THEOREM CachedCorrect == Spec => []CachedDifficultyKept
  <1>1. Init => CacheInv
    BY DEF Init, CacheInv
  <1>2. (CountInv /\ EntryTypes) /\ CacheInv /\ [Next]_vars => CacheInv'
    <2> SUFFICES ASSUME CountTypes, EntryTypes, CacheInv, [Next]_vars PROVE CacheInv'
      BY DEF CountInv
    <2>1. ASSUME NEW c \in Conns, NEW id \in Ids, Authorize(c, id) PROVE CacheInv'
      BY <2>1, LeaveCache DEF Authorize
    <2>2. ASSUME NEW c \in Conns, Disconnect(c) PROVE CacheInv'
      BY <2>2, LeaveCache DEF Disconnect
    <2> QED BY <2>1, <2>2, CountCache, FreshCache, AdjustCache, PruneCache, OtherCache DEF Next, ConnStep
  <1>3. (CountInv /\ EntryTypes) /\ CacheInv => CachedDifficultyKept
    BY CacheGives
  <1> QED BY <1>1, <1>2, <1>3, TypeInvariance, PTL DEF Spec
=============================================================================
