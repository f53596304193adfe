--------------------------- MODULE MCShareSubmit ---------------------------
(* Instances of ShareSubmit for TLC. *)
EXTENDS ShareSubmit, TLC

CONSTANTS c1, c2, w, h1, h2, p1, p2, p3, n1, n2

\* Both rigs carry one worker name, as rigs without extranonce may.
MCWorkerOf == [c \in Conns |-> w]

\* Two parents of lane h1 and one of h2.
MCLaneOf == [p \in Parents |-> IF p = p3 THEN h2 ELSE h1]

\* On p1 the first nonce clears everything and the second only the ZKas target;
\* on p2 the first is an ordinary share and the second clears only Kaspa's; on p3
\* the first is no share at all.
MCClears ==
    [p \in Parents |-> [n \in Nonces |->
        CASE p = p1 /\ n = n1 -> {"pool", "zkas", "kaspa"}
          [] p = p1 /\ n = n2 -> {"pool", "zkas"}
          [] p = p2 /\ n = n1 -> {"pool"}
          [] p = p2 /\ n = n2 -> {"pool", "kaspa"}
          [] p = p3 /\ n = n1 -> {}
          [] OTHER -> {"pool", "zkas"}]]

\* For the walk back: the nonce fits only p1, where it is a block, and on the other
\* parents the search for it goes on.
MCClearsSolo == [p \in Parents |-> [n \in Nonces |-> IF p = p1 THEN {"pool", "kaspa"} ELSE {}]]

\* The two rigs are interchangeable.
Symmetry == Permutations(Conns)
=============================================================================
