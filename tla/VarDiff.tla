------------------------------ MODULE VarDiff ------------------------------
(***************************************************************************)
(* The difficulty step of the vardiff thread (share_handler.rs), with the  *)
(* clamp to powers of two that the shipped configurations turn on.         *)
(* Difficulties are whole numbers, and the square root of the code is      *)
(* avoided by comparing squares.                                           *)
(***************************************************************************)
EXTENDS Naturals, FiniteSets

CONSTANTS
    MinDiff,        \* VARDIFF_MIN_DIFF
    Powers,         \* the powers of two in use, up to the largest difficulty
    NoSharesWait,   \* VARDIFF_MAX_ELAPSED_SECS_NO_SHARES
    MinElapsed,     \* VARDIFF_MIN_ELAPSED_SECS
    SparseElapsed,  \* VARDIFF_MAX_ELAPSED_SECS_SPARSE_SHARES
    MinShares,      \* VARDIFF_MIN_SHARES
    Minute,         \* a minute, in the unit of the durations above
    ExpectedSpm     \* shares per minute the thread aims at

ASSUME VarDiffAssumption ==
    /\ MinDiff \in Powers /\ Powers \subseteq Nat \ {0}
    /\ \A p \in Powers : p > MinDiff => \E q \in Powers : p = 2 * q
    /\ NoSharesWait \in Nat \ {0} /\ MinElapsed \in Nat /\ SparseElapsed \in Nat
    /\ MinShares \in Nat /\ Minute \in Nat \ {0} /\ ExpectedSpm \in Nat \ {0}

\* vardiff_pow2_clamp_towards: going down, the largest power of two p at or below
\* cur * sqrt(num / den), and never below the floor that was applied first.
PowerBelow(cur, num, den) ==
    LET fit == {p \in Powers : p >= MinDiff /\ p * p * den <= cur * cur * num}
    IN  IF fit = {} THEN MinDiff ELSE CHOOSE p \in fit : \A q \in fit : q <= p

\* Going up, the smallest power of two at or above; the largest one in use bounds
\* the instance.
PowerAbove(cur, num, den) ==
    LET fit == {p \in Powers : p >= cur /\ p * p * den >= cur * cur * num}
    IN  IF fit = {} THEN cur ELSE CHOOSE p \in fit : \A q \in fit : p <= q

\* The step down is VARDIFF_MAX_STEP_DOWN, a half: also what a window without
\* shares asks for.
Halved(cur) == IF cur <= MinDiff THEN cur ELSE PowerBelow(cur, 1, 4)

\* A change of less than a tenth is not worth a message.
Worthwhile(cur, next) ==
    10 * (IF next > cur THEN next - cur ELSE cur - next) >= cur

\* The ratio of observed to expected shares is num / den: below 3/4 the difficulty
\* comes down, by no more than a half; above 5/4 it goes up, by no more than 128.
Stepped(cur, num, den) ==
    CASE 4 * num <= 3 * den -> IF cur <= MinDiff THEN cur
                               ELSE IF 4 * num < den THEN Halved(cur) ELSE PowerBelow(cur, num, den)
      [] 4 * num >= 5 * den -> IF num > 16384 * den THEN PowerAbove(cur, 16384, 1)
                               ELSE PowerAbove(cur, num, den)
      [] OTHER -> cur

\* vardiff_compute_next_diff: the code's None is the difficulty left as it is.
NextDiff(cur, shares, elapsed) ==
    IF cur = 0 \/ elapsed = 0 THEN cur
    ELSE IF shares = 0 /\ elapsed >= NoSharesWait THEN Halved(cur)
    ELSE IF elapsed < MinElapsed \/ (shares < MinShares /\ elapsed < SparseElapsed) \/ shares = 0
    THEN cur
    ELSE LET next == Stepped(cur, shares * Minute, elapsed * ExpectedSpm)
         IN  IF Worthwhile(cur, next) THEN next ELSE cur
=============================================================================
