----------------------------- MODULE MCTheater ------------------------------
(***************************************************************************)
(* Theater on small instances.                                             *)
(***************************************************************************)
EXTENDS Theater, TLC

CONSTANTS i1, i2, q1, q2, a1, a2, b1, b2, t1, t2

\* Coins, payments, invoices and tasks are alike.
Symmetries ==
    Permutations(Invoices) \cup Permutations(Tries) \cup Permutations(AliceCoins)
    \cup Permutations(BobCoins) \cup Permutations(Bobs)

\* No guard reads the step list of the page and, but for its type, no property of stage
\* does: states that differ in nothing else are one.
ButSteps == <<inner, bobVars, alice, notes, replies, watching, confirmed, chain>>
=============================================================================
