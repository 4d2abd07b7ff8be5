------------------------------- MODULE Ledger -------------------------------
(***************************************************************************)
(* What pjn-sender promises its user, with relays, receiver and processes  *)
(* left out: a session file holds one payment at a time, a payment is paid *)
(* only while it is in its file, and it is paid at most once.              *)
(***************************************************************************)
CONSTANTS Files, Pids, None

VARIABLES
    open,   \* the payment each file holds, or None
    owner,  \* the file each payment was begun in, or None
    paid    \* payments whose transaction the network accepted

ledgerVars == <<open, owner, paid>>

Init ==
    /\ open = [f \in Files |-> None]
    /\ owner = [q \in Pids |-> None]
    /\ paid = {}

\* A payment is begun only where none is open.
Begin(f, q) ==
    /\ open[f] = None
    /\ owner[q] = None
    /\ open' = [open EXCEPT ![f] = q]
    /\ owner' = [owner EXCEPT ![q] = f]
    /\ UNCHANGED paid

\* The open payment is settled, by payjoin or by fallback.
Pay(f) ==
    /\ open[f] # None
    /\ open[f] \notin paid
    /\ paid' = paid \cup {open[f]}
    /\ UNCHANGED <<open, owner>>

\* The file is deleted; the payment in it, paid or not, is over for good.
Forget(f) ==
    /\ open[f] # None
    /\ open' = [open EXCEPT ![f] = None]
    /\ UNCHANGED <<owner, paid>>

Next == \E f \in Files :
    \/ \E q \in Pids : Begin(f, q)
    \/ Pay(f)
    \/ Forget(f)

Spec == Init /\ [][Next]_ledgerVars
=============================================================================
