------------------------------- MODULE Chain --------------------------------
(***************************************************************************)
(* The bitcoin network behind esplora: external to the repository, modelled *)
(* from how SignetWallet uses it.  A transaction is accepted while none of *)
(* the coins it spends is spent by one accepted before, and a wallet that  *)
(* syncs sees every accepted transaction, confirmed or not.                *)
(***************************************************************************)
CONSTANT UnackedBroadcasts  \* whether a broadcast may be accepted and report Err

ASSUME ChainAssumption == UnackedBroadcasts \in BOOLEAN

VARIABLE chain  \* the accepted transactions

\* A transaction that settles payment `pid' and pays `uri'.
Transaction(pid, uri, coins) == [pid |-> pid, uri |-> uri, coins |-> coins]

Spent == UNION {tx.coins : tx \in chain}

Paid == {tx.pid : tx \in chain}

\* SignetWallet::broadcast returned Ok.
Broadcast(tx) ==
    /\ tx.coins \cap Spent = {}
    /\ chain' = chain \cup {tx}

\* SignetWallet::broadcast returned Err.
BroadcastFails(tx) == chain' = chain \/ (UnackedBroadcasts /\ Broadcast(tx))
=============================================================================
