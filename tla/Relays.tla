------------------------------- MODULE Relays -------------------------------
(***************************************************************************)
(* The nostr relays, as NostrTransport in pjn-transport uses them.         *)
(*                                                                         *)
(* `wraps' holds every gift wrap a relay has ever stored.  Nothing is ever *)
(* removed: a wrap that expired, was pruned or is simply not handed over   *)
(* looks to its addressee like one that recv has not returned, and recv    *)
(* may always return nothing.  A relay may hand wraps over in any order.   *)
(***************************************************************************)
EXTENDS Integers

CONSTANTS
    Pids,           \* payments, each named by the nostr key its payer generates
    Keys,           \* receiver session keys; a payjoin URI is named by its key
    Coins,          \* the coins of all wallets
    None,
    MaxCopies,      \* wraps with the same content that are told apart
    UnackedStores   \* whether a relay may store a wrap and fail to say so

ASSUME RelaysAssumption ==
    /\ MaxCopies \in Nat \ {0}
    /\ UnackedStores \in BOOLEAN
    /\ None \notin Pids \cup Keys \cup Coins
    /\ Pids \cap Keys = {}

VARIABLE wraps

Legs == {"original", "proposal", "error"}

\* An envelope and the keys on its seal.  `coin' is the payload as far as the
\* other side can tell payloads apart: the payer's coin in an Original PSBT, the
\* receiver's coin in a proposal.  A payment's key stands for its session id.
Envelope(leg, from, to, coin) ==
    [leg |-> leg, from |-> from, to |-> to, coin |-> coin, copy |-> 1]

\* Every send builds a new event, so a second send of the same envelope is
\* another wrap.  It may also end up as a copy that is already there: an event
\* nobody is ever handed cannot be told from an event that was not stored.
Posted(m) ==
    LET copies == {n \in 1..MaxCopies :
                     \A k \in 1..(n - 1) : [m EXCEPT !.copy = k] \in wraps}
    IN  {wraps \cup {[m EXCEPT !.copy = n]} : n \in copies}

\* send returned Ok: at least one relay stored the wrap.
Send(m) == wraps' \in Posted(m)

\* send returned Err: no relay acknowledged the wrap.
SendFails(m) == wraps' = wraps \/ (UnackedStores /\ Send(m))

\* What recv may hand to `key', given what this transport already delivered.
Undelivered(key, delivered) == {w \in wraps : w.to = key /\ w \notin delivered}
=============================================================================
