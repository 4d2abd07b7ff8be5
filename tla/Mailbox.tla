------------------------------ MODULE Mailbox -------------------------------
(***************************************************************************)
(* What pjn-transport promises the party that listens: of the gift wraps   *)
(* that are stored for its key it is handed those it can open, each once   *)
(* per transport, in any order.  This is the step that module Relays calls *)
(* Undelivered.                                                            *)
(***************************************************************************)
CONSTANTS Openable, None

VARIABLES
    there,      \* the gift wraps that are stored on some relay
    delivered,  \* those the transport in use has handed over
    got         \* the last one handed over, or None

mailVars == <<there, delivered, got>>

Init == there = {} /\ delivered = {} /\ got = None

\* A relay stores a wrap.
Arrive == there \subseteq there' /\ UNCHANGED <<delivered, got>>

HandOver(w) ==
    /\ w \in (there \cap Openable) \ delivered
    /\ delivered' = delivered \cup {w}
    /\ got' = w
    /\ UNCHANGED there

\* The party goes on with what it got, or begins to wait.
Move == got' = None /\ UNCHANGED <<there, delivered>>

\* Another transport, that is told which wraps the party has handled.
Reconnect == got' = None /\ delivered' \subseteq there /\ UNCHANGED there

Next == Arrive \/ (\E w \in Openable : HandOver(w)) \/ Move \/ Reconnect

Spec == Init /\ [][Next]_mailVars
=============================================================================
