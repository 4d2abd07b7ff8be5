------------------------------- MODULE MCRecv -------------------------------
(***************************************************************************)
(* Recv on small instances: two relays, and wraps of which one is junk.    *)
(***************************************************************************)
EXTENDS Recv

CONSTANTS r1, r2

BothRelays == {{r1, r2}}
\* A run may be given one relay only.
OtherRelay == {{r1}}
=============================================================================
