--------------------------- MODULE MCTheaterLocks ---------------------------
(***************************************************************************)
(* TheaterLocks with one task for each job that waits with a lock in hand, *)
(* a page, and the watcher of a payment.  A job left out (`handler') holds *)
(* one lock at a time and asks for none meanwhile.                         *)
(***************************************************************************)
EXTENDS TheaterLocks, TLC

CONSTANTS asking, viewing, bobTask, aliceTask, watching

OneOfEach ==
    asking :> "create_invoice" @@ viewing :> "stream_events"
    @@ bobTask :> "bob_handle" @@ aliceTask :> "alice_pay"
    @@ watching :> "watch_confirmation"
=============================================================================
