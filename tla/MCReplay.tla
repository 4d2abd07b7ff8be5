------------------------------ MODULE MCReplay ------------------------------
(***************************************************************************)
(* Replay on small instances: what a theater may have recorded.            *)
(***************************************************************************)
EXTENDS Replay

E(at, kind) == [t |-> at, is |-> kind]

Header == E(0, "header")

\* A payment with a long wait; the presenter clicks on when it has confirmed.
Payment == <<Header, E(0, "state"), E(1, "note"), E(8, "collected"),
             E(9, "confirmed"), E(9, "done"), E(11, "balances"), E(11, "log"), E(12, "reset"), E(12, "state")>>

\* A story that is begun anew and not finished.
Unfinished == <<Header, E(0, "note"), E(2, "reset"), E(2, "state"), E(4, "note"), E(5, "collected")>>

\* What was recorded after the story is not published; a key within it is refused.
Leaky == {<<Header, E(0, "note"), E(1, "secret")>>, Append(Payment, E(13, "secret"))}

Quiet == {Payment, Unfinished} \cup Leaky

\* The presenter clicks while the balances are fetched.
Clicked == {<<Header, E(0, "state"), E(1, "note"), E(2, "confirmed"), E(2, "done"),
              E(3, "log"), E(3, "state"), E(5, "balances")>>,
            <<Header, E(0, "state"), E(1, "note"), E(2, "confirmed"), E(2, "done"),
              E(3, "reset"), E(3, "state"), E(5, "balances")>>}

\* Two tasks took the time in one order and wrote in the other.
Inverted == {<<Header, E(0, "state"), E(1, "note"), E(4, "collected"), E(3, "log")>>}
=============================================================================
