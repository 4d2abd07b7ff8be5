------------------------------ MODULE Theater -------------------------------
(***************************************************************************)
(* pjn-theater: Alice and Bob in one server, driven from a page.  A request *)
(* handler holds the `inner' lock and is one action.  Bob is a task that a *)
(* handler starts and, through a oneshot channel, tells to stop; Alice is a *)
(* task that runs one payment.  Any handler may run at any time, and       *)
(* nothing survives a restart of the server, so there is none.             *)
(***************************************************************************)
EXTENDS Integers, FiniteSets, Chain

CONSTANTS
    Invoices,      \* payment requests, each named by Bob's one-time key
    Tries,         \* payments Alice starts, each with a key of its own
    AliceCoins, BobCoins,
    Bobs,          \* bounds the Bob tasks that are alive at one time
    None,
    Verdicts,      \* how Bob may judge a note whose coin he has not seen
    UnackedSends,  \* whether a relay may store a note and fail to say so
    FlakyConnect   \* whether Bob may fail to connect to the relays

ASSUME TheaterAssumption ==
    /\ None \notin Invoices \cup Tries \cup BobCoins \cup Bobs
    /\ AliceCoins \cap BobCoins = {}
    /\ Verdicts \subseteq {"accept", "unfit", "refuse"}
    /\ {UnackedSends, FlakyConnect} \subseteq BOOLEAN

VARIABLES
    invoice, online, busy, paid, stopper,   \* Inner; bob_stop as the task it stops
    bobs,      \* the Bob tasks
    alice,     \* Alice's task
    handled,   \* for each invoice, the notes some Bob task has taken
    late,      \* history: the notes that a task took after it was told to stop
    seen,      \* for each invoice, the coins Bob was shown
    notes,     \* Alice's notes on the relays: the try, its invoice and coin
    replies,   \* Bob's notes on the relays: the try, his coin or None, the task
    steps,     \* the step list of the page
    watching,  \* transactions that watch_confirmation polls for
    confirmed  \* transactions it found in a block

inner == <<invoice, online, busy, paid, stopper>>
bobVars == <<bobs, handled, late, seen>>
shown == <<steps, watching, confirmed>>
vars == <<inner, bobVars, alice, notes, replies, shown, chain>>

Steps == {"fallback", "seal", "stored", "collect", "checks", "reply", "validate",
          "broadcast", "confirm"}

NoTask == [at |-> "none", inv |-> None, stop |-> FALSE, known |-> {}, try |-> None,
           coin |-> None, offer |-> None]

Resting == [at |-> "idle", try |-> None, inv |-> None, coin |-> None,
            offer |-> None, won |-> FALSE]

Blank == [s \in Steps |-> "none"]

Init ==
    /\ invoice = None /\ online = FALSE /\ busy = FALSE /\ paid = FALSE
    /\ stopper = None
    /\ bobs = [b \in Bobs |-> NoTask]
    /\ alice = Resting
    /\ handled = [i \in Invoices |-> {}]
    /\ late = {}
    /\ seen = [i \in Invoices |-> {}]
    /\ notes = {} /\ replies = {} /\ chain = {}
    /\ steps = Blank
    /\ watching = {} /\ confirmed = {}

\* The page's step list after these steps changed.
Show(done, active, failed) ==
    steps' = [s \in Steps |-> CASE s \in failed -> "failed"
                                [] s \in active -> "active"
                                [] s \in done   -> "done"
                                [] OTHER        -> steps[s]]

-----------------------------------------------------------------------------
(* The handlers                                                            *)

\* stop.send: a task that is gone already does not hear it.
Stopped ==
    [b \in Bobs |-> IF b = stopper /\ bobs[b].at # "none"
                      THEN [bobs[b] EXCEPT !.stop = TRUE] ELSE bobs[b]]

\* start_bob
StartBob(tasks, i) ==
    IF i = None
      THEN bobs' = tasks /\ stopper' = None
      ELSE \E b \in Bobs :
             /\ bobs[b].at = "none"
             /\ bobs' = [tasks EXCEPT ![b] = [NoTask EXCEPT !.at = "connecting",
                                                            !.inv = i]]
             /\ stopper' = b

Used == {n.inv : n \in notes} \cup {bobs[b].inv : b \in Bobs} \cup {invoice}

\* Mutant of create_invoice: `paid' stays.
create_invoice_paid(i) ==
    /\ ~busy
    /\ i \notin Used
    /\ invoice' = i
    /\ IF online THEN StartBob(Stopped, i) ELSE bobs' = Stopped /\ stopper' = None
    /\ steps' = Blank
    /\ UNCHANGED <<online, busy, paid, alice, handled, late, seen, notes, replies,
                   watching, confirmed, chain>>

create_invoice(i) ==
    /\ ~busy
    /\ i \notin Used
    /\ invoice' = i
    /\ paid' = FALSE
    /\ IF online THEN StartBob(Stopped, i) ELSE bobs' = Stopped /\ stopper' = None
    /\ steps' = Blank
    /\ UNCHANGED <<online, busy, alice, handled, late, seen, notes, replies, watching,
                   confirmed, chain>>

\* Mutant of set_bob_online: Bob only listens for invoices still to come.
set_bob_online_idle ==
    /\ ~online
    /\ online' = TRUE
    /\ StartBob(bobs, None)
    /\ UNCHANGED <<invoice, busy, paid, alice, handled, late, seen, notes, replies,
                   shown, chain>>

set_bob_online ==
    /\ ~online
    /\ online' = TRUE
    /\ StartBob(bobs, invoice)
    /\ UNCHANGED <<invoice, busy, paid, alice, handled, late, seen, notes, replies,
                   shown, chain>>

set_bob_offline ==
    /\ online
    /\ online' = FALSE
    /\ bobs' = Stopped
    /\ stopper' = None
    /\ UNCHANGED <<invoice, busy, paid, alice, handled, late, seen, notes, replies,
                   shown, chain>>

\* Mutant of pay: an invoice may be paid again.
pay_again(q) ==
    /\ invoice # None
    /\ ~busy
    /\ q \notin {n.try : n \in notes}
    /\ busy' = TRUE
    /\ alice' = [Resting EXCEPT !.at = "asked", !.try = q, !.inv = invoice]
    /\ UNCHANGED <<invoice, online, paid, stopper, bobVars, notes, replies, shown,
                   chain>>

pay(q) ==
    /\ invoice # None
    /\ ~busy
    /\ ~paid
    /\ q \notin {n.try : n \in notes}
    /\ busy' = TRUE
    /\ alice' = [Resting EXCEPT !.at = "asked", !.try = q, !.inv = invoice]
    /\ UNCHANGED <<invoice, online, paid, stopper, bobVars, notes, replies, shown,
                   chain>>

\* Past its await, pay starts the task, whose first step is to build the fallback.
pay_starts ==
    /\ alice.at = "asked"
    /\ alice' = [alice EXCEPT !.at = "building"]
    /\ Show({}, {"fallback"}, {})
    /\ UNCHANGED <<inner, bobVars, notes, replies, watching, confirmed, chain>>

\* The browser is gone while pay awaits: nothing starts the task.
pay_dropped ==
    /\ alice.at = "asked"
    /\ alice' = Resting
    /\ UNCHANGED <<inner, bobVars, notes, replies, shown, chain>>

\* Mutants of reset: it does not wait for a payment to end, or leaves Bob at work.
reset_midway ==
    /\ bobs' = Stopped
    /\ stopper' = None
    /\ invoice' = None
    /\ paid' = FALSE
    /\ steps' = Blank
    /\ UNCHANGED <<online, busy, alice, handled, late, seen, notes, replies, watching,
                   confirmed, chain>>

reset_besides ==
    /\ ~busy
    /\ invoice' = None
    /\ paid' = FALSE
    /\ steps' = Blank
    /\ UNCHANGED <<online, busy, stopper, bobVars, alice, notes, replies, watching,
                   confirmed, chain>>

reset ==
    /\ ~busy
    /\ bobs' = Stopped
    /\ stopper' = None
    /\ invoice' = None
    /\ paid' = FALSE
    /\ steps' = Blank
    /\ UNCHANGED <<online, busy, alice, handled, late, seen, notes, replies, watching,
                   confirmed, chain>>

-----------------------------------------------------------------------------
(* Bob                                                                     *)

Quiet(b) == UNCHANGED <<inner, alice, notes, replies, shown, chain>>

\* Mutants of BobConnects: the transport is not told what was handled, or the coins
\* Bob was shown are forgotten with the old connection.
BobConnectsAnew(b) ==
    /\ bobs[b].at = "connecting"
    /\ bobs' = [bobs EXCEPT ![b].at = "listening"]
    /\ UNCHANGED <<handled, late, seen>> /\ Quiet(b)

BobConnectsUnguarded(b) ==
    /\ bobs[b].at = "connecting"
    /\ bobs' = [bobs EXCEPT ![b].at = "listening", ![b].known = handled[bobs[b].inv]]
    /\ seen' = [seen EXCEPT ![bobs[b].inv] = {}]
    /\ UNCHANGED <<handled, late>> /\ Quiet(b)

BobConnects(b) ==
    /\ bobs[b].at = "connecting"
    /\ bobs' = [bobs EXCEPT ![b].at = "listening", ![b].known = handled[bobs[b].inv]]
    /\ UNCHANGED <<handled, late, seen>> /\ Quiet(b)

\* No relay could be reached: the task ends, and nothing starts another.
BobUnreachable(b) ==
    /\ FlakyConnect
    /\ bobs[b].at = "connecting"
    /\ bobs' = [bobs EXCEPT ![b] = NoTask]
    /\ UNCHANGED <<handled, late, seen>> /\ Quiet(b)

BobStops(b) ==
    /\ bobs[b].at \in {"connecting", "listening"}
    /\ bobs[b].stop
    /\ bobs' = [bobs EXCEPT ![b] = NoTask]
    /\ UNCHANGED <<handled, late, seen>> /\ Quiet(b)

\* Told to stop while a note arrives, select! may still take the note; a task that
\* is scheduled late does so even when its successor has connected.
BobHears(b) ==
    /\ bobs[b].at = "listening"
    /\ \E n \in notes :
         /\ n.inv = bobs[b].inv
         /\ n.try \notin bobs[b].known
         /\ bobs' = [bobs EXCEPT ![b].at = "checking", ![b].try = n.try,
                                 ![b].coin = n.coin, ![b].known = @ \cup {n.try}]
         /\ handled' = [handled EXCEPT ![n.inv] = @ \cup {n.try}]
         /\ late' = IF bobs[b].stop THEN late \cup {n.try} ELSE late
    /\ Show({"collect"}, {"checks"}, {})
    /\ UNCHANGED <<inner, alice, seen, notes, replies, watching, confirmed, chain>>

\* respond: Bob's wallet is synced, then the note is judged.  The replay check
\* records the coin unless an earlier check fails.
BobJudges(b, verdict) ==
    LET i == bobs[b].inv
        fit == /\ verdict = "accept"
               /\ bobs[b].coin \notin seen[i]
               /\ BobCoins \ Spent # {}
    IN  /\ bobs[b].at = "checking"
        /\ seen' = IF verdict = "unfit" THEN seen
                   ELSE [seen EXCEPT ![i] = @ \cup {bobs[b].coin}]
        /\ IF fit
             THEN /\ \E c \in BobCoins \ Spent :
                       bobs' = [bobs EXCEPT ![b].at = "replying", ![b].offer = c]
                  /\ Show({"checks"}, {"reply"}, {})
             ELSE /\ bobs' = [bobs EXCEPT ![b].at = "replying"]
                  /\ Show({}, {}, {"checks"})
        /\ UNCHANGED <<inner, alice, handled, late, notes, replies, watching,
                       confirmed, chain>>

Stored(b) ==
    replies' = replies \cup {[try |-> bobs[b].try, offer |-> bobs[b].offer, by |-> b]}

Listening(b) ==
    bobs' = [bobs EXCEPT ![b].at = "listening", ![b].try = None, ![b].coin = None,
                         ![b].offer = None]

BobReplies(b) ==
    /\ bobs[b].at = "replying"
    /\ Stored(b)
    /\ Listening(b)
    /\ IF bobs[b].offer = None THEN UNCHANGED steps ELSE Show({"reply"}, {}, {})
    /\ UNCHANGED <<inner, alice, handled, late, seen, notes, watching, confirmed, chain>>

BobReplyFails(b) ==
    /\ bobs[b].at = "replying"
    /\ UNCHANGED replies \/ (UnackedSends /\ Stored(b))
    /\ Listening(b)
    /\ IF bobs[b].offer = None THEN UNCHANGED steps ELSE Show({}, {}, {"reply"})
    /\ UNCHANGED <<inner, alice, handled, late, seen, notes, watching, confirmed, chain>>

Bob(b) ==
    \/ BobConnects(b)
    \/ BobUnreachable(b)
    \/ BobStops(b)
    \/ BobHears(b)
    \/ \E verdict \in Verdicts : BobJudges(b, verdict)
    \/ BobReplies(b)
    \/ BobReplyFails(b)

-----------------------------------------------------------------------------
(* Alice: alice_pay_steps, then the end of alice_pay                       *)

Alone == UNCHANGED <<inner, bobVars, replies, confirmed>>

Leave(won) == alice' = [alice EXCEPT !.at = "leaving", !.won = won]

AliceBuilds ==
    /\ alice.at = "building"
    /\ \E c \in AliceCoins \ Spent :
         alice' = [alice EXCEPT !.at = "sending", !.coin = c]
    /\ Show({"fallback"}, {"seal"}, {})
    /\ Alone /\ UNCHANGED <<notes, watching, chain>>

AliceCannotBuild ==
    /\ alice.at = "building"
    /\ Leave(FALSE)
    /\ Show({}, {}, {"fallback"})
    /\ Alone /\ UNCHANGED <<notes, watching, chain>>

\* Mutant of AliceUnreachable: the early return skips the end of alice_pay.
AliceVanishes ==
    /\ alice.at = "sending"
    /\ alice' = Resting
    /\ Alone /\ UNCHANGED <<notes, steps, watching, chain>>

\* No relay could be reached: no step of the page says so.
AliceUnreachable ==
    /\ alice.at = "sending"
    /\ Leave(FALSE)
    /\ Alone /\ UNCHANGED <<notes, steps, watching, chain>>

Sealed == notes' = notes \cup {[try |-> alice.try, inv |-> alice.inv, coin |-> alice.coin]}

AliceSends ==
    /\ alice.at = "sending"
    /\ Sealed
    /\ alice' = [alice EXCEPT !.at = "sent"]
    /\ Alone /\ UNCHANGED <<steps, watching, chain>>

AliceSendFails ==
    /\ alice.at = "sending"
    /\ UNCHANGED notes \/ (UnackedSends /\ Sealed)
    /\ Leave(FALSE)
    /\ Show({}, {}, {"seal"})
    /\ Alone /\ UNCHANGED <<watching, chain>>

\* Only then does the page learn that the note is stored and waits.
AliceAnnounces ==
    /\ alice.at = "sent"
    /\ alice' = [alice EXCEPT !.at = "waiting"]
    /\ Show({"seal", "stored"}, {"collect"}, {})
    /\ Alone /\ UNCHANGED <<notes, watching, chain>>

AliceHearsProposal ==
    /\ alice.at = "waiting"
    /\ \E r \in replies :
         /\ r.try = alice.try
         /\ r.offer # None
         /\ alice' = [alice EXCEPT !.at = "proposal", !.offer = r.offer]
    /\ Show({}, {"validate"}, {})
    /\ Alone /\ UNCHANGED <<notes, watching, chain>>

AliceHearsError ==
    /\ alice.at = "waiting"
    /\ \E r \in replies : r.try = alice.try /\ r.offer = None
    /\ Leave(FALSE)
    /\ Show({}, {}, {"checks"})
    /\ Alone /\ UNCHANGED <<notes, watching, chain>>

\* ALICE_PATIENCE is over.
AliceGivesUp ==
    /\ alice.at = "waiting"
    /\ Leave(FALSE)
    /\ Show({}, {}, {"collect"})
    /\ Alone /\ UNCHANGED <<notes, watching, chain>>

AliceRefuses ==
    /\ alice.at = "proposal"
    /\ Leave(FALSE)
    /\ Show({}, {}, {"validate"})
    /\ Alone /\ UNCHANGED <<notes, watching, chain>>

Payjoin == Transaction(alice.try, alice.inv, {alice.coin, alice.offer})

AliceBroadcasts ==
    /\ alice.at = "proposal"
    /\ Broadcast(Payjoin)
    /\ Leave(TRUE)
    /\ watching' = watching \cup {Payjoin}
    /\ Show({"validate", "broadcast"}, {"confirm"}, {})
    /\ Alone /\ UNCHANGED notes

AliceBroadcastFails ==
    /\ alice.at = "proposal"
    /\ BroadcastFails(Payjoin)
    /\ Leave(FALSE)
    /\ Show({"validate"}, {}, {"broadcast"})
    /\ Alone /\ UNCHANGED <<notes, watching>>

AliceLeaves ==
    /\ alice.at = "leaving"
    /\ busy' = FALSE
    /\ paid' = (paid \/ alice.won)
    /\ alice' = Resting
    /\ UNCHANGED <<invoice, online, stopper, bobVars, notes, replies, shown, chain>>

\* watch_confirmation finds its transaction in a block.
Confirms(tx) ==
    /\ watching' = watching \ {tx}
    /\ confirmed' = confirmed \cup {tx}
    /\ Show({"confirm"}, {}, {})
    /\ UNCHANGED <<inner, bobVars, alice, notes, replies, chain>>

Alice ==
    \/ AliceBuilds
    \/ AliceCannotBuild
    \/ AliceUnreachable
    \/ AliceSends
    \/ AliceSendFails
    \/ AliceAnnounces
    \/ AliceHearsProposal
    \/ AliceHearsError
    \/ AliceGivesUp
    \/ AliceRefuses
    \/ AliceBroadcasts
    \/ AliceBroadcastFails
    \/ AliceLeaves

Next ==
    \/ \E i \in Invoices : create_invoice(i)
    \/ set_bob_online
    \/ set_bob_offline
    \/ \E q \in Tries : pay(q)
    \/ pay_starts
    \/ pay_dropped
    \/ reset
    \/ \E b \in Bobs : Bob(b)
    \/ Alice
    \/ \E tx \in watching : Confirms(tx)

Spec == Init /\ [][Next]_vars

-----------------------------------------------------------------------------
(* Properties                                                              *)

Places == {"none", "connecting", "listening", "checking", "replying"}

Tasks == [at : Places, inv : Invoices \cup {None}, stop : BOOLEAN, known : SUBSET Tries,
          try : Tries \cup {None}, coin : AliceCoins \cup {None},
          offer : BobCoins \cup {None}]

Payments == [at : {"idle", "asked", "building", "sending", "sent", "waiting",
                    "proposal", "leaving"},
             try : Tries \cup {None}, inv : Invoices \cup {None},
             coin : AliceCoins \cup {None}, offer : BobCoins \cup {None}, won : BOOLEAN]

\* Every variable holds what the server can put there.
TypeOK ==
    /\ invoice \in Invoices \cup {None}
    /\ {online, busy, paid} \subseteq BOOLEAN
    /\ stopper \in Bobs \cup {None}
    /\ bobs \in [Bobs -> Tasks]
    /\ \A b \in Bobs : bobs[b].inv \in Invoices \/ bobs[b] = NoTask
    /\ alice \in Payments
    /\ handled \in [Invoices -> SUBSET Tries]
    /\ late \subseteq Tries
    /\ seen \in [Invoices -> SUBSET AliceCoins]
    /\ notes \subseteq [try : Tries, inv : Invoices, coin : AliceCoins]
    /\ replies \subseteq [try : Tries, offer : BobCoins \cup {None}, by : Bobs]
    /\ steps \in [Steps -> {"none", "active", "done", "failed"}]

\* Whatever the order of going online, going offline, asking and resetting, the one
\* Bob task that is not told to stop is the one bob_stop can stop, and it listens
\* for the current invoice of a Bob who is online.
OneListener ==
    \A b \in Bobs :
        bobs[b].at # "none" /\ ~bobs[b].stop =>
            online /\ stopper = b /\ bobs[b].inv = invoice

\* While Alice pays, nothing replaces the invoice she pays, so what she
\* broadcasts is asked for and not yet paid.
PaysCurrentInvoice ==
    [][\A tx \in chain' \ chain : tx.uri = invoice /\ ~paid]_vars

\* An invoice that is called paid was paid.
PaidIsOnChain == paid => \E tx \in chain : tx.uri = invoice

\* Bob's replay guard for an invoice survives his reconnects: a coin of Alice is
\* answered with one of his own once per invoice, also while one task ends and
\* the next begins.
OneProposalPerCoin ==
    \A n, m \in notes : n.inv = m.inv /\ n.coin = m.coin =>
        \A r, s \in replies :
            /\ r.try = n.try /\ r.offer # None
            /\ s.try = m.try /\ s.offer # None
            => r = s

\* A reconnect does not hand a note back: every note is taken and answered once,
\* unless a task that had been told to stop took it too.
AnsweredOnce ==
    /\ \A r, s \in replies : r.try = s.try /\ r.try \notin late => r = s
    /\ \A b, o \in Bobs :
         bobs[b].try \notin late \cup {None} /\ bobs[b].try = bobs[o].try => b = o
    /\ \A b \in Bobs : \A r \in replies : r.try \notin late => bobs[b].try # r.try

\* Even without that exception.
NeverAnsweredTwice == \A r, s \in replies : r.try = s.try => r = s

\* An invoice is paid once.
InvoicePaidOnce == \A t, u \in chain : t.uri = u.uri => t = u

\* Alice's task is about the current invoice, with a note of its own.
AliceRight ==
    /\ alice.at # "idle" =>
         busy /\ ~paid /\ alice.inv = invoice /\ alice.inv # None /\ alice.try # None
    /\ alice.at \in {"asked", "building", "sending"} => \A n \in notes : n.try # alice.try
    /\ alice.at = "sending" => alice.coin \in AliceCoins
    /\ alice.at \in {"sent", "waiting", "proposal"} =>
         [try |-> alice.try, inv |-> alice.inv, coin |-> alice.coin] \in notes
    /\ alice.won => alice.at = "leaving" /\ \E tx \in chain : tx.uri = alice.inv

\* What is on the chain is for an invoice that has a note, and known to the server
\* unless a broadcast may be accepted and fail.
ChainKnown ==
    /\ \A tx \in chain : \E n \in notes : n.inv = tx.uri
    /\ ~UnackedBroadcasts =>
         /\ \A tx \in chain : tx.uri = invoice => paid \/ alice.won
         /\ InvoicePaidOnce

\* A note has one invoice and one coin, and a task deals with a note that is there.
NotesRight ==
    /\ \A n, m \in notes : n.try = m.try => n = m
    /\ \A b \in Bobs : bobs[b].at \in {"checking", "replying"} =>
         [try |-> bobs[b].try, inv |-> bobs[b].inv, coin |-> bobs[b].coin] \in notes

\* A coin for which a proposal was made, or is about to be sent, was seen, and there is
\* no second proposal for it.
GuardRight ==
    /\ \A r \in replies : r.offer # None =>
         \E n \in notes : n.try = r.try /\ n.coin \in seen[n.inv]
    /\ \A b \in Bobs : bobs[b].offer # None =>
         /\ bobs[b].at = "replying"
         /\ bobs[b].coin \in seen[bobs[b].inv]
         /\ \A r \in replies, n \in notes : r.offer # None /\ n.try = r.try =>
              n.inv # bobs[b].inv \/ n.coin # bobs[b].coin
         /\ \A o \in Bobs : /\ bobs[o].offer # None
                           /\ bobs[o].inv = bobs[b].inv
                           /\ bobs[o].coin = bobs[b].coin => o = b

\* What was answered or is in work was taken, and the task that is not told to stop
\* knows all that were taken but those taken late.
TakenRight ==
    /\ \A r \in replies : \E n \in notes : n.try = r.try /\ r.try \in handled[n.inv]
    /\ \A b \in Bobs : bobs[b].try # None =>
         bobs[b].at \in {"checking", "replying"} /\ bobs[b].try \in handled[bobs[b].inv]
    /\ \A b \in Bobs : bobs[b].at \notin {"none", "connecting"} /\ ~bobs[b].stop =>
         handled[bobs[b].inv] \subseteq bobs[b].known \cup late

\* The inductive invariant of the proofs.
IInv ==
    /\ TypeOK /\ OneListener /\ AliceRight /\ PaidIsOnChain
    /\ ChainKnown /\ NotesRight /\ GuardRight /\ OneProposalPerCoin

\* If a step fails, nothing is lost: the page only says so while the invoice is
\* unpaid and Alice holds her backup payment.
FailureMeansUnpaid ==
    (\E s \in Steps : steps[s] = "failed") /\ alice.at = "idle" =>
        \A tx \in chain : tx.uri # invoice

\* The page says that a payment is confirmed when that payment is.
DoneIsConfirmed ==
    paid /\ steps["confirm"] = "done" => \E tx \in confirmed : tx.uri = invoice

\* A step that the page has ticked off is not shown as running again: it does
\* not wait for a Bob who has the note.
CollectStaysTicked ==
    alice.at = "waiting" /\ alice.try \in handled[alice.inv] =>
        steps["collect"] # "active"

\* A request to pay goes on or is dropped.  Alice's task takes its steps, and
\* whatever she waits for ends.
AliceRuns == WF_vars(pay_starts \/ pay_dropped) /\ WF_vars(Alice)

\* A Bob task takes its steps; one that goes on listening is handed every note,
\* and one whose connection can succeed connects.
BobRuns ==
    \A b \in Bobs :
        /\ WF_vars(Bob(b))
        /\ WF_vars(BobConnects(b))
        /\ SF_vars(BobHears(b))

RunningSpec == Spec /\ AliceRuns /\ BobRuns

\* A payment whose task was started ends, and the page is free again.
PaymentEnds == alice.at = "building" ~> ~busy

\* So is a page that was told to pay.
PageNeverStaysBusy == busy ~> ~busy

\* While Bob is online, a note for his current invoice is picked up.
NoteCollected ==
    \A q \in Tries :
        (online /\ \E n \in notes : n.try = q /\ n.inv = invoice)
            ~> \/ ~online
               \/ \E i \in Invoices : q \in handled[i]
               \/ \A n \in notes : n.try = q => n.inv # invoice
=============================================================================
