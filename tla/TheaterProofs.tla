---------------------------- MODULE TheaterProofs ----------------------------
(***************************************************************************)
(* For any invoices, payments, coins and tasks: one Bob listens, he offers *)
(* one coin for a coin of Alice, and what is paid is asked for, paid once  *)
(* and called paid rightly.                                                *)
(***************************************************************************)
EXTENDS Theater, TLAPS

LEMMA StageInit == Init => IInv
<1> SUFFICES ASSUME Init PROVE IInv
  OBVIOUS
<1> USE DEF Init
<1>1. NoTask \in Tasks /\ NoTask.at = "none" /\ NoTask.offer = None
  BY DEF NoTask, Tasks, Places
<1>2. Resting \in Payments /\ Resting.at = "idle" /\ Resting.won = FALSE
  BY DEF Resting, Payments
<1>3. TypeOK
  BY <1>1, <1>2 DEF TypeOK, Blank
<1>4. AliceRight
  BY <1>2 DEF AliceRight
<1>5. OneListener /\ NotesRight /\ GuardRight
  BY <1>1 DEF OneListener, NotesRight, GuardRight
<1>6. PaidIsOnChain /\ ChainKnown /\ OneProposalPerCoin
  BY DEF PaidIsOnChain, ChainKnown, InvoicePaidOnce, OneProposalPerCoin
<1> QED
  BY <1>3, <1>4, <1>5, <1>6 DEF IInv

\* The step list stays one.
LEMMA ShowType ==
    ASSUME NEW D, NEW A, NEW F, TypeOK, Show(D, A, F)
    PROVE  steps' \in [Steps -> {"none", "active", "done", "failed"}]
  BY DEF TypeOK, Show

-----------------------------------------------------------------------------
(* What the handlers do to Bob's tasks                                     *)

\* A stop signal changes nothing but the flag.
LEMMA StopOnly ==
    ASSUME TypeOK
    PROVE  /\ Stopped \in [Bobs -> Tasks]
           /\ \A b \in Bobs :
                /\ Stopped[b].at = bobs[b].at /\ Stopped[b].inv = bobs[b].inv
                /\ Stopped[b].try = bobs[b].try /\ Stopped[b].coin = bobs[b].coin
                /\ Stopped[b].offer = bobs[b].offer
                /\ Stopped[b].stop <=> bobs[b].stop \/ (b = stopper /\ bobs[b].at # "none")
                /\ Stopped[b].inv \in Invoices \/ Stopped[b] = NoTask
<1> DEFINE S(b) == [bobs[b] EXCEPT !.stop = TRUE]
<1>1. ASSUME NEW b \in Bobs
      PROVE  /\ S(b) \in Tasks /\ S(b).stop = TRUE
             /\ S(b).at = bobs[b].at /\ S(b).inv = bobs[b].inv
             /\ S(b).try = bobs[b].try /\ S(b).coin = bobs[b].coin
             /\ S(b).offer = bobs[b].offer
  BY DEF TypeOK, Tasks
<1>2. ASSUME NEW b \in Bobs
      PROVE  bobs[b] \in Tasks /\ bobs[b].stop \in BOOLEAN
             /\ (bobs[b].inv \in Invoices \/ bobs[b] = NoTask)
  BY DEF TypeOK, Tasks
<1>3. ASSUME NEW b \in Bobs
      PROVE  Stopped[b] = IF b = stopper /\ bobs[b].at # "none" THEN S(b) ELSE bobs[b]
  BY DEF Stopped
<1>4. ASSUME NEW b \in Bobs, bobs[b].at # "none" PROVE bobs[b].inv \in Invoices
  BY <1>2, <1>4 DEF NoTask
<1> HIDE DEF S
<1>5. Stopped \in [Bobs -> Tasks]
  BY <1>1, <1>2 DEF Stopped, S
<1> SUFFICES ASSUME NEW b \in Bobs
      PROVE  /\ Stopped[b].at = bobs[b].at /\ Stopped[b].inv = bobs[b].inv
             /\ Stopped[b].try = bobs[b].try /\ Stopped[b].coin = bobs[b].coin
             /\ Stopped[b].offer = bobs[b].offer
             /\ Stopped[b].stop <=> bobs[b].stop \/ (b = stopper /\ bobs[b].at # "none")
             /\ Stopped[b].inv \in Invoices \/ Stopped[b] = NoTask
  BY <1>5
<1>6. CASE b = stopper /\ bobs[b].at # "none"
  <2>1. Stopped[b] = S(b)
    BY <1>3, <1>6
  <2> QED
    BY <1>1, <1>4, <1>6, <2>1
<1>7. CASE ~(b = stopper /\ bobs[b].at # "none")
  <2>1. Stopped[b] = bobs[b]
    BY <1>3, <1>7
  <2> QED
    BY <1>2, <1>7, <2>1
<1> QED
  BY <1>6, <1>7

\* Bob's tasks before or after a stop signal, as far as the invariant goes.
Kept(tasks) ==
    /\ tasks \in [Bobs -> Tasks]
    /\ \A b \in Bobs :
         /\ tasks[b].at = bobs[b].at /\ tasks[b].inv = bobs[b].inv
         /\ tasks[b].try = bobs[b].try /\ tasks[b].coin = bobs[b].coin
         /\ tasks[b].offer = bobs[b].offer
         /\ tasks[b].inv \in Invoices \/ tasks[b] = NoTask

\* A task that starts is a new one.
LEMMA StartBobKeeps ==
    ASSUME IInv, NEW tasks, Kept(tasks), NEW i \in Invoices \cup {None}, StartBob(tasks, i),
           \A b \in Bobs : tasks[b].at # "none" => tasks[b].stop,
           online' = TRUE, invoice' = i,
           UNCHANGED <<notes, replies, seen>>
    PROVE  /\ bobs' \in [Bobs -> Tasks] /\ stopper' \in Bobs \cup {None}
           /\ \A b \in Bobs : bobs'[b].inv \in Invoices \/ bobs'[b] = NoTask
           /\ OneListener' /\ NotesRight' /\ GuardRight'
<1> DEFINE Fresh == [NoTask EXCEPT !.at = "connecting", !.inv = i]
<1>0. /\ Fresh.at = "connecting" /\ Fresh.inv = i /\ Fresh.offer = None /\ Fresh.stop = FALSE
      /\ i \in Invoices => Fresh \in Tasks
  BY DEF NoTask, Tasks, Places
<1>1. CASE i = None
  <2>1. bobs' = tasks /\ stopper' = None
    BY <1>1 DEF StartBob
  <2>2. OneListener'
    BY <2>1 DEF OneListener
  <2>3. NotesRight'
    BY <2>1 DEF NotesRight, IInv, Kept
  <2>4. GuardRight'
    BY <2>1 DEF GuardRight, IInv, Kept
  <2> QED
    BY <2>1, <2>2, <2>3, <2>4 DEF Kept
<1>2. CASE i # None
  <2>1. PICK b \in Bobs : /\ bobs[b].at = "none"
                          /\ bobs' = [tasks EXCEPT ![b] = Fresh]
                          /\ stopper' = b
    BY <1>2 DEF StartBob
  <2> HIDE DEF Fresh
  <2>2. bobs' \in [Bobs -> Tasks] /\ bobs'[b] = Fresh
        /\ \A o \in Bobs \ {b} : bobs'[o] = tasks[o]
    BY <2>1, <1>0, <1>2 DEF Kept
  <2>3. OneListener'
    BY <2>1, <2>2, <1>0 DEF OneListener
  <2>4. NotesRight'
    BY <2>1, <2>2, <1>0 DEF NotesRight, IInv, Kept
  <2>5. GuardRight'
    BY <2>1, <2>2, <1>0 DEF GuardRight, IInv, Kept
  <2> QED
    BY <2>1, <2>2, <2>3, <2>4, <2>5, <1>0, <1>2 DEF Kept
<1> QED
  BY <1>1, <1>2

\* Without a new task, all tasks have been told to stop.
LEMMA StopKeeps ==
    ASSUME IInv, bobs' = Stopped, stopper' = None, UNCHANGED <<notes, replies, seen>>
    PROVE  /\ bobs' \in [Bobs -> Tasks]
           /\ \A b \in Bobs : bobs'[b].inv \in Invoices \/ bobs'[b] = NoTask
           /\ OneListener' /\ NotesRight' /\ GuardRight'
<1> USE StopOnly DEF IInv
<1>1. OneListener'
  BY DEF OneListener
<1>2. NotesRight'
  BY DEF NotesRight
<1>3. GuardRight'
  BY DEF GuardRight
<1> QED
  BY <1>1, <1>2, <1>3

LEMMA StoppedIsKept ==
    ASSUME IInv
    PROVE  Kept(Stopped) /\ \A b \in Bobs : Stopped[b].at # "none" => Stopped[b].stop
  BY StopOnly DEF IInv, OneListener, Kept

LEMMA AsTheyAre ==
    ASSUME IInv, ~online
    PROVE  Kept(bobs) /\ \A b \in Bobs : bobs[b].at # "none" => bobs[b].stop
  BY DEF IInv, OneListener, Kept, TypeOK

LEMMA BlankSteps == Blank \in [Steps -> {"none", "active", "done", "failed"}]
  BY DEF Blank

LEMMA CreateInvoiceKeeps ==
    ASSUME IInv, NEW i \in Invoices, create_invoice(i)
    PROVE  IInv'
<1>1. /\ ~busy /\ invoice' = i /\ paid' = FALSE /\ steps' = Blank
      /\ i \notin {n.inv : n \in notes}
      /\ UNCHANGED <<online, busy, alice, handled, late, seen, notes, replies, chain>>
  BY DEF create_invoice, Used
<1>2. /\ bobs' \in [Bobs -> Tasks] /\ stopper' \in Bobs \cup {None}
      /\ \A b \in Bobs : bobs'[b].inv \in Invoices \/ bobs'[b] = NoTask
      /\ OneListener' /\ NotesRight' /\ GuardRight'
  <2>1. CASE online
    <3>1. StartBob(Stopped, i) /\ online' = TRUE
      BY <2>1, <1>1 DEF create_invoice, IInv, TypeOK
    <3> QED
      BY <3>1, <1>1, StoppedIsKept, StartBobKeeps
  <2>2. CASE ~online
    BY <2>2, <1>1, StopKeeps DEF create_invoice
  <2> QED
    BY <2>1, <2>2
<1>3. TypeOK'
  BY <1>1, <1>2, BlankSteps DEF IInv, TypeOK
<1>4. AliceRight'
  BY <1>1 DEF IInv, AliceRight
<1>5. PaidIsOnChain'
  BY <1>1 DEF PaidIsOnChain
<1>6. ChainKnown'
  BY <1>1 DEF IInv, ChainKnown, InvoicePaidOnce
<1>7. OneProposalPerCoin'
  BY <1>1 DEF IInv, OneProposalPerCoin
<1> QED
  BY <1>2, <1>3, <1>4, <1>5, <1>6, <1>7 DEF IInv

LEMMA OnlineKeeps ==
    ASSUME IInv, set_bob_online
    PROVE  IInv'
<1>1. /\ online' = TRUE /\ ~online /\ StartBob(bobs, invoice)
      /\ UNCHANGED <<invoice, busy, paid, alice, handled, late, seen, notes, replies, steps, chain>>
  BY DEF set_bob_online, shown
<1>2. /\ bobs' \in [Bobs -> Tasks] /\ stopper' \in Bobs \cup {None}
      /\ \A b \in Bobs : bobs'[b].inv \in Invoices \/ bobs'[b] = NoTask
      /\ OneListener' /\ NotesRight' /\ GuardRight'
  BY <1>1, AsTheyAre, StartBobKeeps DEF IInv, TypeOK
<1>3. TypeOK'
  BY <1>1, <1>2 DEF IInv, TypeOK
<1> QED
  BY <1>1, <1>2, <1>3
     DEF IInv, AliceRight, PaidIsOnChain, ChainKnown, InvoicePaidOnce, OneProposalPerCoin

LEMMA OfflineKeeps ==
    ASSUME IInv, set_bob_offline
    PROVE  IInv'
<1>1. /\ online' = FALSE /\ bobs' = Stopped /\ stopper' = None
      /\ UNCHANGED <<invoice, busy, paid, alice, handled, late, seen, notes, replies, steps, chain>>
  BY DEF set_bob_offline, shown
<1>2. TypeOK'
  BY <1>1, StopKeeps DEF IInv, TypeOK
<1> QED
  BY <1>1, <1>2, StopKeeps
     DEF IInv, AliceRight, PaidIsOnChain, ChainKnown, InvoicePaidOnce, OneProposalPerCoin

LEMMA ResetKeeps ==
    ASSUME IInv, reset
    PROVE  IInv'
<1>1. /\ ~busy /\ invoice' = None /\ paid' = FALSE /\ steps' = Blank
      /\ bobs' = Stopped /\ stopper' = None
      /\ UNCHANGED <<online, busy, alice, handled, late, seen, notes, replies, chain>>
  BY DEF reset
<1>2. TypeOK'
  BY <1>1, StopKeeps, BlankSteps DEF IInv, TypeOK
<1>3. AliceRight'
  BY <1>1 DEF IInv, AliceRight
<1>4. ChainKnown'
  BY <1>1, TheaterAssumption DEF IInv, ChainKnown, InvoicePaidOnce, TypeOK
<1> QED
  BY <1>1, <1>2, <1>3, <1>4, StopKeeps DEF IInv, PaidIsOnChain, OneProposalPerCoin

\* A payment starts with a try that has no note.
LEMMA PayKeeps ==
    ASSUME IInv, NEW q \in Tries, pay(q)
    PROVE  IInv'
<1> DEFINE new == [Resting EXCEPT !.at = "asked", !.try = q, !.inv = invoice]
<1>1. /\ invoice # None /\ ~paid /\ q \notin {n.try : n \in notes}
      /\ busy' = TRUE /\ alice' = new
      /\ UNCHANGED <<invoice, online, paid, stopper, bobs, handled, late, seen, notes,
                     replies, steps, chain>>
  BY DEF pay, bobVars, shown
<1>2. /\ new.at = "asked" /\ new.try = q /\ new.inv = invoice /\ new.won = FALSE
      /\ new \in Payments
  BY DEF Resting, Payments, IInv, TypeOK
<1>3. alice.won = FALSE
  BY DEF pay, IInv, AliceRight, TypeOK, Payments
<1> HIDE DEF new
<1>4. TypeOK'
  BY <1>1, <1>2 DEF IInv, TypeOK
<1>5. AliceRight'
  BY <1>1, <1>2, TheaterAssumption DEF AliceRight
<1>6. ChainKnown'
  BY <1>1, <1>2, <1>3 DEF IInv, ChainKnown, InvoicePaidOnce
<1> QED
  BY <1>1, <1>4, <1>5, <1>6
     DEF IInv, OneListener, PaidIsOnChain, NotesRight, GuardRight, OneProposalPerCoin

\* The task starts, or nobody starts it.
LEMMA PayEndsKeeps ==
    ASSUME IInv, pay_starts \/ pay_dropped
    PROVE  IInv'
<1>1. PICK new : /\ alice' = new /\ new \in Payments /\ new.won = FALSE
                 /\ \/ new.at = "idle"
                    \/ new.at = "building" /\ new.try = alice.try /\ new.inv = alice.inv
  <2> DEFINE started == [alice EXCEPT !.at = "building"]
  <2>1. /\ started \in Payments /\ started.at = "building" /\ started.won = alice.won
        /\ started.try = alice.try /\ started.inv = alice.inv
    BY DEF IInv, TypeOK, Payments
  <2>2. Resting \in Payments /\ Resting.at = "idle" /\ Resting.won = FALSE
    BY DEF Resting, Payments
  <2>3. alice.won = FALSE
    BY DEF pay_starts, pay_dropped, IInv, AliceRight, TypeOK, Payments
  <2>4. alice' = started \/ alice' = Resting
    BY DEF pay_starts, pay_dropped
  <2> HIDE DEF started
  <2> QED
    BY <2>1, <2>2, <2>3, <2>4
<1>2. /\ alice.at = "asked" /\ alice.won = FALSE
      /\ UNCHANGED <<invoice, online, busy, paid, stopper, bobs, handled, late, seen, notes,
                     replies, chain>>
      /\ steps' \in [Steps -> {"none", "active", "done", "failed"}]
  BY ShowType DEF pay_starts, pay_dropped, inner, bobVars, shown, IInv, AliceRight, TypeOK,
                  Payments
<1>3. TypeOK'
  BY <1>1, <1>2 DEF IInv, TypeOK
<1>4. AliceRight'
  BY <1>1, <1>2 DEF IInv, AliceRight
<1>5. ChainKnown'
  BY <1>1, <1>2 DEF IInv, ChainKnown, InvoicePaidOnce
<1> QED
  BY <1>1, <1>2, <1>3, <1>4, <1>5
     DEF IInv, OneListener, PaidIsOnChain, NotesRight, GuardRight, OneProposalPerCoin

-----------------------------------------------------------------------------
(* What Bob's tasks do                                                     *)

\* Task b becomes t, which listens for the same invoice and was told the same, or ends.
Becomes(b, t) ==
    /\ t \in Tasks
    /\ \/ t = NoTask
       \/ bobs[b].at # "none" /\ t.inv = bobs[b].inv /\ t.stop = bobs[b].stop
    /\ bobs' = [bobs EXCEPT ![b] = t]

LEMMA BobFrame ==
    ASSUME IInv, NEW b \in Bobs, NEW t, Becomes(b, t),
           UNCHANGED <<inner, alice, notes, chain>>,
           handled' \in [Invoices -> SUBSET Tries], late' \subseteq Tries,
           seen' \in [Invoices -> SUBSET AliceCoins],
           replies' \subseteq [try : Tries, offer : BobCoins \cup {None}, by : Bobs],
           steps' \in [Steps -> {"none", "active", "done", "failed"}]
    PROVE  /\ TypeOK' /\ OneListener' /\ AliceRight' /\ PaidIsOnChain' /\ ChainKnown'
           /\ bobs'[b] = t /\ \A o \in Bobs \ {b} : bobs'[o] = bobs[o]
<1> USE DEF inner
<1>1. bobs' \in [Bobs -> Tasks] /\ bobs'[b] = t /\ \A o \in Bobs \ {b} : bobs'[o] = bobs[o]
  BY DEF Becomes, IInv, TypeOK
<1>2. NoTask.at = "none"
  BY DEF NoTask
<1>3. \A o \in Bobs : bobs'[o].inv \in Invoices \/ bobs'[o] = NoTask
  BY <1>1, <1>2 DEF Becomes, IInv, TypeOK
<1>4. TypeOK'
  BY <1>1, <1>3 DEF IInv, TypeOK
<1>5. OneListener'
  BY <1>1, <1>2 DEF Becomes, IInv, OneListener
<1>6. AliceRight' /\ PaidIsOnChain' /\ ChainKnown'
  BY DEF IInv, AliceRight, PaidIsOnChain, ChainKnown, InvoicePaidOnce
<1> QED
  BY <1>1, <1>4, <1>5, <1>6

\* A task that holds no coin of Bob's changes nothing for the guard.
LEMMA NoOfferKeeps ==
    ASSUME IInv, NEW b \in Bobs, NEW t, t.offer = None,
           bobs'[b] = t, \A o \in Bobs \ {b} : bobs'[o] = bobs[o],
           UNCHANGED <<notes, replies, seen>>
    PROVE  GuardRight' /\ OneProposalPerCoin'
<1>1. GuardRight'
  BY DEF IInv, GuardRight
<1>2. OneProposalPerCoin'
  BY DEF IInv, OneProposalPerCoin
<1> QED
  BY <1>1, <1>2

\* Tasks outside of a check hold no coin.
LEMMA TaskOf ==
    ASSUME IInv, NEW b \in Bobs
    PROVE  /\ bobs[b] \in Tasks
           /\ bobs[b].at # "none" => bobs[b].inv \in Invoices
           /\ bobs[b].at # "replying" => bobs[b].offer = None
  BY DEF IInv, TypeOK, NoTask, GuardRight

LEMMA ConnectsKeeps ==
    ASSUME IInv, NEW b \in Bobs, BobConnects(b)
    PROVE  IInv'
<1> DEFINE t == [bobs[b] EXCEPT !.at = "listening", !.known = handled[bobs[b].inv]]
<1>1. /\ bobs[b].at = "connecting"
      /\ bobs' = [bobs EXCEPT ![b] = t]
      /\ UNCHANGED <<inner, alice, notes, replies, steps, chain, handled, late, seen>>
  BY TaskOf DEF BobConnects, Quiet, shown, IInv, TypeOK
<1>2. /\ t \in Tasks /\ t.inv = bobs[b].inv /\ t.stop = bobs[b].stop
      /\ t.at = "listening" /\ t.offer = None
  BY <1>1, TaskOf DEF IInv, TypeOK, Tasks, Places
<1> HIDE DEF t
<1>3. Becomes(b, t)
  BY <1>1, <1>2 DEF Becomes
<1>4. /\ TypeOK' /\ OneListener' /\ AliceRight' /\ PaidIsOnChain' /\ ChainKnown'
      /\ bobs'[b] = t /\ \A o \in Bobs \ {b} : bobs'[o] = bobs[o]
  BY <1>1, <1>3, BobFrame DEF IInv, TypeOK
<1>5. GuardRight' /\ OneProposalPerCoin'
  BY <1>1, <1>2, <1>4, NoOfferKeeps
<1>6. NotesRight'
  BY <1>1, <1>2, <1>4 DEF IInv, NotesRight
<1> QED
  BY <1>4, <1>5, <1>6 DEF IInv

LEMMA EndsKeeps ==
    ASSUME IInv, NEW b \in Bobs, BobUnreachable(b) \/ BobStops(b)
    PROVE  IInv'
<1>1. /\ bobs' = [bobs EXCEPT ![b] = NoTask]
      /\ UNCHANGED <<inner, alice, notes, replies, steps, chain, handled, late, seen>>
  BY DEF BobUnreachable, BobStops, Quiet, shown
<1>2. NoTask \in Tasks /\ NoTask.at = "none" /\ NoTask.offer = None
  BY DEF NoTask, Tasks, Places
<1>3. Becomes(b, NoTask)
  BY <1>1, <1>2 DEF Becomes
<1>4. /\ TypeOK' /\ OneListener' /\ AliceRight' /\ PaidIsOnChain' /\ ChainKnown'
      /\ bobs'[b] = NoTask /\ \A o \in Bobs \ {b} : bobs'[o] = bobs[o]
  BY <1>1, <1>3, BobFrame DEF IInv, TypeOK
<1>5. GuardRight' /\ OneProposalPerCoin'
  BY <1>1, <1>2, <1>4, NoOfferKeeps
<1>6. NotesRight'
  BY <1>1, <1>2, <1>4 DEF IInv, NotesRight
<1> QED
  BY <1>4, <1>5, <1>6 DEF IInv

LEMMA HearsKeeps ==
    ASSUME IInv, NEW b \in Bobs, BobHears(b)
    PROVE  IInv'
<1>1. PICK n \in notes :
         /\ n.inv = bobs[b].inv
         /\ bobs' = [bobs EXCEPT ![b].at = "checking", ![b].try = n.try,
                                 ![b].coin = n.coin, ![b].known = @ \cup {n.try}]
         /\ handled' = [handled EXCEPT ![n.inv] = @ \cup {n.try}]
         /\ late' = IF bobs[b].stop THEN late \cup {n.try} ELSE late
  BY DEF BobHears
<1> DEFINE t == [bobs[b] EXCEPT !.at = "checking", !.try = n.try, !.coin = n.coin,
                                !.known = bobs[b].known \cup {n.try}]
<1>2. /\ bobs[b].at = "listening"
      /\ bobs' = [bobs EXCEPT ![b] = t]
      /\ Show({"collect"}, {"checks"}, {})
      /\ UNCHANGED <<inner, alice, notes, replies, chain, seen>>
  BY <1>1 DEF BobHears
<1>3. n \in [try : Tries, inv : Invoices, coin : AliceCoins]
  BY DEF IInv, TypeOK
<1>4. /\ t \in Tasks /\ t.inv = bobs[b].inv /\ t.stop = bobs[b].stop
      /\ t.at = "checking" /\ t.try = n.try /\ t.coin = n.coin /\ t.offer = None
  BY <1>2, <1>3, TaskOf DEF IInv, TypeOK, Tasks, Places
<1> HIDE DEF t
<1>5. Becomes(b, t)
  BY <1>2, <1>4 DEF Becomes
<1>6. handled' \in [Invoices -> SUBSET Tries] /\ late' \subseteq Tries
  BY <1>1, <1>3 DEF IInv, TypeOK
<1>7. /\ TypeOK' /\ OneListener' /\ AliceRight' /\ PaidIsOnChain' /\ ChainKnown'
      /\ bobs'[b] = t /\ \A o \in Bobs \ {b} : bobs'[o] = bobs[o]
  BY <1>2, <1>5, <1>6, BobFrame, ShowType DEF IInv, TypeOK
<1>8. GuardRight' /\ OneProposalPerCoin'
  BY <1>2, <1>4, <1>7, NoOfferKeeps
<1>9. n = [try |-> t.try, inv |-> t.inv, coin |-> t.coin]
  BY <1>1, <1>3, <1>4
<1>10. NotesRight'
  BY <1>2, <1>4, <1>7, <1>9 DEF IInv, NotesRight
<1> QED
  BY <1>7, <1>8, <1>10 DEF IInv

\* A coin that gets a proposal was not seen before.
LEMMA JudgesKeeps ==
    ASSUME IInv, NEW b \in Bobs, NEW v \in Verdicts, BobJudges(b, v)
    PROVE  IInv'
<1> DEFINE i == bobs[b].inv
           t == [bobs[b] EXCEPT !.at = "replying"]
           u(c) == [bobs[b] EXCEPT !.at = "replying", !.offer = c]
<1>1. /\ bobs[b].at = "checking" /\ i \in Invoices /\ bobs[b].offer = None
      /\ bobs[b] \in Tasks
      /\ UNCHANGED <<inner, alice, handled, late, notes, replies, chain>>
  BY TaskOf DEF BobJudges
<1>2. /\ seen' \in [Invoices -> SUBSET AliceCoins]
      /\ \A j \in Invoices : seen[j] \subseteq seen'[j]
      /\ steps' \in [Steps -> {"none", "active", "done", "failed"}]
  <2>1. bobs[b].coin \in AliceCoins
    BY <1>1 DEF IInv, NotesRight, TypeOK
  <2>2. seen' = seen \/ seen' = [seen EXCEPT ![i] = @ \cup {bobs[b].coin}]
    BY DEF BobJudges
  <2>3. /\ seen' \in [Invoices -> SUBSET AliceCoins]
        /\ \A j \in Invoices : seen[j] \subseteq seen'[j]
    BY <2>1, <2>2, <1>1 DEF IInv, TypeOK
  <2>4. Show({"checks"}, {"reply"}, {}) \/ Show({}, {}, {"checks"})
    BY DEF BobJudges
  <2> QED
    BY <2>3, <2>4, ShowType DEF IInv
<1>3. CASE bobs' = [bobs EXCEPT ![b] = t]
  <2>1. /\ t \in Tasks /\ t.inv = i /\ t.stop = bobs[b].stop /\ t.at = "replying"
        /\ t.try = bobs[b].try /\ t.coin = bobs[b].coin /\ t.offer = None
    BY <1>1 DEF Tasks, Places
  <2> HIDE DEF t
  <2>2. /\ TypeOK' /\ OneListener' /\ AliceRight' /\ PaidIsOnChain' /\ ChainKnown'
        /\ bobs'[b] = t /\ \A o \in Bobs \ {b} : bobs'[o] = bobs[o]
    BY <1>1, <1>2, <1>3, <2>1, BobFrame DEF Becomes, IInv, TypeOK
  <2>3. NotesRight'
    BY <1>1, <2>1, <2>2 DEF IInv, NotesRight
  <2>4. GuardRight'
    <3>1. \A r \in replies' : r.offer # None =>
            \E n \in notes' : n.try = r.try /\ n.coin \in seen'[n.inv]
      BY <1>1, <1>2 DEF IInv, GuardRight, TypeOK
    <3>2. ASSUME NEW o \in Bobs, bobs'[o].offer # None
          PROVE  o # b /\ bobs'[o] = bobs[o] /\ bobs[o].inv \in Invoices
      BY <2>1, <2>2, <3>2, TaskOf DEF NoTask
    <3> QED
      BY <1>1, <1>2, <3>1, <3>2 DEF IInv, GuardRight
  <2>5. OneProposalPerCoin'
    BY <1>1 DEF IInv, OneProposalPerCoin
  <2> QED
    BY <2>2, <2>3, <2>4, <2>5 DEF IInv
<1>4. CASE \E c \in BobCoins \ Spent : bobs' = [bobs EXCEPT ![b] = u(c)]
           /\ bobs[b].coin \notin seen[i]
           /\ seen' = [seen EXCEPT ![i] = @ \cup {bobs[b].coin}]
  <2>0. PICK c \in BobCoins \ Spent : bobs' = [bobs EXCEPT ![b] = u(c)]
    BY <1>4
  <2>1. /\ u(c) \in Tasks /\ u(c).inv = i /\ u(c).stop = bobs[b].stop
        /\ u(c).at = "replying" /\ u(c).offer = c
        /\ u(c).try = bobs[b].try /\ u(c).coin = bobs[b].coin
    BY <1>1 DEF Tasks, Places
  <2> HIDE DEF u
  <2>2. /\ TypeOK' /\ OneListener' /\ AliceRight' /\ PaidIsOnChain' /\ ChainKnown'
        /\ bobs'[b] = u(c) /\ \A o \in Bobs \ {b} : bobs'[o] = bobs[o]
    BY <1>1, <1>2, <2>0, <2>1, BobFrame DEF Becomes, IInv, TypeOK
  <2>3. NotesRight'
    BY <1>1, <2>1, <2>2 DEF IInv, NotesRight
  <2>4. GuardRight'
    <3>1. \A r \in replies' : r.offer # None =>
            \E n \in notes' : n.try = r.try /\ n.coin \in seen'[n.inv]
      BY <1>1, <1>2 DEF IInv, GuardRight, TypeOK
    <3>2. bobs'[b].coin \in seen'[bobs'[b].inv]
      BY <1>1, <1>4, <2>1, <2>2 DEF IInv, TypeOK
    <3>3. \A r \in replies', n \in notes' : r.offer # None /\ n.try = r.try =>
            n.inv # bobs'[b].inv \/ n.coin # bobs'[b].coin
      BY <1>1, <1>4, <2>1, <2>2 DEF IInv, GuardRight, NotesRight
    <3>4. ASSUME NEW o \in Bobs, o # b, bobs'[o].offer # None
          PROVE  /\ bobs'[o].at = "replying" /\ bobs[o].inv \in Invoices
                 /\ bobs'[o].coin \in seen'[bobs'[o].inv]
                 /\ bobs'[o].inv # i \/ bobs'[o].coin # bobs[b].coin
      <4>1. bobs'[o] = bobs[o] /\ bobs[o].at = "replying" /\ bobs[o].inv \in Invoices
            /\ bobs[o].coin \in seen[bobs[o].inv]
        BY <2>2, <3>4, TaskOf DEF IInv, GuardRight, NoTask
      <4> QED
        BY <4>1, <1>2, <1>4
    <3>5. ASSUME NEW o \in Bobs, bobs'[o].offer # None
          PROVE  /\ bobs'[o].at = "replying"
                 /\ bobs'[o].coin \in seen'[bobs'[o].inv]
                 /\ \A r \in replies', n \in notes' : r.offer # None /\ n.try = r.try =>
                      n.inv # bobs'[o].inv \/ n.coin # bobs'[o].coin
      <4>1. CASE o = b
        BY <4>1, <2>1, <2>2, <3>2, <3>3
      <4>2. CASE o # b
        BY <4>2, <1>1, <2>2, <3>4, <3>5 DEF IInv, GuardRight
      <4> QED
        BY <4>1, <4>2
    <3>6. ASSUME NEW o \in Bobs, NEW p \in Bobs, bobs'[o].offer # None, bobs'[p].offer # None,
                 bobs'[p].inv = bobs'[o].inv, bobs'[p].coin = bobs'[o].coin
          PROVE  p = o
      <4>1. CASE o = b \/ p = b
        BY <4>1, <2>1, <2>2, <3>4, <3>6
      <4>2. CASE o # b /\ p # b
        BY <4>2, <2>2, <3>6 DEF IInv, GuardRight
      <4> QED
        BY <4>1, <4>2
    <3> QED
      BY <3>1, <3>5, <3>6 DEF GuardRight
  <2>5. OneProposalPerCoin'
    BY <1>1 DEF IInv, OneProposalPerCoin
  <2> QED
    BY <2>2, <2>3, <2>4, <2>5 DEF IInv
<1>5. \/ bobs' = [bobs EXCEPT ![b] = t]
      \/ /\ \E c \in BobCoins \ Spent : bobs' = [bobs EXCEPT ![b] = u(c)]
         /\ bobs[b].coin \notin seen[i]
         /\ seen' = [seen EXCEPT ![i] = @ \cup {bobs[b].coin}]
  BY DEF BobJudges
<1> QED
  BY <1>3, <1>4, <1>5

\* A task that is through with a note holds nothing, and what it stored is of its note.
LEMMA RepliesKeeps ==
    ASSUME IInv, NEW b \in Bobs, BobReplies(b) \/ BobReplyFails(b)
    PROVE  IInv'
<1> DEFINE t == [bobs[b] EXCEPT !.at = "listening", !.try = None, !.coin = None,
                                !.offer = None]
           new == [try |-> bobs[b].try, offer |-> bobs[b].offer, by |-> b]
           note == [try |-> bobs[b].try, inv |-> bobs[b].inv, coin |-> bobs[b].coin]
<1>1. /\ bobs[b].at = "replying" /\ bobs[b] \in Tasks
      /\ bobs' = [bobs EXCEPT ![b] = t]
      /\ UNCHANGED <<inner, alice, notes, chain, seen, handled, late>>
      /\ replies' = replies \/ replies' = replies \cup {new}
  BY TaskOf DEF BobReplies, BobReplyFails, Listening, Stored
<1>2. /\ t \in Tasks /\ t.inv = bobs[b].inv /\ t.stop = bobs[b].stop
      /\ t.at = "listening" /\ t.offer = None
  BY <1>1 DEF Tasks, Places
<1>3. steps' \in [Steps -> {"none", "active", "done", "failed"}]
  <2>1. UNCHANGED steps \/ Show({"reply"}, {}, {}) \/ Show({}, {}, {"reply"})
    BY DEF BobReplies, BobReplyFails
  <2> QED
    BY <2>1, ShowType DEF IInv, TypeOK
<1>4. note \in notes
  BY <1>1 DEF IInv, NotesRight
<1>5. replies' \subseteq [try : Tries, offer : BobCoins \cup {None}, by : Bobs]
  <2>1. bobs[b].try \in Tries /\ bobs[b].offer \in BobCoins \cup {None}
    BY <1>1, <1>4 DEF IInv, TypeOK, Tasks
  <2> QED
    BY <1>1, <2>1 DEF IInv, TypeOK
<1>6. note.try = bobs[b].try /\ note.inv = bobs[b].inv /\ note.coin = bobs[b].coin
      /\ new.try = bobs[b].try /\ new.offer = bobs[b].offer
  OBVIOUS
<1> HIDE DEF t, new, note
<1>7. /\ TypeOK' /\ OneListener' /\ AliceRight' /\ PaidIsOnChain' /\ ChainKnown'
      /\ bobs'[b] = t /\ \A o \in Bobs \ {b} : bobs'[o] = bobs[o]
  BY <1>1, <1>2, <1>3, <1>5, BobFrame DEF Becomes, IInv, TypeOK
<1>8. NotesRight'
  BY <1>1, <1>2, <1>7 DEF IInv, NotesRight
<1>9. CASE replies' = replies \/ new.offer = None
  <2>1. \A r \in replies' : r.offer # None => r \in replies
    BY <1>1, <1>9
  <2>2. GuardRight'
    BY <1>1, <1>2, <1>7, <2>1 DEF IInv, GuardRight
  <2>3. OneProposalPerCoin'
    BY <1>1, <2>1 DEF IInv, OneProposalPerCoin
  <2> QED
    BY <1>7, <1>8, <2>2, <2>3 DEF IInv
<1>10. CASE replies' = replies \cup {new} /\ new.offer # None
  <2>1. /\ \A n \in notes : n.try = new.try => n = note
        /\ note.coin \in seen[note.inv]
        /\ \A r \in replies, n \in notes : r.offer # None /\ n.try = r.try =>
             n.inv # note.inv \/ n.coin # note.coin
        /\ \A o \in Bobs : /\ bobs[o].offer # None
                          /\ bobs[o].inv = note.inv
                          /\ bobs[o].coin = note.coin => o = b
    BY <1>4, <1>6, <1>10 DEF IInv, GuardRight, NotesRight
  <2>2. GuardRight'
    <3>1. \A r \in replies' : r.offer # None =>
            \E n \in notes' : n.try = r.try /\ n.coin \in seen'[n.inv]
      BY <1>1, <1>4, <1>6, <1>10, <2>1 DEF IInv, GuardRight
    <3>2. ASSUME NEW o \in Bobs, bobs'[o].offer # None
          PROVE  /\ o # b /\ bobs'[o] = bobs[o]
                 /\ \A r \in replies', n \in notes' : r.offer # None /\ n.try = r.try =>
                      n.inv # bobs'[o].inv \/ n.coin # bobs'[o].coin
      <4>1. o # b /\ bobs'[o] = bobs[o] /\ bobs[o].offer # None
        BY <1>2, <1>7, <3>2
      <4>2. ASSUME NEW n \in notes, n.try = new.try
            PROVE  n.inv # bobs[o].inv \/ n.coin # bobs[o].coin
        BY <2>1, <4>1, <4>2
      <4> QED
        BY <1>1, <1>10, <4>1, <4>2 DEF IInv, GuardRight
    <3> QED
      BY <1>1, <3>1, <3>2 DEF IInv, GuardRight
  <2>3. OneProposalPerCoin'
    <3>1. ASSUME NEW n \in notes, NEW m \in notes, n.inv = m.inv, n.coin = m.coin,
                 NEW s \in replies, s.try = m.try, s.offer # None, n.try = new.try
          PROVE  FALSE
      BY <2>1, <3>1
    <3> QED
      BY <1>1, <1>10, <3>1 DEF IInv, OneProposalPerCoin
  <2> QED
    BY <1>7, <1>8, <2>2, <2>3 DEF IInv
<1> QED
  BY <1>1, <1>9, <1>10

LEMMA BobKeeps ==
    ASSUME IInv, NEW b \in Bobs, Bob(b)
    PROVE  IInv'
  BY ConnectsKeeps, EndsKeeps, HearsKeeps, JudgesKeeps, RepliesKeeps DEF Bob

-----------------------------------------------------------------------------
(* What Alice does                                                         *)

LEMMA AtWork ==
    ASSUME IInv, alice.at # "idle"
    PROVE  /\ alice \in Payments /\ busy /\ ~paid /\ alice.inv = invoice
           /\ alice.try \in Tries /\ alice.inv \in Invoices
           /\ alice.at # "leaving" => alice.won = FALSE
  BY DEF IInv, TypeOK, AliceRight, Payments

\* Her next state is a state of the same payment.
Proceeds(a) ==
    /\ alice' = a
    /\ a \in Payments
    /\ a.try = alice.try /\ a.inv = alice.inv
    /\ a.at \notin {"idle", "asked", "building"}

\* A step that stores no note and settles no payment.
LEMMA MoveKeeps ==
    ASSUME IInv, Alone, UNCHANGED <<notes, chain>>,
           alice.at \notin {"idle", "leaving"},
           NEW a, Proceeds(a), a.won = FALSE,
           a.at = "sending" => alice.at = "building" /\ a.coin \in AliceCoins,
           a.at \in {"sent", "waiting", "proposal"} =>
             a.coin = alice.coin /\ alice.at \in {"sent", "waiting", "proposal"},
           steps' \in [Steps -> {"none", "active", "done", "failed"}]
    PROVE  IInv'
<1> USE DEF Alone, inner, bobVars
<1>1. TypeOK'
  BY DEF IInv, TypeOK, Proceeds
<1>2. AliceRight'
  BY AtWork DEF IInv, AliceRight, Proceeds
<1>3. ChainKnown'
  BY AtWork DEF IInv, ChainKnown, InvoicePaidOnce
<1>4. OneListener' /\ PaidIsOnChain' /\ NotesRight' /\ GuardRight' /\ OneProposalPerCoin'
  BY DEF IInv, OneListener, PaidIsOnChain, NotesRight, GuardRight, OneProposalPerCoin
<1> QED
  BY <1>1, <1>2, <1>3, <1>4 DEF IInv

\* The first note of a try joins the others.
LEMMA SealKeeps ==
    ASSUME IInv, Alone, Sealed, UNCHANGED chain,
           alice.at = "sending",
           NEW a, Proceeds(a), a.won = FALSE, a.at \in {"sent", "leaving"},
           a.coin = alice.coin,
           steps' \in [Steps -> {"none", "active", "done", "failed"}]
    PROVE  IInv'
<1> USE DEF Alone, inner, bobVars
<1> DEFINE note == [try |-> alice.try, inv |-> alice.inv, coin |-> alice.coin]
<1>1. /\ notes' = notes \cup {note}
      /\ note.try = alice.try /\ note.inv = alice.inv
      /\ \A n \in notes : n.try # alice.try
      /\ note \in [try : Tries, inv : Invoices, coin : AliceCoins]
      /\ note = [try |-> a.try, inv |-> a.inv, coin |-> a.coin]
  BY AtWork DEF Sealed, IInv, AliceRight, TypeOK, Payments, Proceeds
<1> HIDE DEF note
<1>2. TypeOK'
  BY <1>1 DEF IInv, TypeOK, Proceeds
<1>3. AliceRight'
  BY <1>1, AtWork DEF IInv, AliceRight, Proceeds
<1>4. ChainKnown'
  BY <1>1, AtWork DEF IInv, ChainKnown, InvoicePaidOnce
<1>5. NotesRight'
  BY <1>1 DEF IInv, NotesRight
<1>6. \A r \in replies : r.offer # None => r.try # note.try
  BY <1>1 DEF IInv, GuardRight
<1>7. GuardRight'
  BY <1>1, <1>6 DEF IInv, GuardRight
<1>8. OneProposalPerCoin'
  BY <1>1, <1>6 DEF IInv, OneProposalPerCoin
<1>9. OneListener' /\ PaidIsOnChain'
  BY DEF IInv, OneListener, PaidIsOnChain
<1> QED
  BY <1>2, <1>3, <1>4, <1>5, <1>7, <1>8, <1>9 DEF IInv

\* Her payjoin is accepted, and either she knows or a broadcast may fail unnoticed.
LEMMA PaymentKeeps ==
    ASSUME IInv, Alone, UNCHANGED notes, Broadcast(Payjoin),
           alice.at = "proposal",
           NEW a, Proceeds(a), a.at = "leaving", a.won \/ UnackedBroadcasts,
           steps' \in [Steps -> {"none", "active", "done", "failed"}]
    PROVE  IInv'
<1> USE DEF Alone, inner, bobVars
<1>1. chain' = chain \cup {Payjoin} /\ Payjoin.uri = alice.inv
  BY DEF Broadcast, Payjoin, Transaction
<1>2. TypeOK'
  BY DEF IInv, TypeOK, Proceeds
<1>3. AliceRight'
  BY <1>1, AtWork DEF IInv, AliceRight, Proceeds
<1>4. ChainKnown'
  <2>1. \A tx \in chain' : \E n \in notes' : n.inv = tx.uri
    <3>1. \E n \in notes : n.inv = alice.inv
      BY DEF IInv, AliceRight
    <3> QED
      BY <1>1, <3>1 DEF IInv, ChainKnown
  <2>2. ASSUME ~UnackedBroadcasts
        PROVE  (\A tx \in chain' : tx.uri = invoice' => paid' \/ alice'.won) /\ InvoicePaidOnce'
    <3>1. \A tx \in chain : tx.uri # alice.inv
      BY <2>2, AtWork DEF IInv, ChainKnown
    <3> QED
      BY <1>1, <2>2, <3>1 DEF IInv, ChainKnown, InvoicePaidOnce, Proceeds
  <2> QED
    BY <2>1, <2>2 DEF ChainKnown
<1>5. PaidIsOnChain'
  BY <1>1 DEF IInv, PaidIsOnChain
<1>6. OneListener' /\ NotesRight' /\ GuardRight' /\ OneProposalPerCoin'
  BY DEF IInv, OneListener, NotesRight, GuardRight, OneProposalPerCoin
<1> QED
  BY <1>2, <1>3, <1>4, <1>5, <1>6 DEF IInv

\* The end of alice_pay.
LEMMA LeavesKeeps ==
    ASSUME IInv, AliceLeaves
    PROVE  IInv'
<1> USE DEF AliceLeaves, bobVars, shown
<1>1. Resting \in Payments /\ Resting.at = "idle" /\ Resting.won = FALSE
  BY DEF Resting, Payments
<1>2. alice.won \in BOOLEAN /\ paid' \in BOOLEAN /\ (paid' <=> paid \/ alice.won)
  BY DEF IInv, TypeOK, Payments
<1>3. TypeOK'
  BY <1>1, <1>2 DEF IInv, TypeOK
<1>4. AliceRight'
  BY <1>1 DEF IInv, AliceRight
<1>5. PaidIsOnChain'
  BY <1>2, AtWork DEF IInv, AliceRight, PaidIsOnChain
<1>6. ChainKnown'
  BY <1>2 DEF IInv, ChainKnown, InvoicePaidOnce
<1>7. OneListener' /\ NotesRight' /\ GuardRight' /\ OneProposalPerCoin'
  BY DEF IInv, OneListener, NotesRight, GuardRight, OneProposalPerCoin
<1> QED
  BY <1>3, <1>4, <1>5, <1>6, <1>7 DEF IInv

\* A failed step ends the payment.
LEMMA LeavingOf ==
    ASSUME IInv, alice.at # "idle", NEW w \in BOOLEAN, Leave(w)
    PROVE  \E a : /\ Proceeds(a) /\ a.at = "leaving" /\ a.won = w
                  /\ a.coin = alice.coin
<1> DEFINE a == [alice EXCEPT !.at = "leaving", !.won = w]
<1>1. /\ a \in Payments /\ a.at = "leaving" /\ a.won = w /\ a.coin = alice.coin
      /\ a.try = alice.try /\ a.inv = alice.inv
  BY AtWork DEF Payments
<1> QED
  BY <1>1 DEF Leave, Proceeds

LEMMA GivesUpKeeps ==
    ASSUME IInv,
           \/ AliceCannotBuild \/ AliceUnreachable \/ AliceHearsError \/ AliceGivesUp
           \/ AliceRefuses
    PROVE  IInv'
<1>1. /\ Leave(FALSE) /\ Alone /\ UNCHANGED <<notes, chain>>
      /\ alice.at \notin {"idle", "leaving"}
      /\ UNCHANGED steps \/ \E F \in SUBSET Steps : Show({}, {}, F)
  BY DEF AliceCannotBuild, AliceUnreachable, AliceHearsError, AliceGivesUp, AliceRefuses,
         Steps
<1>2. steps' \in [Steps -> {"none", "active", "done", "failed"}]
  BY <1>1, ShowType DEF IInv, TypeOK
<1>3. PICK a : Proceeds(a) /\ a.at = "leaving" /\ a.won = FALSE
  BY <1>1, LeavingOf
<1> QED
  BY <1>1, <1>2, <1>3, MoveKeeps

LEMMA BuildsKeeps ==
    ASSUME IInv, AliceBuilds
    PROVE  IInv'
<1>1. PICK c \in AliceCoins \ Spent : alice' = [alice EXCEPT !.at = "sending", !.coin = c]
  BY DEF AliceBuilds
<1> DEFINE a == [alice EXCEPT !.at = "sending", !.coin = c]
<1>2. /\ a \in Payments /\ a.at = "sending" /\ a.coin = c /\ a.won = FALSE
      /\ a.try = alice.try /\ a.inv = alice.inv
  BY AtWork DEF Payments, AliceBuilds
<1>3. steps' \in [Steps -> {"none", "active", "done", "failed"}]
  BY ShowType DEF IInv, AliceBuilds
<1> HIDE DEF a
<1>4. Proceeds(a)
  BY <1>1, <1>2 DEF Proceeds, a
<1> QED
  BY <1>2, <1>3, <1>4, MoveKeeps DEF AliceBuilds

LEMMA SendsKeeps ==
    ASSUME IInv, AliceSends
    PROVE  IInv'
<1> DEFINE a == [alice EXCEPT !.at = "sent"]
<1>1. /\ a \in Payments /\ a.at = "sent" /\ a.coin = alice.coin /\ a.won = FALSE
      /\ a.try = alice.try /\ a.inv = alice.inv
  BY AtWork DEF Payments, AliceSends
<1> HIDE DEF a
<1>2. Proceeds(a)
  BY <1>1 DEF Proceeds, AliceSends, a
<1> QED
  BY <1>1, <1>2, SealKeeps DEF AliceSends, IInv, TypeOK

LEMMA SendFailsKeeps ==
    ASSUME IInv, AliceSendFails
    PROVE  IInv'
<1>1. steps' \in [Steps -> {"none", "active", "done", "failed"}]
  BY ShowType DEF IInv, AliceSendFails
<1>2. PICK a : Proceeds(a) /\ a.at = "leaving" /\ a.won = FALSE /\ a.coin = alice.coin
  BY LeavingOf DEF AliceSendFails
<1>3. CASE UNCHANGED notes
  BY <1>1, <1>2, <1>3, MoveKeeps DEF AliceSendFails
<1>4. CASE Sealed
  BY <1>1, <1>2, <1>4, SealKeeps DEF AliceSendFails
<1> QED
  BY <1>3, <1>4 DEF AliceSendFails

LEMMA WaitsKeeps ==
    ASSUME IInv, AliceAnnounces
    PROVE  IInv'
<1> DEFINE a == [alice EXCEPT !.at = "waiting"]
<1>1. /\ a \in Payments /\ a.at = "waiting" /\ a.coin = alice.coin /\ a.won = FALSE
      /\ a.try = alice.try /\ a.inv = alice.inv
  BY AtWork DEF Payments, AliceAnnounces
<1>2. steps' \in [Steps -> {"none", "active", "done", "failed"}]
  BY ShowType DEF IInv, AliceAnnounces
<1> HIDE DEF a
<1>3. Proceeds(a)
  BY <1>1 DEF Proceeds, AliceAnnounces, a
<1> QED
  BY <1>1, <1>2, <1>3, MoveKeeps DEF AliceAnnounces

LEMMA ProposalKeeps ==
    ASSUME IInv, AliceHearsProposal
    PROVE  IInv'
<1>1. PICK r \in replies : alice' = [alice EXCEPT !.at = "proposal", !.offer = r.offer]
  BY DEF AliceHearsProposal
<1> DEFINE a == [alice EXCEPT !.at = "proposal", !.offer = r.offer]
<1>2. /\ a \in Payments /\ a.at = "proposal" /\ a.coin = alice.coin /\ a.won = FALSE
      /\ a.try = alice.try /\ a.inv = alice.inv
  BY AtWork DEF Payments, AliceHearsProposal, IInv, TypeOK
<1>3. steps' \in [Steps -> {"none", "active", "done", "failed"}]
  BY ShowType DEF IInv, AliceHearsProposal
<1> HIDE DEF a
<1>4. Proceeds(a)
  BY <1>1, <1>2 DEF Proceeds, a
<1> QED
  BY <1>2, <1>3, <1>4, MoveKeeps DEF AliceHearsProposal

LEMMA BroadcastKeeps ==
    ASSUME IInv, AliceBroadcasts \/ AliceBroadcastFails
    PROVE  IInv'
<1>1. steps' \in [Steps -> {"none", "active", "done", "failed"}]
  BY ShowType DEF IInv, AliceBroadcasts, AliceBroadcastFails
<1>2. CASE AliceBroadcasts
  <2>1. PICK a : Proceeds(a) /\ a.at = "leaving" /\ a.won = TRUE
    BY <1>2, LeavingOf DEF AliceBroadcasts
  <2> QED
    BY <1>1, <1>2, <2>1, PaymentKeeps DEF AliceBroadcasts
<1>3. CASE AliceBroadcastFails
  <2>1. PICK a : Proceeds(a) /\ a.at = "leaving" /\ a.won = FALSE
    BY <1>3, LeavingOf DEF AliceBroadcastFails
  <2>2. CASE chain' = chain
    BY <1>1, <1>3, <2>1, <2>2, MoveKeeps DEF AliceBroadcastFails
  <2>3. CASE UnackedBroadcasts /\ Broadcast(Payjoin)
    BY <1>1, <1>3, <2>1, <2>3, PaymentKeeps DEF AliceBroadcastFails
  <2> QED
    BY <1>3, <2>2, <2>3 DEF AliceBroadcastFails, BroadcastFails
<1> QED
  BY <1>2, <1>3

LEMMA AliceKeeps ==
    ASSUME IInv, Alice
    PROVE  IInv'
  BY BuildsKeeps, SendsKeeps, SendFailsKeeps, WaitsKeeps, ProposalKeeps, BroadcastKeeps,
     GivesUpKeeps, LeavesKeeps DEF Alice

LEMMA ConfirmsKeeps ==
    ASSUME IInv, NEW tx \in watching, Confirms(tx)
    PROVE  IInv'
<1>1. steps' \in [Steps -> {"none", "active", "done", "failed"}]
  BY ShowType DEF IInv, Confirms
<1>2. UNCHANGED <<inner, bobVars, alice, notes, replies, chain>>
  BY DEF Confirms
<1> USE DEF inner, bobVars
<1>3. TypeOK'
  BY <1>1, <1>2 DEF IInv, TypeOK
<1>4. AliceRight' /\ PaidIsOnChain' /\ ChainKnown'
  BY <1>2 DEF IInv, AliceRight, PaidIsOnChain, ChainKnown, InvoicePaidOnce
<1>5. OneListener' /\ NotesRight' /\ GuardRight' /\ OneProposalPerCoin'
  BY <1>2 DEF IInv, OneListener, NotesRight, GuardRight, OneProposalPerCoin
<1> QED
  BY <1>3, <1>4, <1>5 DEF IInv

LEMMA StandsStill ==
    ASSUME IInv, UNCHANGED vars
    PROVE  IInv'
<1> USE DEF vars, inner, bobVars, shown
<1>1. TypeOK' /\ AliceRight' /\ PaidIsOnChain' /\ ChainKnown'
  BY DEF IInv, TypeOK, AliceRight, PaidIsOnChain, ChainKnown, InvoicePaidOnce
<1>2. OneListener' /\ NotesRight' /\ GuardRight' /\ OneProposalPerCoin'
  BY DEF IInv, OneListener, NotesRight, GuardRight, OneProposalPerCoin
<1> QED
  BY <1>1, <1>2 DEF IInv

LEMMA StageStep == IInv /\ [Next]_vars => IInv'
  BY CreateInvoiceKeeps, OnlineKeeps, OfflineKeeps, PayKeeps, PayEndsKeeps, ResetKeeps,
     BobKeeps, AliceKeeps, ConfirmsKeeps, StandsStill DEF Next

-----------------------------------------------------------------------------
(* Notes that are taken once                                               *)

LEMMA AnswerNamesTry ==
    ASSUME IInv
    PROVE  \A r \in replies : r.try # None
  BY TheaterAssumption DEF IInv, TypeOK

\* Handlers start and stop tasks, but none that holds a note.
LEMMA RestartsTake ==
    ASSUME IInv, TakenRight, AnsweredOnce,
           NEW tasks, Kept(tasks), NEW i, bobs' = tasks \/ StartBob(tasks, i),
           \A b \in Bobs : tasks[b].at # "none" => tasks[b].stop,
           UNCHANGED <<notes, replies, handled, late>>
    PROVE  TakenRight' /\ AnsweredOnce'
<1> DEFINE Fresh == [NoTask EXCEPT !.at = "connecting", !.inv = i]
<1>1. Fresh.at = "connecting" /\ Fresh.try = None
  BY DEF NoTask
<1>2. /\ bobs' \in [Bobs -> Tasks] \/ \E b \in Bobs : bobs' = [tasks EXCEPT ![b] = Fresh]
      /\ \A b \in Bobs : bobs'[b] = tasks[b] \/ bobs'[b] = Fresh
  BY DEF StartBob, Kept
<1> HIDE DEF Fresh
<1>3. TakenRight'
  BY <1>1, <1>2 DEF TakenRight, Kept
<1>4. AnsweredOnce'
  BY <1>1, <1>2, AnswerNamesTry DEF AnsweredOnce, Kept
<1> QED
  BY <1>3, <1>4

\* A task that holds no other note, or none any more, and takes nothing.
LEMMA WorksOn ==
    ASSUME IInv, TakenRight, AnsweredOnce, NEW b \in Bobs,
           NEW t, Becomes(b, t), t.try = None \/ t.try = bobs[b].try,
           t.try # None => t.at \in {"checking", "replying"},
           t.at \notin {"none", "connecting"} /\ ~t.stop =>
             handled[t.inv] \subseteq t.known \cup late,
           UNCHANGED <<notes, replies, handled, late>>
    PROVE  TakenRight' /\ AnsweredOnce'
<1>1. bobs'[b] = t /\ \A o \in Bobs \ {b} : bobs'[o] = bobs[o]
  BY DEF Becomes, IInv, TypeOK
<1>2. t.try # None => t.inv = bobs[b].inv
  BY DEF Becomes, NoTask
<1>3. TakenRight'
  BY <1>1, <1>2 DEF TakenRight
<1>4. AnsweredOnce'
  BY <1>1, AnswerNamesTry DEF AnsweredOnce
<1> QED
  BY <1>3, <1>4

LEMMA HearsOnce ==
    ASSUME IInv, TakenRight, AnsweredOnce, NEW b \in Bobs, BobHears(b)
    PROVE  TakenRight' /\ AnsweredOnce'
<1>1. PICK n \in notes :
         /\ n.inv = bobs[b].inv
         /\ n.try \notin bobs[b].known
         /\ bobs' = [bobs EXCEPT ![b].at = "checking", ![b].try = n.try,
                                 ![b].coin = n.coin, ![b].known = @ \cup {n.try}]
         /\ handled' = [handled EXCEPT ![n.inv] = @ \cup {n.try}]
         /\ late' = IF bobs[b].stop THEN late \cup {n.try} ELSE late
  BY DEF BobHears
<1>2. /\ bobs[b].at = "listening"
      /\ bobs[b] \in Tasks /\ bobs[b].inv \in Invoices
      /\ UNCHANGED <<notes, replies>>
  BY TaskOf DEF BobHears
<1>3. /\ bobs'[b].at = "checking" /\ bobs'[b].try = n.try /\ bobs'[b].inv = n.inv
      /\ bobs'[b].known = bobs[b].known \cup {n.try} /\ bobs'[b].stop = bobs[b].stop
      /\ \A o \in Bobs \ {b} : bobs'[o] = bobs[o]
  BY <1>1, <1>2 DEF IInv, TypeOK, Tasks
<1>4. /\ n.inv \in Invoices /\ n.try \in Tries
      /\ n.try \notin late' => n.try \notin handled[n.inv]
      /\ late \subseteq late'
  BY <1>1, <1>2 DEF TakenRight, IInv, TypeOK
<1>5. /\ n.try \in handled'[n.inv]
      /\ \A i \in Invoices : handled[i] \subseteq handled'[i]
      /\ \A i \in Invoices : handled'[i] \subseteq handled[i] \cup {n.try}
  BY <1>1, <1>4 DEF IInv, TypeOK
\* Nobody else has it, unless it is late.
<1>6. n.try \notin late' => \A r \in replies : r.try # n.try
  BY <1>4 DEF TakenRight, IInv, NotesRight
<1>7. ASSUME NEW o \in Bobs, bobs[o].try = n.try, n.try \notin late'
      PROVE  FALSE
  <2>1. n.try # None
    BY <1>4, TheaterAssumption
  <2>2. bobs[o].at \in {"checking", "replying"} /\ n.try \in handled[bobs[o].inv]
    BY <1>7, <2>1 DEF TakenRight
  <2>3. PICK m \in notes : m.try = bobs[o].try /\ m.inv = bobs[o].inv
    BY <2>2 DEF IInv, NotesRight
  <2>4. n = m
    BY <1>7, <2>3 DEF IInv, NotesRight
  <2> QED
    BY <2>2, <2>3, <2>4, <1>4, <1>7
<1>8. TakenRight'
  <2>1. \A r \in replies' : \E m \in notes' : m.try = r.try /\ r.try \in handled'[m.inv]
    BY <1>2, <1>5 DEF TakenRight, IInv, TypeOK
  <2>2. ASSUME NEW o \in Bobs, bobs'[o].try # None
        PROVE  bobs'[o].at \in {"checking", "replying"}
               /\ bobs'[o].try \in handled'[bobs'[o].inv]
    <3>1. CASE o = b
      BY <3>1, <1>3, <1>5
    <3>2. CASE o # b
      BY <3>2, <2>2, <1>3, <1>5, TaskOf DEF TakenRight
    <3> QED
      BY <3>1, <3>2
  <2>3. ASSUME NEW o \in Bobs, bobs'[o].at \notin {"none", "connecting"}, ~bobs'[o].stop
        PROVE  handled'[bobs'[o].inv] \subseteq bobs'[o].known \cup late'
    <3>1. /\ bobs[o].at \notin {"none", "connecting"} /\ ~bobs[o].stop
          /\ bobs'[o].inv = bobs[o].inv /\ bobs[o].inv \in Invoices
          /\ bobs[o].known \subseteq bobs'[o].known
      BY <2>3, <1>1, <1>2, <1>3, TaskOf
    <3>2. handled[bobs[o].inv] \subseteq bobs[o].known \cup late
      BY <3>1 DEF TakenRight
    <3>3. n.try \in bobs'[o].known \cup late'
      <4>1. CASE o = b
        BY <4>1, <1>3
      <4>2. CASE o # b
        BY <4>2, <3>1, <1>1, <1>2 DEF IInv, OneListener
      <4> QED
        BY <4>1, <4>2
    <3> QED
      BY <3>1, <3>2, <3>3, <1>4, <1>5
  <2> QED
    BY <2>1, <2>2, <2>3 DEF TakenRight
<1>9. AnsweredOnce'
  BY <1>2, <1>3, <1>4, <1>6, <1>7 DEF AnsweredOnce
<1> QED
  BY <1>8, <1>9

\* What a task stores is the first answer to its note, and it is through with it.
LEMMA RepliesOnce ==
    ASSUME IInv, TakenRight, AnsweredOnce, NEW b \in Bobs,
           BobReplies(b) \/ BobReplyFails(b)
    PROVE  TakenRight' /\ AnsweredOnce'
<1> DEFINE t == [bobs[b] EXCEPT !.at = "listening", !.try = None, !.coin = None,
                                !.offer = None]
           new == [try |-> bobs[b].try, offer |-> bobs[b].offer, by |-> b]
<1>1. /\ bobs[b].at = "replying" /\ bobs[b] \in Tasks
      /\ bobs' = [bobs EXCEPT ![b] = t]
      /\ UNCHANGED <<notes, handled, late>>
      /\ replies' = replies \/ replies' = replies \cup {new}
  BY TaskOf DEF BobReplies, BobReplyFails, Listening, Stored
<1>2. /\ bobs'[b] = t /\ \A o \in Bobs \ {b} : bobs'[o] = bobs[o]
      /\ t.try = None /\ t.at = "listening" /\ t.known = bobs[b].known
      /\ t.inv = bobs[b].inv /\ t.stop = bobs[b].stop
      /\ new.try = bobs[b].try
  BY <1>1 DEF IInv, TypeOK, Tasks
<1>3. PICK n \in notes : n.try = bobs[b].try /\ n.inv = bobs[b].inv
  BY <1>1 DEF IInv, NotesRight
<1>4. bobs[b].try # None
  BY <1>3, TheaterAssumption DEF IInv, TypeOK
<1> HIDE DEF t, new
<1>5. TakenRight'
  BY <1>1, <1>2, <1>3, <1>4 DEF TakenRight
<1>6. AnsweredOnce'
  BY <1>1, <1>2, <1>4, AnswerNamesTry DEF AnsweredOnce
<1> QED
  BY <1>5, <1>6

LEMMA JudgesOnce ==
    ASSUME IInv, TakenRight, AnsweredOnce, NEW b \in Bobs, NEW v \in Verdicts, BobJudges(b, v)
    PROVE  TakenRight' /\ AnsweredOnce'
<1>1. /\ bobs[b].at = "checking" /\ bobs[b].inv \in Invoices /\ bobs[b] \in Tasks
      /\ UNCHANGED <<handled, late, notes, replies>>
  BY TaskOf DEF BobJudges
<1> DEFINE t == [bobs[b] EXCEPT !.at = "replying"]
           u(c) == [bobs[b] EXCEPT !.at = "replying", !.offer = c]
<1>2. /\ t \in Tasks /\ t.inv = bobs[b].inv /\ t.stop = bobs[b].stop /\ t.at = "replying"
      /\ t.try = bobs[b].try /\ t.known = bobs[b].known
  BY <1>1 DEF Tasks, Places
<1>3. ASSUME NEW c \in BobCoins
      PROVE  /\ u(c) \in Tasks /\ u(c).inv = bobs[b].inv /\ u(c).stop = bobs[b].stop
             /\ u(c).at = "replying" /\ u(c).try = bobs[b].try /\ u(c).known = bobs[b].known
  BY <1>1 DEF Tasks, Places
<1>4. bobs' = [bobs EXCEPT ![b] = t] \/ \E c \in BobCoins : bobs' = [bobs EXCEPT ![b] = u(c)]
  BY DEF BobJudges
<1> HIDE DEF t, u
<1>5. PICK s : /\ Becomes(b, s) /\ s.try = bobs[b].try /\ s.at = "replying"
               /\ s.known = bobs[b].known /\ s.inv = bobs[b].inv /\ s.stop = bobs[b].stop
  BY <1>1, <1>2, <1>3, <1>4 DEF Becomes
<1>6. s.at \notin {"none", "connecting"} /\ ~s.stop =>
         handled[s.inv] \subseteq s.known \cup late
  BY <1>1, <1>5 DEF TakenRight
<1> QED
  BY <1>1, <1>5, <1>6, WorksOn

LEMMA ConnectsOnce ==
    ASSUME IInv, TakenRight, AnsweredOnce, NEW b \in Bobs, BobConnects(b)
    PROVE  TakenRight' /\ AnsweredOnce'
<1> DEFINE t == [bobs[b] EXCEPT !.at = "listening", !.known = handled[bobs[b].inv]]
<1>1. /\ bobs[b].at = "connecting" /\ bobs[b] \in Tasks /\ bobs[b].inv \in Invoices
      /\ bobs' = [bobs EXCEPT ![b] = t]
      /\ UNCHANGED <<notes, replies, handled, late>>
  BY TaskOf DEF BobConnects, Quiet, IInv, TypeOK
<1>2. /\ t \in Tasks /\ t.inv = bobs[b].inv /\ t.stop = bobs[b].stop
      /\ t.at = "listening" /\ t.try = bobs[b].try /\ t.known = handled[t.inv]
  BY <1>1 DEF IInv, TypeOK, Tasks, Places
<1>3. bobs[b].try = None
  BY <1>1 DEF TakenRight
<1> HIDE DEF t
<1>4. Becomes(b, t)
  BY <1>1, <1>2 DEF Becomes
<1> QED
  BY <1>1, <1>2, <1>3, <1>4, WorksOn

LEMMA EndsOnce ==
    ASSUME IInv, TakenRight, AnsweredOnce, NEW b \in Bobs, BobUnreachable(b) \/ BobStops(b)
    PROVE  TakenRight' /\ AnsweredOnce'
<1>1. /\ bobs' = [bobs EXCEPT ![b] = NoTask]
      /\ UNCHANGED <<notes, replies, handled, late>>
  BY DEF BobUnreachable, BobStops, Quiet
<1>2. NoTask \in Tasks /\ NoTask.at = "none" /\ NoTask.try = None
  BY DEF NoTask, Tasks, Places
<1> QED
  BY <1>1, <1>2, WorksOn DEF Becomes

LEMMA HandlerOnce ==
    ASSUME IInv, TakenRight, AnsweredOnce,
           \/ \E i \in Invoices : create_invoice(i)
           \/ set_bob_online \/ set_bob_offline \/ reset
    PROVE  TakenRight' /\ AnsweredOnce'
<1>1. UNCHANGED <<notes, replies, handled, late>>
  BY DEF create_invoice, set_bob_online, set_bob_offline, reset
<1>2. CASE ~set_bob_online
  <2>1. bobs' = Stopped \/ \E i \in Invoices : StartBob(Stopped, i)
    BY <1>2 DEF create_invoice, set_bob_offline, reset
  <2> QED
    BY <1>1, <2>1, StoppedIsKept, RestartsTake
<1>3. CASE set_bob_online
  BY <1>1, <1>3, AsTheyAre, RestartsTake DEF set_bob_online
<1> QED
  BY <1>2, <1>3

\* The other steps leave notes taken and answers alone, but for a note that joins.
LEMMA OthersOnce ==
    ASSUME IInv, TakenRight, AnsweredOnce,
           UNCHANGED <<bobs, replies, handled, late>>, notes \subseteq notes'
    PROVE  TakenRight' /\ AnsweredOnce'
<1>1. TakenRight'
  BY DEF TakenRight
<1>2. AnsweredOnce'
  BY DEF AnsweredOnce
<1> QED
  BY <1>1, <1>2

LEMMA AnswerStep ==
    ASSUME IInv, TakenRight, AnsweredOnce, [Next]_vars
    PROVE  TakenRight' /\ AnsweredOnce'
<1>1. CASE \E b \in Bobs : Bob(b)
  BY <1>1, ConnectsOnce, EndsOnce, HearsOnce, JudgesOnce, RepliesOnce DEF Bob
<1>2. CASE Alice
  <2>1. UNCHANGED <<bobs, replies, handled, late>> /\ notes \subseteq notes'
    BY <1>2 DEF Alice, AliceBuilds, AliceCannotBuild, AliceUnreachable, AliceSends,
         AliceSendFails, AliceAnnounces, AliceHearsProposal, AliceHearsError, AliceGivesUp,
         AliceRefuses, AliceBroadcasts, AliceBroadcastFails, AliceLeaves, Alone, bobVars, Sealed
  <2> QED
    BY <2>1, OthersOnce
<1>3. CASE \/ \E q \in Tries : pay(q)
           \/ pay_starts \/ pay_dropped
           \/ \E tx \in watching : Confirms(tx)
           \/ UNCHANGED vars
  BY <1>3, OthersOnce DEF pay, pay_starts, pay_dropped, Confirms, vars, bobVars
<1> QED
  BY <1>1, <1>2, <1>3, HandlerOnce DEF Next

-----------------------------------------------------------------------------
(* The results                                                             *)

\* Whatever handlers, tasks, relays and chain server do, the server's state, its tasks
\* and the notes on the relays agree.
THEOREM StageInvariant == Spec => []IInv
  BY StageInit, StageStep, PTL DEF Spec

\* However Bob goes online and offline while invoices come and go, at most one task
\* listens that has not been told to stop: for the current invoice, and bob_stop stops it.
THEOREM OneBobListens == Spec => []OneListener
<1>1. IInv => OneListener
  BY DEF IInv
<1> QED
  BY <1>1, StageInvariant, PTL

\* Bob offers one coin for a coin of Alice and an invoice, also while a task that was told
\* to stop and its successor hold the same note.
THEOREM BobOffersOnce == Spec => []OneProposalPerCoin
<1>1. IInv => OneProposalPerCoin
  BY DEF IInv
<1> QED
  BY <1>1, StageInvariant, PTL

\* A reconnect hands no note back: each is taken by one task and answered once, unless
\* a task that had been told to stop took it too.
THEOREM BobAnswersOnce == Spec => []AnsweredOnce
<1>1. Init => TakenRight /\ AnsweredOnce
  BY DEF Init, NoTask, TakenRight, AnsweredOnce
<1>2. IInv /\ TakenRight /\ AnsweredOnce /\ [Next]_vars => TakenRight' /\ AnsweredOnce'
  BY AnswerStep
<1> QED
  BY <1>1, <1>2, StageInvariant, PTL DEF Spec

\* The page calls an invoice paid only when it is.
THEOREM PaidMeansPaid == Spec => []PaidIsOnChain
<1>1. IInv => PaidIsOnChain
  BY DEF IInv
<1> QED
  BY <1>1, StageInvariant, PTL

\* No handler takes the invoice away that Alice is paying, and she pays no paid one.
THEOREM PaysWhatIsAsked == Spec => PaysCurrentInvoice
<1>1. ASSUME IInv, [Next]_vars
      PROVE  [\A tx \in chain' \ chain : tx.uri = invoice /\ ~paid]_vars
  <2>1. CASE chain' = chain
    BY <2>1
  <2>2. CASE Alone /\ alice.at = "proposal" /\ Broadcast(Payjoin)
    <3>1. chain' = chain \cup {Payjoin} /\ Payjoin.uri = alice.inv
      BY <2>2 DEF Broadcast, Payjoin, Transaction
    <3> QED
      BY <1>1, <2>2, <3>1, AtWork
  <2>3. ASSUME Alice
        PROVE  chain' = chain \/ (Alone /\ alice.at = "proposal" /\ Broadcast(Payjoin))
    BY <2>3 DEF Alice, AliceBuilds, AliceCannotBuild, AliceUnreachable, AliceSends,
         AliceSendFails, AliceAnnounces, AliceHearsProposal, AliceHearsError, AliceGivesUp,
         AliceRefuses, AliceBroadcasts, AliceBroadcastFails, BroadcastFails, AliceLeaves
  <2>4. ASSUME NEW b \in Bobs, Bob(b) PROVE chain' = chain
    BY <2>4 DEF Bob, BobConnects, BobUnreachable, BobStops, BobHears, BobJudges, BobReplies,
         BobReplyFails, Quiet
  <2>5. CASE \/ \E i \in Invoices : create_invoice(i)
             \/ set_bob_online \/ set_bob_offline \/ reset
             \/ \E q \in Tries : pay(q)
             \/ pay_starts \/ pay_dropped
             \/ \E tx \in watching : Confirms(tx)
             \/ UNCHANGED vars
    BY <2>5, <2>1 DEF create_invoice, set_bob_online, set_bob_offline, reset, pay, pay_starts,
         pay_dropped, Confirms, vars
  <2> QED
    BY <1>1, <2>1, <2>2, <2>3, <2>4, <2>5 DEF Next
<1> QED
  BY <1>1, StageInvariant, PTL DEF Spec, PaysCurrentInvoice

\* With a chain server that says what it accepted, an invoice is paid once.
THEOREM PaidOnce == ~UnackedBroadcasts => (Spec => []InvoicePaidOnce)
<1> SUFFICES ASSUME ~UnackedBroadcasts PROVE Spec => []InvoicePaidOnce
  OBVIOUS
<1>1. IInv => InvoicePaidOnce
  BY DEF IInv, ChainKnown
<1> QED
  BY <1>1, StageInvariant, PTL
=============================================================================
