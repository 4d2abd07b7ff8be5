---------------------------- MODULE TheaterLocks ----------------------------
(***************************************************************************)
(* The locks of the theater: `inner', the two wallets, the seen list of an *)
(* invoice, and the history.  What each task does is its script, the order *)
(* in which it takes and frees locks; what it does in between is left out, *)
(* except the calls that wait for the chain server with a wallet in hand.  *)
(***************************************************************************)
EXTENDS Integers, Sequences

CONSTANTS Tasks, JobOf  \* the tasks that run at one time, and what each does

Locks == {"inner", "alice", "bob", "seen", "history"}

take(l) == <<"take", l>>
free(l) == <<"free", l>>
chain == <<"chain", "server">>

Emit == <<take("history"), free("history")>>
Inner == <<take("inner"), free("inner")>>

\* create_invoice asks Bob's wallet for an address with `inner' in hand.
create_invoice ==
    <<take("inner"), take("bob"), free("bob"), free("inner")>> \o Emit \o Inner

\* set_bob_online, pay and reset
handler == Inner \o Emit \o Inner

\* A page that connects: the snapshot, then the backlog.
stream_events == Inner \o Emit

\* bob_handle: sync, then respond, which reports its steps.
bob_handle ==
    Emit \o <<take("bob"), chain, take("seen")>> \o Emit \o <<free("seen"), free("bob")>> \o Emit

\* Mutant of refresh_balances: both wallets at once, Bob's first.
refresh_together ==
    <<take("bob"), chain, take("alice"), chain, free("alice"), free("bob")>>
    \o Inner \o Inner

refresh_balances ==
    <<take("alice"), chain, free("alice"), take("bob"), chain, free("bob")>>
    \o Inner \o Inner

\* Mutant of alice_pay: Alice's wallet is still held when balances are refreshed.
alice_pay_keeps ==
    Emit \o <<take("alice"), chain, free("alice")>> \o Emit \o Inner
    \o <<take("alice"), chain, take("bob"), free("bob")>>
    \o Emit \o Inner \o refresh_balances

\* alice_pay_steps holds both wallets to broadcast and describe the payjoin.
alice_pay ==
    Emit \o <<take("alice"), chain, free("alice")>> \o Emit \o Inner
    \o <<take("alice"), chain, take("bob"), free("bob"), free("alice")>>
    \o Emit \o Inner \o refresh_balances

watch_confirmation ==
    <<take("alice"), chain, free("alice")>> \o Emit \o refresh_balances

Script == [create_invoice |-> create_invoice, handler |-> handler,
           stream_events |-> stream_events, bob_handle |-> bob_handle,
           alice_pay |-> alice_pay, watch_confirmation |-> watch_confirmation]

ASSUME LocksAssumption == JobOf \in [Tasks -> DOMAIN Script]

VARIABLES pc, holder

vars == <<pc, holder>>

Init ==
    /\ pc = [t \in Tasks |-> 1]
    /\ holder = [l \in Locks |-> {}]

\* What task t does next.
Ahead(t) == Script[JobOf[t]][pc[t]]

Advance(t) ==
    pc' = [pc EXCEPT ![t] = IF @ = Len(Script[JobOf[t]]) THEN 1 ELSE @ + 1]

Take(t) ==
    /\ Ahead(t)[1] = "take"
    /\ holder[Ahead(t)[2]] = {}
    /\ holder' = [holder EXCEPT ![Ahead(t)[2]] = {t}]
    /\ Advance(t)

Free(t) ==
    /\ Ahead(t)[1] = "free"
    /\ holder' = [holder EXCEPT ![Ahead(t)[2]] = {}]
    /\ Advance(t)

\* The chain server answers, or the call fails.
Answered(t) ==
    /\ Ahead(t)[1] = "chain"
    /\ Advance(t)
    /\ UNCHANGED holder

Step(t) == Take(t) \/ Free(t) \/ Answered(t)

Next == \E t \in Tasks : Step(t)

\* A task at work is scheduled and a free lock wakes who waits for it, with no promise
\* who gets it; the chain server answers in the end.  No task has to begin.
Spec == Init /\ [][Next]_vars /\ \A t \in Tasks : WF_vars(pc[t] # 1 /\ Step(t))

-----------------------------------------------------------------------------

WaitsFor(t, u) == Ahead(t)[1] = "take" /\ u \in holder[Ahead(t)[2]]

\* Each lock has one holder, and a task that is between scripts holds none.
TypeOK ==
    /\ pc \in [Tasks -> Nat]
    /\ holder \in [Locks -> SUBSET Tasks]
    /\ \A t \in Tasks : pc[t] \in 1..Len(Script[JobOf[t]])
    /\ \A l \in Locks : \A t, u \in holder[l] : t = u
    /\ \A t \in Tasks : pc[t] = 1 => \A l \in Locks : t \notin holder[l]

\* What a task holds that has done all that comes before step n of script s.
HeldAt(s, n) ==
    {l \in Locks : \E i \in 1 .. n - 1 :
        s[i] = take(l) /\ \A k \in i + 1 .. n - 1 : s[k] # free(l)}

Holds(t) == HeldAt(Script[JobOf[t]], pc[t])

\* The inductive invariant: who holds a lock is who took it and did not free it.
IInv == TypeOK /\ \A l \in Locks : holder[l] = {t \in Tasks : l \in Holds(t)}

\* No two tasks wait for each other, through any number of others: some task in
\* every group of tasks waits for none of the group.
NoCycle ==
    \A group \in (SUBSET Tasks) \ {{}} :
        \E t \in group : \A u \in group : ~WaitsFor(t, u)

Begins(t) == pc[t] = 1 /\ pc'[t] # 1

\* However the locks are handed over, what has begun ends once nothing more begins.
AllFinish ==
    <>[][\A t \in Tasks : ~Begins(t)]_vars => <>[](\A t \in Tasks : pc[t] = 1)

\* A page request never waits on a wallet that is mid-sync.
PageNeverWaitsOnSync ==
    \A p, t, s \in Tasks :
        JobOf[p] = "stream_events" /\ WaitsFor(p, t) /\ WaitsFor(t, s) =>
            Ahead(s)[1] # "chain"
=============================================================================
