------------------------------ MODULE Payjoin -------------------------------
(***************************************************************************)
(* pjn-sender and pjn-receiver together, over the relays and the chain.    *)
(* What the two programs promise is stated here; PayjoinProofs proves part *)
(* of it for every value of the constants.                                 *)
(***************************************************************************)
EXTENDS Sender, Receiver

CONSTANT Insisting  \* the terminals whose users run pjn-sender until they have paid

ASSUME PayjoinAssumption == Insisting \subseteq Procs

vars == <<wraps, chain, senderVars, receiverVars>>

Init ==
    /\ wraps = {}
    /\ chain = {}
    /\ SenderInit
    /\ ReceiverInit

\* Payers only know the URIs a receiver has printed.
Payer(A) == A /\ UNCHANGED receiverVars
Owner(A) == A /\ UNCHANGED senderVars

Next ==
    \/ \E p \in Procs : Payer(SenderNext(p, issued))
    \/ Owner(ReceiverNext)

Spec == Init /\ [][Next]_vars

-----------------------------------------------------------------------------
(* Types                                                                   *)

SavedPayments == [pid : Pids \cup {None}, pub : BOOLEAN]

SenderPlaces == {"down", "synced", "ready", "sent", "waiting", "proposal",
                 "stopped", "done"}

Processes ==
    [at : SenderPlaces, uri : Keys \cup {None}, dry : BOOLEAN, fallback : BOOLEAN,
     view : SUBSET Coins, pid : Pids \cup {None}, pub : BOOLEAN,
     offer : ReceiverCoins \cup {None}]

Requests ==
    [leg : {"original"}, from : Pids, to : Keys, coin : Coins, copy : 1..MaxCopies]
Proposals ==
    [leg : {"proposal"}, from : Keys, to : Pids, coin : ReceiverCoins,
     copy : 1..MaxCopies]
Refusals ==
    [leg : {"error"}, from : Keys, to : Pids, coin : {None}, copy : 1..MaxCopies]
Wraps == Requests \cup Proposals \cup Refusals

Payments == [by : Files, coin : Coins, uri : Keys]

Transactions == [pid : Pids, uri : Keys, coins : SUBSET Coins]

ReceiverProcesses ==
    [at : Phases \cup {"down"}, keep : BOOLEAN, view : SUBSET ReceiverCoins,
     key : Keys \cup {None}, seen : SUBSET Coins, delivered : SUBSET Wraps,
     peer : Pids \cup {None}, offer : ReceiverCoins \cup {None},
     outcome : {"none", "ok", "failed"}]

\* Every variable holds what the programs can put there; a running process has
\* a key or a payment to work for.
TypeOK ==
    /\ wraps \subseteq Wraps
    /\ chain \subseteq Transactions
    /\ file \in [Files -> SavedPayments]
    /\ proc \in [Procs -> Processes]
    /\ payments \in [Pids -> Payments \cup {None}]
    /\ told \in [Files -> SUBSET Keys]
    /\ closed \subseteq Pids
    /\ rfile \in [key : Keys \cup {None}, seen : SUBSET Coins]
    /\ rproc \in ReceiverProcesses
    /\ issued \subseteq Keys
    /\ spentKeys \subseteq Keys

-----------------------------------------------------------------------------
(* What the payer relies on                                                *)

\* Every terminal has a session file and a wallet of its own.  The programs do
\* not check this: there is no lock on the file.
Exclusive ==
    \A p \in Procs :
        /\ CoinsOf[p] \cap ReceiverCoins = {}
        /\ \A q \in Procs \ {p} : /\ FileOf[p] # FileOf[q]
                                  /\ CoinsOf[p] \cap CoinsOf[q] = {}

\* No URI is paid twice from one session file, whatever crashed, was lost or was
\* retried in between (main.rs: the saved payment is resumed, not started over).
NoDoublePayment ==
    \A t, u \in chain :
        t.uri = u.uri /\ payments[t.pid].by = payments[u.pid].by => t = u

\* A request that a relay holds can be answered: the key that opens the reply is
\* on disk until the payment is deliberately closed (start saves first).
ReplyKeyKept ==
    \A w \in wraps : w.leg = "original" =>
        \/ w.from \in closed
        \/ file[payments[w.from].by].pid = w.from

\* A session file that says "published" is right: a run that resumes it without
\* publishing again waits for an answer to a request that really went out.
PublishedIsStored ==
    \A f \in Files : file[f].pub =>
        \E w \in wraps : w.leg = "original" /\ w.from = file[f].pid

\* A user told that a URI is settled has paid it: by the run that says so, or by
\* an earlier one whose end nobody saw (resume: the coins are already spent).
ToldIsPaid ==
    \A f \in Files : \A uri \in told[f] :
        \E t \in chain : t.uri = uri /\ payments[t.pid].by = f

\* Once the file says that a payment was published, no step sends it again.
RecordedNeverResent ==
    [][\A w \in wraps' \ wraps : w.leg = "original" =>
         file[payments[w.from].by] # [pid |-> w.from, pub |-> TRUE]]_vars

\* Nothing is sent twice: a payment's request goes to the relays once.
NothingSentTwice ==
    \A w \in wraps : w.leg = "original" => w.copy = 1

\* A payment that is given up frees its coin, as --abandon tells the user.
AbandonFreesCoins ==
    [][\A f \in Files :
         (\E p \in Procs : FileOf[p] = f /\ Abandon(p)) =>
             payments[file[f].pid].coin \notin Spent]_vars

\* pjn-sender implements the ledger: what a file holds is the open payment.
L == INSTANCE Ledger WITH
       open  <- [f \in Files |-> file[f].pid],
       owner <- [q \in Pids |-> IF payments[q] = None THEN None ELSE payments[q].by],
       paid  <- Paid

LedgerSpec == L!Spec

-----------------------------------------------------------------------------
(* Why: the inductive invariant, for payers that are Exclusive             *)

\* A process past its first steps works on a payment that was begun, and has an
\* offer where it needs one.
PayerLinked ==
    /\ \A p \in Procs :
         /\ proc[p].pid # None => proc[p].pid \in Begun
         /\ proc[p].at \notin {"down", "synced"} => proc[p].pid # None
         /\ proc[p].at = "proposal" => proc[p].offer # None
    /\ \A f \in Files : file[f].pid # None => file[f].pid \in Begun

ReceiverLinked ==
    /\ rproc.at # "down" => rproc.key # None
    /\ rproc.at = "answering" => rproc.peer # None

\* A payment is begun by one of the terminals, with a coin of its wallet.
CoinsKept ==
    \A q \in Begun : \E p \in Procs :
        payments[q].by = FileOf[p] /\ payments[q].coin \in CoinsOf[p]

\* A transaction pays a payment's URI with its coin, and at most a receiver's.
ChainRight ==
    /\ \A t \in chain :
         /\ t.pid \in Begun
         /\ t.uri = payments[t.pid].uri
         /\ payments[t.pid].coin \in t.coins
         /\ t.coins \subseteq {payments[t.pid].coin} \cup ReceiverCoins
    /\ \A t, u \in chain : t # u => t.coins \cap u.coins = {}

\* The payment a file holds was begun there, its user was not told that its URI is
\* settled, and nothing else spends its coin.
OpenPayment ==
    \A f \in Files : file[f].pid # None =>
        /\ payments[file[f].pid].by = f
        /\ payments[file[f].pid].uri \notin told[f]
        /\ \A t \in chain : payments[file[f].pid].coin \in t.coins => t.pid = file[f].pid

\* Unless users abandon payments, what was paid is still in the file or told.
PaidKnown ==
    ~MayAbandon => \A t \in chain :
        \/ file[payments[t.pid].by].pid = t.pid
        \/ t.uri \in told[payments[t.pid].by]

Working == {"ready", "sent", "waiting", "proposal", "stopped"}

\* A running process works on what its file holds.  Between sync and start nobody
\* else spends its wallet's coins, and a run that resumed or started a payment
\* still has the payment's coin until it settles.
RunFits(p) ==
    /\ proc[p].at # "down" => proc[p].pid = file[FileOf[p]].pid
    /\ proc[p].at = "synced" => /\ proc[p].view = CoinsOf[p] \ Spent
                                /\ proc[p].uri \notin told[FileOf[p]]
    /\ proc[p].at \in Working => payments[proc[p].pid].coin \notin Spent
    /\ proc[p].at = "done" /\ proc[p].dry => payments[proc[p].pid].coin \notin Spent
    /\ proc[p].at = "done" /\ ~proc[p].dry => proc[p].pid \in Paid

Books == CoinsKept /\ ChainRight /\ OpenPayment /\ PaidKnown

IInv ==
    /\ TypeOK /\ PayerLinked /\ ReceiverLinked
    /\ Books
    /\ \A p \in Procs : RunFits(p)

-----------------------------------------------------------------------------
(* What the receiver relies on                                             *)

\* The coins for which key `k' has handed out a proposal.
OfferedFor(k) ==
    {payments[w.to].coin : w \in {x \in wraps : x.leg = "proposal" /\ x.from = k}}

\* The receiver remembers every payer coin it answered with one of its own, on
\* disk or, while it runs, in memory (run_one_session, then record_seen + save).
AnsweredIsRemembered ==
    \A k \in Keys :
        /\ rproc.key = k => OfferedFor(k) \subseteq rproc.seen
        /\ rfile.key = k /\ rproc.at = "down" => OfferedFor(k) \subseteq rfile.seen

\* Two proposals never answer the same payer coin under one key, whatever the
\* payer resends and however often the receiver restarts.
OneProposalPerCoin ==
    \A v, w \in wraps :
        /\ v.leg = "proposal" /\ w.leg = "proposal" /\ v.from = w.from
        /\ payments[v.to].coin = payments[w.to].coin
        => v = w

\* As OneProposalPerCoin, and across keys as well.
OneProposalPerCoinEver ==
    \A v, w \in wraps :
        /\ v.leg = "proposal" /\ w.leg = "proposal"
        /\ payments[v.to].coin = payments[w.to].coin
        => v = w

\* What a key's file remembers is never forgotten while the key is in use.
SeenOnlyGrows ==
    [][rfile'.key = rfile.key => rfile.seen \subseteq rfile'.seen]_vars

\* The key of a completed payjoin is deleted and does not come back to disk.
SpentSecretGone == rfile.key \notin spentKeys

\* A payer that was sent a proposal is not also sent a refusal.
NoErrorAfterProposal ==
    \A v, w \in wraps :
        v.leg = "proposal" /\ w.leg = "error" => v.to # w.to

-----------------------------------------------------------------------------
(* What must eventually happen                                             *)

\* The user runs pjn-sender again and again, every run goes on until it ends, and
\* runs are not always killed at the same place.
Persistent(p) ==
    /\ WF_vars(\E flags \in Flags : Payer(Invoke(p, None, flags)))
    /\ WF_vars(Payer(Work(p)))
    /\ SF_vars(Payer(ResumeSettled(p)))
    /\ SF_vars(Payer(RecordPublished(p)))
    /\ SF_vars(Payer(HearProposal(p) \/ HearError(p) \/ HearNothing(p)))
    /\ SF_vars(Payer(Clear(p)))

\* The network takes a broadcast again and again.
ChainReachable(p) == SF_vars(Payer(Settle(p)))

\* Connecting to the relays and publishing to them work again and again.
RelaysReachable(p) == SF_vars(Payer(Resume(p))) /\ SF_vars(Payer(Publish(p)))

\* The owner serves again whenever the receiver stopped, and it can publish.
ReceiverServes ==
    /\ WF_vars(Owner(\E keep \in KeepAlive, k \in Keys : Serve(keep, k)))
    /\ SF_vars(Owner(Collect))
    /\ SF_vars(Owner(Answer))
    /\ WF_vars(Owner(HearNothingR))
    /\ WF_vars(Owner(Persist))
    /\ WF_vars(Owner(Finish))

Insistence == \A p \in Insisting : Persistent(p) /\ ChainReachable(p) /\ RelaysReachable(p)

InsistentSpec == Spec /\ Insistence

\* The relays may stay out of reach for good.
RelaylessSpec == Spec /\ \A p \in Insisting : Persistent(p) /\ ChainReachable(p)

ServedSpec == Spec /\ ReceiverServes

\* A payer who insists, with --fallback-on-failure, is never blocked: every
\* payment begun is settled in the end, by payjoin or by its fallback.
EventuallyPaid ==
    \A q \in Pids :
        q \in Begun /\ (\E p \in Insisting : payments[q].by = FileOf[p]) ~> q \in Paid

\* A request on the relays gets a reply, though the receiver may be killed and
\* replies lost, unless the session it was meant for is over or the receiver has
\* no coin left to serve with.
RequestAnswered ==
    \A q \in Pids, k \in Keys :
        (\E w \in wraps : w.from = q /\ w.to = k)
            ~> \/ \E w \in wraps : w.from = k /\ w.to = q
               \/ rfile.key # k
               \/ ReceiverCoins \subseteq Spent
\* Neither needs the other side: a payer who insists is paid for without a receiver
\* that ever runs, and a receiver that serves answers a payer who may stop at any time.
InsistentIsPaid == Insistence => EventuallyPaid
ServedIsAnswered == ReceiverServes => RequestAnswered
=============================================================================
