------------------------------- MODULE Sender -------------------------------
(***************************************************************************)
(* pjn-sender: one terminal (an element of Procs) runs the program again   *)
(* and again, and what survives from one run to the next is the session    *)
(* file.  A run loads the file, syncs its wallet, and either resumes the   *)
(* saved payment or starts one; then it publishes the request, waits for   *)
(* the reply, and broadcasts the payjoin or the fallback.                  *)
(*                                                                         *)
(* A run that returns Err keeps nothing but the file, exactly like a run   *)
(* that is killed, so both lead to Down.                                   *)
(***************************************************************************)
EXTENDS Relays, Chain

CONSTANTS
    Procs,           \* the terminals pjn-sender is run from
    Files,           \* the session files
    FileOf,          \* the --session-file each terminal uses
    CoinsOf,         \* the coins of the wallet each terminal uses
    Flags,           \* the --dry-run / --fallback-on-failure choices users make
    Killable,        \* the terminals whose runs may be killed
    MayAbandon       \* whether users run --abandon (and may then pay again)

ASSUME SenderAssumption ==
    /\ FileOf \in [Procs -> Files]
    /\ CoinsOf \in [Procs -> SUBSET Coins]
    /\ Flags \subseteq [dry : BOOLEAN, fallback : BOOLEAN]
    /\ Killable \subseteq Procs
    /\ MayAbandon \in BOOLEAN
    /\ None \notin [by : Files, coin : Coins, uri : Keys]

VARIABLES
    file,      \* the session files: the saved payment and whether it says published
    proc,      \* each terminal's running process
    payments,  \* every payment ever started: who by, the coin reserved, the URI paid
    told,      \* the URIs each file's user has been told are settled
    closed     \* payments whose saved state was deleted

senderVars == <<file, proc, payments, told, closed>>

NoFile == [pid |-> None, pub |-> FALSE]

Down == [at |-> "down", uri |-> None, dry |-> FALSE, fallback |-> FALSE,
         view |-> {}, pid |-> None, pub |-> FALSE, offer |-> None]

Begun == {q \in Pids : payments[q] # None}

SenderInit ==
    /\ file = [f \in Files |-> NoFile]
    /\ proc = [p \in Procs |-> Down]
    /\ payments = [q \in Pids |-> None]
    /\ told = [f \in Files |-> {}]
    /\ closed = {}

-----------------------------------------------------------------------------
(* Exits and the session file                                              *)

\* The process is gone and its memory with it.
Exit(p) == proc' = [proc EXCEPT ![p] = Down]

\* Move on to `place', changing nothing else the process holds.
Go(p, place) == proc' = [proc EXCEPT ![p].at = place]

Save(p, pid, pub) == file' = [file EXCEPT ![FileOf[p]] = [pid |-> pid, pub |-> pub]]

\* session::clear deletes whatever the file holds.
Delete(p) ==
    /\ file' = [file EXCEPT ![FileOf[p]] = NoFile]
    /\ closed' = closed \cup ({file[FileOf[p]].pid} \ {None})

Tell(p, uri) == told' = [told EXCEPT ![FileOf[p]] = @ \cup {uri}]

\* The signed Original PSBT of a payment, its fallback, and the payjoin in which
\* the receiver adds the coin `offer'.
Request(q) == Envelope("original", q, payments[q].uri, payments[q].coin)
Fallback(q) == Transaction(q, payments[q].uri, {payments[q].coin})
PayjoinTx(q, offer) == Transaction(q, payments[q].uri, {payments[q].coin, offer})

-----------------------------------------------------------------------------
(* Starting a run                                                          *)

\* The user runs pjn-sender: the saved state is loaded, then the wallet synced.
\* Users do not pay a URI again once they were told that it is settled.
Invoke(p, uri, flags) ==
    /\ proc[p].at = "down"
    /\ uri \notin told[FileOf[p]]
    /\ proc' = [proc EXCEPT ![p] =
                  [Down EXCEPT !.at = "synced", !.uri = uri, !.dry = flags.dry,
                               !.fallback = flags.fallback,
                               !.view = CoinsOf[p] \ Spent,
                               !.pid = file[FileOf[p]].pid,
                               !.pub = file[FileOf[p]].pub]]
    /\ UNCHANGED <<wraps, chain, file, payments, told, closed>>

\* pjn-sender --abandon, which reads nothing and deletes the file.
Abandon(p) ==
    /\ MayAbandon
    /\ proc[p].at = "down"
    /\ file[FileOf[p]].pid # None
    /\ Delete(p)
    /\ UNCHANGED <<wraps, chain, proc, payments, told>>

\* The saved payment was loaded and the command line agrees with it.
Resumes(p) ==
    /\ proc[p].at = "synced"
    /\ proc[p].pid # None
    /\ proc[p].uri \in {None, payments[proc[p].pid].uri}

\* Mutant of StartsNew: the saved payment is not looked at.
StartsOver(p) == proc[p].at = "synced" /\ proc[p].uri # None

StartsNew(p) ==
    /\ proc[p].at = "synced"
    /\ proc[p].pid = None
    /\ proc[p].uri # None

\* A different payment is open, or there is nothing to resume and no URI.
Refuse(p) ==
    /\ proc[p].at = "synced"
    /\ ~Resumes(p)
    /\ ~StartsNew(p)
    /\ Exit(p)
    /\ UNCHANGED <<wraps, chain, file, payments, told, closed>>

\* No relay can be reached, or the wallet cannot fund the payment.
CannotBegin(p) ==
    /\ Resumes(p) \/ StartsNew(p)
    /\ Exit(p)
    /\ UNCHANGED <<wraps, chain, file, payments, told, closed>>

\* The reserved coin is spent, so an earlier run settled the payment.
ResumeSettled(p) ==
    /\ Resumes(p)
    /\ payments[proc[p].pid].coin \notin proc[p].view
    /\ Delete(p)
    /\ Tell(p, payments[proc[p].pid].uri)
    /\ Exit(p)
    /\ UNCHANGED <<wraps, chain, payments>>

\* Mutant of Resume: the request is published on every run.
ResumePublishes(p) ==
    /\ Resumes(p)
    /\ payments[proc[p].pid].coin \in proc[p].view
    /\ proc' = [proc EXCEPT ![p].at = "ready", ![p].uri = None, ![p].view = {}]
    /\ UNCHANGED <<wraps, chain, file, payments, told, closed>>

Resume(p) ==
    /\ Resumes(p)
    /\ payments[proc[p].pid].coin \in proc[p].view
    /\ proc' = [proc EXCEPT ![p].at = IF proc[p].pub THEN "waiting" ELSE "ready",
                            ![p].uri = None, ![p].view = {}]
    /\ UNCHANGED <<wraps, chain, file, payments, told, closed>>

\* Mutant of Start: nothing is saved.
StartUnsaved(p, q, c) ==
    /\ StartsNew(p)
    /\ q \notin Begun
    /\ c \in proc[p].view
    /\ payments' = [payments EXCEPT ![q] =
                      [by |-> FileOf[p], coin |-> c, uri |-> proc[p].uri]]
    /\ proc' = [proc EXCEPT ![p].at = "ready", ![p].pid = q,
                            ![p].uri = None, ![p].view = {}]
    /\ UNCHANGED <<wraps, chain, file, told, closed>>

\* A new payment: coin reserved, key generated, saved before anything is sent.
Start(p, q, c) ==
    /\ StartsNew(p)
    /\ q \notin Begun
    /\ c \in proc[p].view
    /\ payments' = [payments EXCEPT ![q] =
                      [by |-> FileOf[p], coin |-> c, uri |-> proc[p].uri]]
    /\ Save(p, q, FALSE)
    /\ proc' = [proc EXCEPT ![p].at = "ready", ![p].pid = q,
                            ![p].uri = None, ![p].view = {}]
    /\ UNCHANGED <<wraps, chain, told, closed>>

-----------------------------------------------------------------------------
(* Publishing and waiting                                                  *)

Publish(p) ==
    /\ proc[p].at = "ready"
    /\ Send(Request(proc[p].pid))
    /\ Go(p, "sent")
    /\ UNCHANGED <<chain, file, payments, told, closed>>

\* Mutants of PublishFails: the file says published, or is deleted.
PublishFailsRecorded(p) ==
    /\ proc[p].at = "ready"
    /\ SendFails(Request(proc[p].pid))
    /\ Save(p, proc[p].pid, TRUE)
    /\ Exit(p)
    /\ UNCHANGED <<chain, payments, told, closed>>

PublishFailsForgotten(p) ==
    /\ proc[p].at = "ready"
    /\ SendFails(Request(proc[p].pid))
    /\ Delete(p)
    /\ Exit(p)
    /\ UNCHANGED <<chain, payments, told>>

\* send returned Err: the run ends here and the file still reads as unpublished.
PublishFails(p) ==
    /\ proc[p].at = "ready"
    /\ SendFails(Request(proc[p].pid))
    /\ Exit(p)
    /\ UNCHANGED <<chain, file, payments, told, closed>>

\* published_at is set and saved.
RecordPublished(p) ==
    /\ proc[p].at = "sent"
    /\ Save(p, proc[p].pid, TRUE)
    /\ proc' = [proc EXCEPT ![p].at = "waiting", ![p].pub = TRUE]
    /\ UNCHANGED <<wraps, chain, payments, told, closed>>

\* await_proposal returned the proposal.
HearProposal(p) ==
    /\ proc[p].at = "waiting"
    /\ \E w \in Undelivered(proc[p].pid, {}) :
         /\ w.leg = "proposal"
         /\ proc' = [proc EXCEPT ![p].at = "proposal", ![p].offer = w.coin]
    /\ UNCHANGED <<wraps, chain, file, payments, told, closed>>

\* await_proposal found the receiver's refusal.
HearError(p) ==
    /\ proc[p].at = "waiting"
    /\ \E w \in Undelivered(proc[p].pid, {}) : w.leg = "error"
    /\ Go(p, "stopped")
    /\ UNCHANGED <<wraps, chain, file, payments, told, closed>>

\* The wait timed out, or the relays could not be read.
HearNothing(p) ==
    /\ proc[p].at = "waiting"
    /\ Go(p, "stopped")
    /\ UNCHANGED <<wraps, chain, file, payments, told, closed>>

\* The proposal does not pass validate_proposal.
RejectProposal(p) ==
    /\ proc[p].at = "proposal"
    /\ proc' = [proc EXCEPT ![p].at = "stopped", ![p].offer = None]
    /\ UNCHANGED <<wraps, chain, file, payments, told, closed>>

-----------------------------------------------------------------------------
(* Finishing                                                               *)

\* Without --fallback-on-failure the payment stays open for a later run.
KeepOpen(p) ==
    /\ proc[p].at = "stopped"
    /\ ~proc[p].dry
    /\ ~proc[p].fallback
    /\ Exit(p)
    /\ UNCHANGED <<wraps, chain, file, payments, told, closed>>

EndDryRun(p) ==
    /\ proc[p].at \in {"stopped", "proposal"}
    /\ proc[p].dry
    /\ Go(p, "done")
    /\ UNCHANGED <<wraps, chain, file, payments, told, closed>>

\* What this run would broadcast, if anything.
Final(p) ==
    IF proc[p].at = "proposal" THEN PayjoinTx(proc[p].pid, proc[p].offer)
                               ELSE Fallback(proc[p].pid)

Settles(p) ==
    /\ ~proc[p].dry
    /\ \/ proc[p].at = "proposal"
       \/ proc[p].at = "stopped" /\ proc[p].fallback

\* The payjoin, or the fallback, is accepted by the network.
Settle(p) ==
    /\ Settles(p)
    /\ Broadcast(Final(p))
    /\ Go(p, "done")
    /\ UNCHANGED <<wraps, file, payments, told, closed>>

\* Mutant of SettleFails: a failed broadcast clears the session too.
SettleFailsCleared(p) ==
    /\ Settles(p)
    /\ BroadcastFails(Final(p))
    /\ Delete(p)
    /\ Exit(p)
    /\ UNCHANGED <<wraps, payments, told>>

\* The broadcast returned Err, and so does the run.
SettleFails(p) ==
    /\ Settles(p)
    /\ BroadcastFails(Final(p))
    /\ Exit(p)
    /\ UNCHANGED <<wraps, file, payments, told, closed>>

\* Mutant of Clear: a dry run reports that it paid.
ClearTells(p) ==
    /\ proc[p].at = "done"
    /\ Delete(p)
    /\ Tell(p, payments[proc[p].pid].uri)
    /\ Exit(p)
    /\ UNCHANGED <<wraps, chain, payments>>

\* Ending::Clear.  Only a run that broadcast tells its user that it paid.
Clear(p) ==
    /\ proc[p].at = "done"
    /\ Delete(p)
    /\ IF proc[p].dry THEN told' = told ELSE Tell(p, payments[proc[p].pid].uri)
    /\ Exit(p)
    /\ UNCHANGED <<wraps, chain, payments>>

\* Killed, at any point.
Crash(p) ==
    /\ p \in Killable
    /\ proc[p].at # "down"
    /\ Exit(p)
    /\ UNCHANGED <<wraps, chain, file, payments, told, closed>>

\* What a run does by itself, one way or another, until it ends.
Work(p) ==
    \/ Refuse(p)
    \/ CannotBegin(p)
    \/ ResumeSettled(p)
    \/ Resume(p)
    \/ \E q \in Pids, c \in Coins : Start(p, q, c)
    \/ Publish(p)
    \/ PublishFails(p)
    \/ RecordPublished(p)
    \/ HearProposal(p)
    \/ HearError(p)
    \/ HearNothing(p)
    \/ RejectProposal(p)
    \/ KeepOpen(p)
    \/ EndDryRun(p)
    \/ Settle(p)
    \/ SettleFails(p)
    \/ Clear(p)

SenderNext(p, uris) ==
    \/ \E uri \in uris \cup {None}, flags \in Flags : Invoke(p, uri, flags)
    \/ Abandon(p)
    \/ Work(p)
    \/ Crash(p)
=============================================================================
