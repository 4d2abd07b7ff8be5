------------------------------ MODULE Receiver ------------------------------
(***************************************************************************)
(* pjn-receiver: one receiver with one session file.  A run of `serve'     *)
(* loads the session or makes a new one, and then repeats: receive one     *)
(* Original PSBT, answer it, save what was seen, and decide whether to go  *)
(* on.  The wallet is synced once, when the run starts.                    *)
(***************************************************************************)
EXTENDS Relays, Chain

CONSTANTS
    ReceiverCoins,  \* the receiver's own coins
    KeepAlive,      \* the --keep-alive choices made
    Verdicts,       \* how respond may judge a request that is not a replay
    KillableAt,     \* where a run may be killed
    MayReset        \* whether the owner runs `reset'

Phases == {"listening", "answering", "answered", "saved"}

ASSUME ReceiverAssumption ==
    /\ ReceiverCoins \subseteq Coins
    /\ KeepAlive \subseteq BOOLEAN
    /\ Verdicts \subseteq {"accept", "unfit", "refuse"}
    /\ KillableAt \subseteq Phases
    /\ MayReset \in BOOLEAN

VARIABLES
    rfile,   \* the session file: the URI's key and the payer coins seen
    rproc,   \* the running process
    issued,  \* keys whose URI was ever printed
    spentKeys \* keys whose session file was deleted because a payjoin completed

receiverVars == <<rfile, rproc, issued, spentKeys>>

NoSession == [key |-> None, seen |-> {}]

Idle == [at |-> "down", keep |-> FALSE, view |-> {}, key |-> None, seen |-> {},
         delivered |-> {}, peer |-> None, offer |-> None, outcome |-> "none"]

ReceiverInit ==
    /\ rfile = NoSession
    /\ rproc = Idle
    /\ issued = {}
    /\ spentKeys = {}

-----------------------------------------------------------------------------

\* Mutant of Serve: a resumed session does not load what it has seen.
ServeForgetful(keep, k) ==
    /\ rproc.at = "down"
    /\ ReceiverCoins \ Spent # {}
    /\ IF rfile = NoSession THEN k \notin issued ELSE k = rfile.key
    /\ rfile' = [rfile EXCEPT !.key = k]
    /\ rproc' = [Idle EXCEPT !.at = "listening", !.keep = keep, !.key = k,
                             !.view = ReceiverCoins \ Spent]
    /\ issued' = issued \cup {k}
    /\ UNCHANGED <<wraps, chain, spentKeys>>

\* `serve': sync, then resume the saved session or save a new one.  Without a
\* coin to contribute it does not start.
Serve(keep, k) ==
    /\ rproc.at = "down"
    /\ ReceiverCoins \ Spent # {}
    /\ IF rfile = NoSession THEN k \notin issued ELSE k = rfile.key
    /\ rfile' = [rfile EXCEPT !.key = k]
    /\ rproc' = [Idle EXCEPT !.at = "listening", !.keep = keep, !.key = k,
                             !.view = ReceiverCoins \ Spent, !.seen = rfile.seen]
    /\ issued' = issued \cup {k}
    /\ UNCHANGED <<wraps, chain, spentKeys>>

\* `reset', a run of its own: it deletes the file, whoever is serving from it.
Reset ==
    /\ MayReset
    /\ rfile # NoSession
    /\ rfile' = NoSession
    /\ UNCHANGED <<wraps, chain, rproc, issued, spentKeys>>

\* Mutant of Judged: the seen coins are recorded and not looked at.
JudgedAgain(v, c, coin) ==
    [offer |-> IF v = "accept" THEN c ELSE None,
     seen  |-> IF v = "unfit" THEN rproc.seen ELSE rproc.seen \cup {coin}]

\* What respond makes of a request: `c' is the coin it would add.  The replay
\* check records the payer's coin even when it, or a later check, refuses; a
\* request refused before it ("unfit") leaves no trace.
Judged(v, c, coin) ==
    [offer |-> IF v = "accept" /\ coin \notin rproc.seen THEN c ELSE None,
     seen  |-> IF v = "unfit" THEN rproc.seen ELSE rproc.seen \cup {coin}]

\* Mutant of Collect: a request for a coin that was seen is passed over.
CollectUnseen ==
    /\ rproc.at = "listening"
    /\ \E w \in Undelivered(rproc.key, rproc.delivered) :
         /\ w.leg = "original"
         /\ w.coin \notin rproc.seen
         /\ \E v \in Verdicts, c \in rproc.view :
              rproc' = [rproc EXCEPT !.at = "answering", !.peer = w.from,
                                     !.delivered = @ \cup {w},
                                     !.offer = Judged(v, c, w.coin).offer,
                                     !.seen = Judged(v, c, w.coin).seen]
    /\ UNCHANGED <<wraps, chain, rfile, issued, spentKeys>>

\* recv hands over an Original PSBT and respond judges it.
Collect ==
    /\ rproc.at = "listening"
    /\ \E w \in Undelivered(rproc.key, rproc.delivered) :
         /\ w.leg = "original"
         /\ \E v \in Verdicts, c \in rproc.view :
              LET answer == Judged(v, c, w.coin)
              IN  rproc' = [rproc EXCEPT !.at = "answering", !.peer = w.from,
                                         !.delivered = @ \cup {w},
                                         !.offer = answer.offer,
                                         !.seen = answer.seen]
    /\ UNCHANGED <<wraps, chain, rfile, issued, spentKeys>>

Reply ==
    Envelope(IF rproc.offer = None THEN "error" ELSE "proposal",
             rproc.key, rproc.peer, rproc.offer)

\* run_one_session returns with `result'.
EndSession(result) ==
    rproc' = [rproc EXCEPT !.at = "answered", !.peer = None, !.offer = None,
                           !.outcome = result]

\* The reply is on a relay.  Only a proposal counts as success.
Answer ==
    /\ rproc.at = "answering"
    /\ Send(Reply)
    /\ EndSession(IF rproc.offer = None THEN "failed" ELSE "ok")
    /\ UNCHANGED <<chain, rfile, issued, spentKeys>>

\* Publishing the reply returned Err.
AnswerFails ==
    /\ rproc.at = "answering"
    /\ SendFails(Reply)
    /\ EndSession("failed")
    /\ UNCHANGED <<chain, rfile, issued, spentKeys>>

\* recv timed out.  An envelope that is not an Original PSBT ends the same way.
HearNothingR ==
    /\ rproc.at = "listening"
    /\ EndSession("none")
    /\ UNCHANGED <<wraps, chain, rfile, issued, spentKeys>>

\* recv returned Err.
ListenFails ==
    /\ rproc.at = "listening"
    /\ EndSession("failed")
    /\ UNCHANGED <<wraps, chain, rfile, issued, spentKeys>>

\* Mutant of Persist: only a session that succeeded is recorded.
PersistSuccess ==
    /\ rproc.at = "answered"
    /\ rfile' = [key |-> rproc.key,
                 seen |-> IF rproc.outcome = "ok" THEN rproc.seen ELSE rfile.seen]
    /\ rproc' = [rproc EXCEPT !.at = "saved"]
    /\ UNCHANGED <<wraps, chain, issued, spentKeys>>

\* Whatever the outcome, record_seen and save.
Persist ==
    /\ rproc.at = "answered"
    /\ rfile' = [key |-> rproc.key, seen |-> rproc.seen]
    /\ rproc' = [rproc EXCEPT !.at = "saved"]
    /\ UNCHANGED <<wraps, chain, issued, spentKeys>>

\* Mutant of Finish: a completed payjoin leaves its session file.
FinishKeeps ==
    /\ rproc.at = "saved"
    /\ spentKeys' = IF rproc.outcome = "ok" THEN spentKeys \cup {rproc.key} ELSE spentKeys
    /\ rproc' = IF rproc.keep /\ rproc.outcome # "none"
                  THEN [rproc EXCEPT !.at = "listening", !.outcome = "none"]
                  ELSE Idle
    /\ UNCHANGED <<wraps, chain, rfile, issued>>

\* A completed payjoin clears the file; then listen again or stop.
Finish ==
    /\ rproc.at = "saved"
    /\ IF rproc.outcome = "ok"
         THEN rfile' = NoSession /\ spentKeys' = spentKeys \cup {rproc.key}
         ELSE UNCHANGED <<rfile, spentKeys>>
    /\ rproc' = IF rproc.keep /\ rproc.outcome # "none"
                  THEN [rproc EXCEPT !.at = "listening", !.outcome = "none"]
                  ELSE Idle
    /\ UNCHANGED <<wraps, chain, issued>>

CrashR ==
    /\ rproc.at \in KillableAt
    /\ rproc' = Idle
    /\ UNCHANGED <<wraps, chain, rfile, issued, spentKeys>>

ReceiverNext ==
    \/ \E keep \in KeepAlive, k \in Keys : Serve(keep, k)
    \/ Reset
    \/ Collect
    \/ Answer
    \/ AnswerFails
    \/ HearNothingR
    \/ ListenFails
    \/ Persist
    \/ Finish
    \/ CrashR
=============================================================================
