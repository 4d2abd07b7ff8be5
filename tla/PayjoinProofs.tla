--------------------------- MODULE PayjoinProofs ----------------------------
(***************************************************************************)
(* Proofs about Payjoin for every number of payers, payments, coins, keys  *)
(* and copies, and for every choice of the failures the constants allow:   *)
(* types, and the receiver's replay guard.  Whatever relays repeat and     *)
(* however often the receiver restarts or is reset, one that is not killed *)
(* between sending a reply and saving what it taught offers one coin of    *)
(* its own for each payer coin.                                            *)
(***************************************************************************)
EXTENDS Payjoin, TLAPS

TypeInv == TypeOK /\ PayerLinked /\ ReceiverLinked

-----------------------------------------------------------------------------
(* What sending adds                                                       *)

LEMMA PostedAdds ==
    ASSUME wraps \subseteq Wraps, NEW m \in Wraps, wraps' \in Posted(m)
    PROVE  \E w \in Wraps : /\ wraps' = wraps \cup {w}
                            /\ w.leg = m.leg /\ w.from = m.from
                            /\ w.to = m.to /\ w.coin = m.coin
<1>1. PICK n \in 1..MaxCopies : wraps' = wraps \cup {[m EXCEPT !.copy = n]}
  BY DEF Posted
<1>2. [m EXCEPT !.copy = n] \in Wraps
  BY DEF Wraps, Requests, Proposals, Refusals
<1>3. LET w == [m EXCEPT !.copy = n]
      IN  w.leg = m.leg /\ w.from = m.from /\ w.to = m.to /\ w.coin = m.coin
  BY DEF Wraps, Requests, Proposals, Refusals
<1> QED
  BY <1>1, <1>2, <1>3

\* A request is a wrap once its payment was begun.
LEMMA RequestWrap ==
    ASSUME TypeOK, NEW q \in Begun
    PROVE  /\ Request(q) \in Wraps
           /\ Request(q).leg = "original" /\ Request(q).from = q
<1>1. payments[q] \in Payments /\ q \in Pids
  BY DEF TypeOK, Begun
<1> QED
  BY <1>1, RelaysAssumption DEF Payments, Request, Envelope, Wraps, Requests

LEMMA ReplyWrap ==
    ASSUME TypeInv, rproc.at = "answering"
    PROVE  Reply \in Wraps /\ Reply.leg # "original"
<1>1. /\ rproc.key \in Keys /\ rproc.peer \in Pids
      /\ rproc.offer \in ReceiverCoins \cup {None}
  BY DEF TypeInv, TypeOK, ReceiverLinked, ReceiverProcesses
<1>2. CASE rproc.offer = None
  BY <1>1, <1>2, RelaysAssumption DEF Reply, Envelope, Wraps, Refusals
<1>3. CASE rproc.offer # None
  BY <1>1, <1>3, RelaysAssumption DEF Reply, Envelope, Wraps, Proposals
<1> QED
  BY <1>2, <1>3

\* Whether it succeeds or not, a send leaves wraps among Wraps.
LEMMA SendKeepsType ==
    ASSUME wraps \subseteq Wraps, NEW m \in Wraps, Send(m) \/ SendFails(m)
    PROVE  wraps' \subseteq Wraps
  BY PostedAdds DEF Send, SendFails

-----------------------------------------------------------------------------
(* Types                                                                   *)

LEMMA TypeInit == Init => TypeInv
  BY RelaysAssumption, SenderAssumption, ReceiverAssumption, ChainAssumption
     DEF Init, SenderInit, ReceiverInit, TypeInv, TypeOK, PayerLinked,
         ReceiverLinked, NoFile, Down, Idle, NoSession, SavedPayments, Processes,
         ReceiverProcesses, SenderPlaces, Phases

\* What a broadcast may add.
LEMMA FinalTransaction ==
    ASSUME TypeInv, NEW p \in Procs, Settles(p)
    PROVE  Final(p) \in Transactions
<1>1. proc[p] \in Processes /\ proc[p].pid \in Begun
  BY DEF TypeInv, TypeOK, PayerLinked, Settles
<1>2. payments[proc[p].pid] \in Payments /\ proc[p].pid \in Pids
  BY <1>1 DEF TypeInv, TypeOK, Begun
<1>3. proc[p].at = "proposal" => proc[p].offer \in ReceiverCoins
  BY <1>1 DEF TypeInv, PayerLinked, Processes
<1> QED
  BY <1>1, <1>2, <1>3, ReceiverAssumption
     DEF Final, PayjoinTx, Fallback, Transaction, Transactions, Payments

LEMMA SettleType ==
    ASSUME TypeInv, NEW p \in Procs, Settles(p),
           Broadcast(Final(p)) \/ BroadcastFails(Final(p))
    PROVE  chain' \subseteq Transactions
  BY FinalTransaction DEF TypeInv, TypeOK, Broadcast, BroadcastFails

\* A run that moves on without touching its file.
LEMMA ProcessMoves ==
    ASSUME TypeInv, NEW p \in Procs, NEW r \in Processes,
           proc' = [proc EXCEPT ![p] = r],
           r.pid # None => r.pid \in Begun,
           r.at \notin {"down", "synced"} => r.pid # None,
           r.at = "proposal" => r.offer # None,
           wraps' \subseteq Wraps, chain' \subseteq Transactions,
           UNCHANGED <<file, payments, told, closed, receiverVars>>
    PROVE  TypeInv'
  BY DEF TypeInv, TypeOK, PayerLinked, ReceiverLinked, receiverVars, Begun

\* A run that ends after deleting its file.
LEMMA DeletedType ==
    ASSUME TypeInv, NEW p \in Procs, Delete(p), Exit(p) \/ UNCHANGED proc,
           told' \in [Files -> SUBSET Keys],
           UNCHANGED <<wraps, chain, payments, receiverVars>>
    PROVE  TypeInv'
<1> USE SenderAssumption, RelaysAssumption DEF TypeInv, TypeOK
<1>1. file' \in [Files -> SavedPayments] /\ closed' \subseteq Pids
  BY DEF Delete, SavedPayments, NoFile
<1>2. Down \in Processes
  BY DEF Down, Processes, SenderPlaces
<1>3. proc' \in [Procs -> Processes]
  BY <1>2 DEF Exit
<1>4. PayerLinked'
  BY DEF PayerLinked, Delete, NoFile, Exit, Down, Begun
<1>5. ReceiverLinked'
  BY DEF ReceiverLinked, receiverVars
<1> QED
  BY <1>1, <1>3, <1>4, <1>5 DEF receiverVars

LEMMA PayerType ==
    ASSUME TypeInv, NEW p \in Procs, SenderNext(p, issued), UNCHANGED receiverVars
    PROVE  TypeInv'
<1>0. proc[p] \in Processes
  BY DEF TypeInv, TypeOK
<1>1. /\ proc \in [Procs -> Processes]
      /\ wraps \subseteq Wraps /\ chain \subseteq Transactions
      /\ issued \subseteq Keys
      /\ proc[p].pid # None => proc[p].pid \in Begun
      /\ proc[p].at \notin {"down", "synced"} => proc[p].pid # None
      /\ FileOf[p] \in Files
      /\ file \in [Files -> SavedPayments]
      /\ file[FileOf[p]].pid # None => file[FileOf[p]].pid \in Begun
      /\ told \in [Files -> SUBSET Keys]
  BY SenderAssumption DEF TypeInv, TypeOK, PayerLinked
<1>2. \A q \in Begun : payments[q] \in Payments /\ payments[q].uri \in Keys /\ q \in Pids
  BY DEF TypeInv, TypeOK, Begun, Payments
<1>3. Down \in Processes
  BY DEF Down, Processes, SenderPlaces
<1>4. CASE Exit(p) /\ UNCHANGED <<file, payments, told, closed>>
           /\ wraps' \subseteq Wraps /\ chain' \subseteq Transactions
  BY <1>3, <1>4, ProcessMoves DEF Exit, Down
<1>5. ASSUME NEW uri \in issued \cup {None}, NEW flags \in Flags, Invoke(p, uri, flags)
      PROVE  TypeInv'
  <2> DEFINE r == [Down EXCEPT !.at = "synced", !.uri = uri, !.dry = flags.dry,
                               !.fallback = flags.fallback,
                               !.view = CoinsOf[p] \ Spent,
                               !.pid = file[FileOf[p]].pid,
                               !.pub = file[FileOf[p]].pub]
  <2>1. /\ proc' = [proc EXCEPT ![p] = r]
        /\ UNCHANGED <<wraps, chain, file, payments, told, closed>>
    BY <1>5 DEF Invoke
  <2>2. r \in Processes
    <3>1. /\ file[FileOf[p]].pid \in Pids \cup {None}
          /\ file[FileOf[p]].pub \in BOOLEAN
      BY <1>1 DEF SavedPayments
    <3>2. /\ flags.dry \in BOOLEAN /\ flags.fallback \in BOOLEAN
          /\ CoinsOf[p] \ Spent \in SUBSET Coins
      BY SenderAssumption
    <3>3. uri \in Keys \cup {None}
      BY <1>1
    <3> QED
      BY <1>3, <3>1, <3>2, <3>3 DEF Processes, SenderPlaces
  <2>3. r.pid = file[FileOf[p]].pid /\ r.at = "synced"
    BY DEF Down
  <2> HIDE DEF r
  <2> QED
    BY <1>1, <2>1, <2>2, <2>3, ProcessMoves
<1>6. CASE Abandon(p)
  BY <1>1, <1>6, DeletedType DEF Abandon
<1>7. CASE Refuse(p) \/ CannotBegin(p) \/ KeepOpen(p) \/ Crash(p)
  BY <1>1, <1>4, <1>7 DEF Refuse, CannotBegin, KeepOpen, Crash
<1>8. CASE ResumeSettled(p)
  <2>1. payments[proc[p].pid].uri \in Keys
    BY <1>1, <1>2, <1>8 DEF ResumeSettled, Resumes
  <2> QED
    BY <1>1, <1>8, <2>1, DeletedType DEF ResumeSettled, Tell
<1>9. CASE Resume(p)
  <2> DEFINE r == [proc[p] EXCEPT !.at = IF proc[p].pub THEN "waiting" ELSE "ready",
                                  !.uri = None, !.view = {}]
  <2>1. /\ proc' = [proc EXCEPT ![p] = r]
        /\ proc[p].pid # None
        /\ UNCHANGED <<wraps, chain, file, payments, told, closed>>
    BY <1>1, <1>9 DEF Resume, Resumes
  <2>2. r \in Processes /\ r.pid = proc[p].pid /\ r.at # "proposal"
    BY <1>0 DEF Processes, SenderPlaces
  <2> HIDE DEF r
  <2> QED
    BY <1>1, <2>1, <2>2, ProcessMoves
<1>10. ASSUME NEW q \in Pids, NEW c \in Coins, Start(p, q, c)
       PROVE  TypeInv'
  <2> DEFINE pay == [by |-> FileOf[p], coin |-> c, uri |-> proc[p].uri]
  <2>1. pay \in Payments /\ pay # None
    <3>1. proc[p].uri \in Keys
      BY <1>0, <1>10 DEF Start, StartsNew, Processes
    <3> QED
      BY <1>1, <3>1, SenderAssumption DEF Payments
  <2>2. /\ payments' = [payments EXCEPT ![q] = pay]
        /\ file' = [file EXCEPT ![FileOf[p]] = [pid |-> q, pub |-> FALSE]]
        /\ proc' = [proc EXCEPT ![p].at = "ready", ![p].pid = q,
                                ![p].uri = None, ![p].view = {}]
        /\ UNCHANGED <<wraps, chain, told, closed>>
    BY <1>10 DEF Start, Save
  <2> HIDE DEF pay
  <2>3. payments' \in [Pids -> Payments \cup {None}] /\ Begun' = Begun \cup {q}
    BY <2>1, <2>2 DEF TypeInv, TypeOK, Begun
  <2>4. file' \in [Files -> SavedPayments]
    BY <1>1, <2>2 DEF SavedPayments
  <2>5. proc' \in [Procs -> Processes]
    <3> DEFINE r == [proc[p] EXCEPT !.at = "ready", !.pid = q,
                                    !.uri = None, !.view = {}]
    <3>1. r \in Processes
      BY <1>0 DEF Processes, SenderPlaces
    <3>2. proc \in [Procs -> Processes] /\ proc' = [proc EXCEPT ![p] = r]
      BY <1>1, <2>2
    <3> HIDE DEF r
    <3> QED
      BY <3>1, <3>2
  <2>6. PayerLinked'
    <3>1. ASSUME NEW o \in Procs
          PROVE  /\ proc'[o].pid # None => proc'[o].pid \in Begun'
                 /\ proc'[o].at \notin {"down", "synced"} => proc'[o].pid # None
                 /\ proc'[o].at = "proposal" => proc'[o].offer # None
      <4>1. proc[o] \in Processes /\ proc[p] \in Processes /\ q # None
        BY <1>1, RelaysAssumption
      <4>2. CASE o = p
        <5>1. proc'[p].at = "ready" /\ proc'[p].pid = q
          BY <1>1, <2>2, <4>1 DEF Processes
        <5> QED
          BY <2>3, <4>1, <4>2, <5>1
      <4>3. CASE o # p
        <5>1. proc'[o] = proc[o]
          BY <1>1, <2>2, <4>3
        <5> QED
          BY <2>3, <5>1 DEF TypeInv, PayerLinked
      <4> QED
        BY <4>2, <4>3
    <3>2. ASSUME NEW f \in Files
          PROVE  file'[f].pid # None => file'[f].pid \in Begun'
      BY <1>1, <2>2, <2>3 DEF TypeInv, PayerLinked
    <3> QED
      BY <3>1, <3>2 DEF PayerLinked
  <2> QED
    BY <2>2, <2>3, <2>4, <2>5, <2>6
       DEF TypeInv, TypeOK, ReceiverLinked, receiverVars
<1>11. CASE Publish(p) \/ PublishFails(p)
  <2>1. Request(proc[p].pid) \in Wraps
    BY <1>1, <1>11, RequestWrap DEF Publish, PublishFails, TypeInv
  <2>2. wraps' \subseteq Wraps
    BY <1>1, <1>11, <2>1, SendKeepsType DEF Publish, PublishFails
  <2>3. CASE PublishFails(p)
    BY <1>1, <1>4, <2>2, <2>3 DEF PublishFails
  <2>4. CASE Publish(p)
    <3> DEFINE r == [proc[p] EXCEPT !.at = "sent"]
    <3>1. /\ proc' = [proc EXCEPT ![p] = r] /\ proc[p].pid # None
          /\ UNCHANGED <<chain, file, payments, told, closed>>
      BY <1>1, <2>4 DEF Publish, Go
    <3>2. r \in Processes /\ r.pid = proc[p].pid /\ r.at = "sent"
      BY <1>0 DEF Processes, SenderPlaces
    <3> HIDE DEF r
    <3> QED
      BY <1>1, <2>2, <3>1, <3>2, ProcessMoves
  <2> QED
    BY <1>11, <2>3, <2>4
<1>12. CASE RecordPublished(p)
  <2>1. /\ proc[p].pid \in Begun /\ proc[p].pid # None
        /\ proc' = [proc EXCEPT ![p].at = "waiting", ![p].pub = TRUE]
        /\ file' = [file EXCEPT ![FileOf[p]] = [pid |-> proc[p].pid, pub |-> TRUE]]
        /\ UNCHANGED <<wraps, chain, payments, told, closed>>
    BY <1>1, <1>12 DEF RecordPublished, Save
  <2>2. file' \in [Files -> SavedPayments]
    BY <1>1, <1>2, <2>1 DEF SavedPayments
  <2>3. proc' \in [Procs -> Processes]
    <3> DEFINE r == [proc[p] EXCEPT !.at = "waiting", !.pub = TRUE]
    <3>1. r \in Processes
      BY <1>0 DEF Processes, SenderPlaces
    <3>2. proc \in [Procs -> Processes] /\ proc' = [proc EXCEPT ![p] = r]
      BY <1>1, <2>1
    <3> HIDE DEF r
    <3> QED
      BY <3>1, <3>2
  <2>4. PayerLinked'
    BY <1>1, <2>1 DEF PayerLinked, TypeInv, Begun, Processes
  <2> QED
    BY <2>1, <2>2, <2>3, <2>4 DEF TypeInv, TypeOK, ReceiverLinked, receiverVars
<1>13. CASE HearProposal(p)
  <2>1. PICK w \in wraps : /\ w.leg = "proposal"
                           /\ proc' = [proc EXCEPT ![p].at = "proposal", ![p].offer = w.coin]
    BY <1>13 DEF HearProposal, Undelivered
  <2>2. w.coin \in ReceiverCoins /\ w.coin # None
    BY <1>1, <2>1, RelaysAssumption, ReceiverAssumption
       DEF Wraps, Requests, Proposals, Refusals
  <2> DEFINE r == [proc[p] EXCEPT !.at = "proposal", !.offer = w.coin]
  <2>3. /\ proc' = [proc EXCEPT ![p] = r] /\ proc[p].pid # None
        /\ UNCHANGED <<wraps, chain, file, payments, told, closed>>
    BY <1>1, <1>13, <2>1 DEF HearProposal
  <2>4. r \in Processes /\ r.pid = proc[p].pid /\ r.offer # None
    BY <1>0, <2>2 DEF Processes, SenderPlaces
  <2> HIDE DEF r
  <2> QED
    BY <1>1, <2>3, <2>4, ProcessMoves
<1>14. CASE RejectProposal(p)
  <2> DEFINE r == [proc[p] EXCEPT !.at = "stopped", !.offer = None]
  <2>1. /\ proc' = [proc EXCEPT ![p] = r] /\ proc[p].pid # None
        /\ UNCHANGED <<wraps, chain, file, payments, told, closed>>
    BY <1>1, <1>14 DEF RejectProposal
  <2>2. r \in Processes /\ r.pid = proc[p].pid /\ r.at # "proposal"
    BY <1>0 DEF Processes, SenderPlaces
  <2> HIDE DEF r
  <2> QED
    BY <1>1, <2>1, <2>2, ProcessMoves
<1>15. ASSUME NEW place \in {"stopped", "done"}, Go(p, place), proc[p].pid # None,
              UNCHANGED <<wraps, chain, file, payments, told, closed>>
       PROVE  TypeInv'
  <2> DEFINE r == [proc[p] EXCEPT !.at = place]
  <2>1. proc' = [proc EXCEPT ![p] = r]
    BY <1>15 DEF Go
  <2>2. r \in Processes /\ r.pid = proc[p].pid /\ r.at # "proposal"
    BY <1>0 DEF Processes, SenderPlaces
  <2> HIDE DEF r
  <2> QED
    BY <1>1, <1>15, <2>1, <2>2, ProcessMoves
<1>16. CASE HearError(p) \/ HearNothing(p) \/ EndDryRun(p)
  BY <1>1, <1>15, <1>16 DEF HearError, HearNothing, EndDryRun
<1>17. CASE Settle(p) \/ SettleFails(p)
  <2>1. chain' \subseteq Transactions
    BY <1>17, SettleType DEF Settle, SettleFails
  <2>2. CASE SettleFails(p)
    BY <1>1, <1>4, <2>1, <2>2 DEF SettleFails
  <2>3. CASE Settle(p)
    <3> DEFINE r == [proc[p] EXCEPT !.at = "done"]
    <3>1. /\ proc' = [proc EXCEPT ![p] = r] /\ proc[p].pid # None
          /\ UNCHANGED <<wraps, file, payments, told, closed>>
      BY <1>1, <2>3 DEF Settle, Settles, Go
    <3>2. r \in Processes /\ r.pid = proc[p].pid /\ r.at = "done"
      BY <1>0 DEF Processes, SenderPlaces
    <3> HIDE DEF r
    <3> QED
      BY <1>1, <2>1, <3>1, <3>2, ProcessMoves
  <2> QED
    BY <1>17, <2>2, <2>3
<1>18. CASE Clear(p)
  <2>1. payments[proc[p].pid].uri \in Keys
    BY <1>1, <1>2, <1>18 DEF Clear
  <2> QED
    BY <1>1, <1>18, <2>1, DeletedType DEF Clear, Tell
<1> QED
  BY <1>5, <1>6, <1>7, <1>8, <1>9, <1>10, <1>11, <1>12, <1>13, <1>14, <1>17, <1>18,
     <1>16 DEF SenderNext, Work

LEMMA ReceiverType ==
    ASSUME TypeInv, ReceiverNext, UNCHANGED senderVars
    PROVE  TypeInv'
<1> USE RelaysAssumption
<1>1. /\ rproc \in ReceiverProcesses
      /\ wraps \subseteq Wraps /\ chain \subseteq Transactions
      /\ rfile \in [key : Keys \cup {None}, seen : SUBSET Coins]
      /\ rproc.at # "down" => rproc.key # None
      /\ issued \subseteq Keys /\ spentKeys \subseteq Keys
  BY DEF TypeInv, TypeOK, ReceiverLinked
<1>2. Idle \in ReceiverProcesses
  BY DEF Idle, ReceiverProcesses
<1>3. /\ ReceiverLinked' /\ rproc' \in ReceiverProcesses
      /\ wraps' \subseteq Wraps /\ UNCHANGED chain
      /\ rfile' \in [key : Keys \cup {None}, seen : SUBSET Coins]
      /\ issued' \subseteq Keys /\ spentKeys' \subseteq Keys
      => TypeInv'
  BY DEF TypeInv, TypeOK, PayerLinked, senderVars, Begun
<1>4. ASSUME NEW keep \in KeepAlive, NEW k \in Keys, Serve(keep, k)
      PROVE  TypeInv'
  <2> DEFINE r == [Idle EXCEPT !.at = "listening", !.keep = keep, !.key = k,
                               !.view = ReceiverCoins \ Spent, !.seen = rfile.seen]
  <2>1. /\ rproc' = r
        /\ rfile' = [rfile EXCEPT !.key = k]
        /\ issued' = issued \cup {k}
        /\ UNCHANGED <<wraps, chain, spentKeys>>
    BY <1>4 DEF Serve
  <2>2. keep \in BOOLEAN /\ rfile.seen \in SUBSET Coins
    BY <1>1, ReceiverAssumption
  <2>3. r \in ReceiverProcesses
    BY <1>2, <2>2 DEF ReceiverProcesses, Phases
  <2>4. r.key # None /\ r.at = "listening"
    BY DEF Idle
  <2> HIDE DEF r
  <2> QED
    BY <1>1, <1>3, <2>1, <2>3, <2>4 DEF ReceiverLinked
<1>5. CASE Reset
  BY <1>1, <1>3, <1>5 DEF Reset, NoSession, ReceiverLinked, TypeInv
<1>6. CASE Collect
  <2>1. PICK w \in wraps, v \in Verdicts, c \in rproc.view :
          /\ w.leg = "original"
          /\ LET answer == Judged(v, c, w.coin)
             IN  rproc' = [rproc EXCEPT !.at = "answering", !.peer = w.from,
                                        !.delivered = @ \cup {w},
                                        !.offer = answer.offer,
                                        !.seen = answer.seen]
    BY <1>6 DEF Collect, Undelivered
  <2>2. w.from \in Pids /\ w.coin \in Coins /\ w \in Wraps
    BY <1>1, <2>1 DEF Wraps, Requests, Proposals, Refusals
  <2> DEFINE offer == Judged(v, c, w.coin).offer
             seen == Judged(v, c, w.coin).seen
  <2>3. offer \in ReceiverCoins \cup {None} /\ seen \in SUBSET Coins
    BY <1>1, <2>2 DEF Judged, ReceiverProcesses
  <2> HIDE DEF offer, seen
  <2> DEFINE r == [rproc EXCEPT !.at = "answering", !.peer = w.from,
                                !.delivered = @ \cup {w}, !.offer = offer,
                                !.seen = seen]
  <2>4. rproc' = r
    BY <2>1 DEF offer, seen
  <2>5. r \in ReceiverProcesses
    BY <1>1, <2>2, <2>3 DEF ReceiverProcesses, Phases
  <2>6. r.at = "answering" /\ r.peer # None /\ r.key # None
    BY <1>1, <1>6, <2>2 DEF ReceiverProcesses, Collect
  <2> HIDE DEF r
  <2> QED
    BY <1>1, <1>3, <1>6, <2>4, <2>5, <2>6 DEF Collect, ReceiverLinked
<1>7. ASSUME NEW result \in {"none", "ok", "failed"}, EndSession(result),
             rproc.at # "down", wraps' \subseteq Wraps,
             UNCHANGED <<chain, rfile, issued, spentKeys>>
      PROVE  TypeInv'
  <2> DEFINE r == [rproc EXCEPT !.at = "answered", !.peer = None, !.offer = None,
                                !.outcome = result]
  <2>1. rproc' = r
    BY <1>7 DEF EndSession
  <2>2. r \in ReceiverProcesses /\ r.at = "answered" /\ r.key # None
    BY <1>1, <1>7 DEF ReceiverProcesses, Phases
  <2> HIDE DEF r
  <2> QED
    BY <1>1, <1>3, <1>7, <2>1, <2>2 DEF ReceiverLinked
<1>8. CASE Answer \/ AnswerFails
  <2>1. wraps' \subseteq Wraps
    BY <1>1, <1>8, ReplyWrap, SendKeepsType DEF Answer, AnswerFails
  <2> QED
    BY <1>7, <1>8, <2>1 DEF Answer, AnswerFails
<1>9. CASE HearNothingR \/ ListenFails
  BY <1>1, <1>7, <1>9 DEF HearNothingR, ListenFails
<1>10. CASE Persist
  <2> DEFINE r == [rproc EXCEPT !.at = "saved"]
  <2>1. rproc' = r /\ r \in ReceiverProcesses /\ r.at = "saved" /\ r.key # None
    BY <1>1, <1>10 DEF Persist, ReceiverProcesses, Phases
  <2>2. rfile' \in [key : Keys \cup {None}, seen : SUBSET Coins]
    BY <1>1, <1>10 DEF Persist, ReceiverProcesses
  <2> HIDE DEF r
  <2> QED
    BY <1>1, <1>3, <1>10, <2>1, <2>2 DEF Persist, ReceiverLinked
<1>11. CASE Finish
  <2> DEFINE r == [rproc EXCEPT !.at = "listening", !.outcome = "none"]
  <2>1. r \in ReceiverProcesses /\ r.at = "listening" /\ r.key # None
    BY <1>1, <1>11 DEF Finish, ReceiverProcesses, Phases
  <2>2. rproc' = r \/ rproc' = Idle
    BY <1>11 DEF Finish
  <2>0. Idle.at = "down"
    BY DEF Idle
  <2> HIDE DEF r
  <2>3. rproc' \in ReceiverProcesses /\ ReceiverLinked'
    BY <1>2, <2>0, <2>1, <2>2 DEF ReceiverLinked
  <2>4. /\ rfile' \in [key : Keys \cup {None}, seen : SUBSET Coins]
        /\ spentKeys' \subseteq Keys
    <3>1. rproc.key \in Keys
      BY <1>1, <1>11 DEF Finish, ReceiverProcesses
    <3>2. UNCHANGED rfile \/ rfile' = NoSession
      BY <1>11 DEF Finish
    <3>3. spentKeys' \subseteq spentKeys \cup {rproc.key}
      BY <1>11 DEF Finish
    <3>4. NoSession \in [key : Keys \cup {None}, seen : SUBSET Coins]
      BY DEF NoSession
    <3> QED
      BY <1>1, <3>1, <3>2, <3>3, <3>4
  <2> QED
    BY <1>1, <1>3, <1>11, <2>3, <2>4 DEF Finish
<1>12. CASE CrashR
  BY <1>1, <1>2, <1>3, <1>12 DEF CrashR, ReceiverLinked, Idle
<1> QED
  BY <1>4, <1>5, <1>6, <1>8, <1>9, <1>10, <1>11, <1>12 DEF ReceiverNext

LEMMA TypeStep == TypeInv /\ [Next]_vars => TypeInv'
<1> SUFFICES ASSUME TypeInv, [Next]_vars PROVE TypeInv'
  OBVIOUS
<1>1. CASE Next
  BY <1>1, PayerType, ReceiverType DEF Next, Payer, Owner
<1>2. CASE UNCHANGED vars
  BY <1>2 DEF vars, senderVars, receiverVars, TypeInv, TypeOK, PayerLinked,
     ReceiverLinked, Begun
<1> QED
  BY <1>1, <1>2

LEMMA TypeInvariance == Spec => []TypeInv
  BY TypeInit, TypeStep, PTL DEF Spec

\* Whatever fails, every file and every process holds what the programs expect:
\* a resumed run always finds the payment its file names.
THEOREM TypeCorrect == Spec => []TypeOK
<1>1. TypeInv => TypeOK
  BY DEF TypeInv
<1> QED
  BY <1>1, TypeInvariance, PTL

-----------------------------------------------------------------------------
(* The replay guard                                                        *)

\* What is on the relays is about payments that were begun.
WrapsRight ==
    \A w \in wraps :
        /\ w.leg = "original" => w.from \in Begun /\ w.coin = payments[w.from].coin
        /\ w.leg = "proposal" => w.to \in Begun /\ w.from \in issued

\* The file is the running process's or is gone, and lags behind its memory.
SessionKnown ==
    /\ rproc.at = "down" => rproc.key = None
    /\ rfile.key = None => rfile = NoSession
    /\ rfile.key # None => rfile.key \in issued
    /\ rproc.at # "down" => /\ rproc.key \in issued
                            /\ rfile.key \in {None, rproc.key}
                            /\ rfile.seen \subseteq rproc.seen

\* Coins that were answered are in memory and, but for the moment between a reply
\* and its save, on disk.
Remembered ==
    /\ rproc.at # "down" => OfferedFor(rproc.key) \subseteq rproc.seen
    /\ rproc.at # "answered" /\ rfile.key # None =>
         OfferedFor(rfile.key) \subseteq rfile.seen

\* The proposal to be sent is the first for its coin.
AnswerFresh ==
    rproc.at = "answering" /\ rproc.offer # None =>
        /\ rproc.peer \in Begun
        /\ payments[rproc.peer].coin \in rproc.seen \ OfferedFor(rproc.key)

GInv == WrapsRight /\ SessionKnown /\ Remembered /\ AnswerFresh /\ OneProposalPerCoin

-----------------------------------------------------------------------------

LEMMA ReplayInit == Init => GInv
<1> SUFFICES ASSUME Init PROVE GInv
  OBVIOUS
<1>1. /\ wraps = {} /\ rfile = NoSession /\ rfile.key = None
      /\ rproc.at = "down" /\ rproc.key = None
  BY DEF Init, ReceiverInit, Idle, NoSession
<1> QED
  BY <1>1 DEF GInv, WrapsRight, SessionKnown, Remembered, AnswerFresh,
     OneProposalPerCoin

\* A payer adds payments, and requests for payments it began.
LEMMA PayerAdds ==
    ASSUME TypeInv, NEW p \in Procs, SenderNext(p, issued)
    PROVE  /\ Begun \subseteq Begun'
           /\ \A q \in Begun : payments'[q] = payments[q]
           /\ wraps \subseteq wraps'
           /\ \A w \in wraps' \ wraps :
                /\ w.leg = "original" /\ w.from \in Begun
                /\ w.coin = payments[w.from].coin
<1>1. ASSUME NEW q \in Pids, NEW c \in Coins, Start(p, q, c)
      PROVE  wraps' = wraps /\ \A o \in Begun : payments'[o] = payments[o]
  BY <1>1 DEF Start, TypeInv, TypeOK, Begun
<1>2. CASE Publish(p) \/ PublishFails(p)
  <2> DEFINE q == proc[p].pid
  <2>1. q \in Begun
    BY <1>2 DEF TypeInv, PayerLinked, Publish, PublishFails
  <2>2. /\ Request(q) \in Wraps /\ wraps \subseteq Wraps
        /\ Request(q).leg = "original" /\ Request(q).from = q
        /\ Request(q).coin = payments[q].coin
    BY <2>1, RequestWrap DEF TypeInv, TypeOK, Request, Envelope
  <2>3. wraps' = wraps \/ \E w \in Wraps : /\ wraps' = wraps \cup {w}
                                           /\ w.leg = "original" /\ w.from = q
                                           /\ w.coin = payments[q].coin
    BY <1>2, <2>2, PostedAdds DEF Publish, PublishFails, Send, SendFails
  <2>4. payments' = payments
    BY <1>2 DEF Publish, PublishFails
  <2> QED
    BY <2>1, <2>3, <2>4 DEF Begun
<1>3. CASE \/ \E uri \in issued \cup {None}, flags \in Flags : Invoke(p, uri, flags)
           \/ Abandon(p) \/ Refuse(p) \/ CannotBegin(p) \/ ResumeSettled(p) \/ Resume(p)
           \/ RecordPublished(p) \/ HearProposal(p) \/ HearError(p) \/ HearNothing(p)
           \/ RejectProposal(p) \/ KeepOpen(p) \/ EndDryRun(p) \/ Settle(p)
           \/ SettleFails(p) \/ Clear(p) \/ Crash(p)
  <2>1. UNCHANGED <<wraps, payments>>
    BY <1>3 DEF Invoke, Abandon, Refuse, CannotBegin, ResumeSettled, Resume,
       RecordPublished, HearProposal, HearError, HearNothing, RejectProposal, KeepOpen,
       EndDryRun, Settle, SettleFails, Clear, Crash
  <2> QED
    BY <2>1 DEF Begun
<1>4. ASSUME wraps' = wraps, \A o \in Begun : payments'[o] = payments[o]
      PROVE  Begun \subseteq Begun'
  BY <1>4 DEF Begun
<1> QED
  BY <1>1, <1>2, <1>3, <1>4 DEF SenderNext, Work

\* So no payer touches what the receiver relies on.
LEMMA PayerHarmless ==
    ASSUME TypeInv, GInv, NEW p \in Procs, SenderNext(p, issued), UNCHANGED receiverVars
    PROVE  GInv'
<1>1. /\ Begun \subseteq Begun' /\ wraps \subseteq wraps'
      /\ \A q \in Begun : payments'[q] = payments[q]
      /\ \A w \in wraps' \ wraps : /\ w.leg = "original" /\ w.from \in Begun
                                   /\ w.coin = payments[w.from].coin
  BY PayerAdds
<1>2. UNCHANGED <<rfile, rproc, issued>>
  BY DEF receiverVars
<1>3. WrapsRight'
  BY <1>1, <1>2 DEF GInv, WrapsRight
<1>4. \A k : OfferedFor(k)' = OfferedFor(k)
  <2> SUFFICES ASSUME NEW k PROVE OfferedFor(k)' = OfferedFor(k)
    OBVIOUS
  <2>1. {x \in wraps' : x.leg = "proposal" /\ x.from = k}
          = {x \in wraps : x.leg = "proposal" /\ x.from = k}
    BY <1>1
  <2>2. \A x \in wraps : x.leg = "proposal" => payments'[x.to] = payments[x.to]
    BY <1>1 DEF GInv, WrapsRight
  <2> QED
    BY <2>1, <2>2 DEF OfferedFor
<1>5. SessionKnown'
  BY <1>2 DEF GInv, SessionKnown
<1>6. Remembered'
  BY <1>2, <1>4 DEF GInv, Remembered
<1>7. AnswerFresh'
  BY <1>1, <1>2, <1>4 DEF GInv, AnswerFresh
<1>8. OneProposalPerCoin'
  BY <1>1 DEF GInv, WrapsRight, OneProposalPerCoin
<1> QED
  BY <1>3, <1>5, <1>6, <1>7, <1>8 DEF GInv

-----------------------------------------------------------------------------
(* The receiver's steps                                                    *)

\* A step that sends nothing.
LEMMA Silent ==
    ASSUME GInv, UNCHANGED <<wraps, payments>>, issued \subseteq issued',
           SessionKnown',
           rproc'.at # "down" => OfferedFor(rproc'.key) \subseteq rproc'.seen,
           rproc'.at # "answered" /\ rfile'.key # None =>
             OfferedFor(rfile'.key) \subseteq rfile'.seen,
           rproc'.at = "answering" /\ rproc'.offer # None =>
             /\ rproc'.peer \in Begun
             /\ payments[rproc'.peer].coin \in rproc'.seen \ OfferedFor(rproc'.key)
    PROVE  GInv'
<1>1. \A k : OfferedFor(k)' = OfferedFor(k)
  BY DEF OfferedFor
<1>2. Begun' = Begun
  BY DEF Begun
<1>3. WrapsRight' /\ OneProposalPerCoin'
  BY <1>2 DEF GInv, WrapsRight, OneProposalPerCoin
<1>4. Remembered'
  BY <1>1 DEF Remembered
<1>5. AnswerFresh'
  BY <1>1, <1>2 DEF AnswerFresh
<1> QED
  BY <1>3, <1>4, <1>5 DEF GInv

LEMMA ServeStep ==
    ASSUME TypeInv, GInv, NEW keep \in KeepAlive, NEW k \in Keys, Serve(keep, k),
           UNCHANGED senderVars
    PROVE  GInv'
<1>1. /\ rfile'.key = k /\ rfile'.seen = rfile.seen
      /\ rproc'.at = "listening" /\ rproc'.key = k /\ rproc'.seen = rfile.seen
      /\ issued' = issued \cup {k} /\ UNCHANGED wraps
  BY DEF TypeInv, TypeOK, Serve, Idle
<1>2. k # None
  BY RelaysAssumption, ReceiverAssumption
<1>3. OfferedFor(k) \subseteq rfile.seen
  <2>1. CASE rfile = NoSession
    BY <2>1 DEF Serve, GInv, WrapsRight, OfferedFor
  <2>2. CASE rfile # NoSession
    BY <2>2, <1>2 DEF Serve, GInv, Remembered
  <2> QED
    BY <2>1, <2>2
<1>4. SessionKnown'
  BY <1>1, <1>2 DEF SessionKnown
<1> QED
  BY <1>1, <1>3, <1>4, Silent DEF senderVars

LEMMA CollectStep ==
    ASSUME TypeInv, GInv, Collect, UNCHANGED senderVars
    PROVE  GInv'
<1>1. PICK w \in Undelivered(rproc.key, rproc.delivered),
           v \in Verdicts, c \in rproc.view :
        /\ w.leg = "original"
        /\ rproc' = [rproc EXCEPT !.at = "answering", !.peer = w.from,
                                  !.delivered = @ \cup {w},
                                  !.offer = Judged(v, c, w.coin).offer,
                                  !.seen = Judged(v, c, w.coin).seen]
  BY DEF Collect
<1>2. /\ rproc'.at = "answering" /\ rproc'.peer = w.from /\ rproc'.key = rproc.key
      /\ rproc'.offer = Judged(v, c, w.coin).offer
      /\ rproc'.seen = Judged(v, c, w.coin).seen
  BY <1>1 DEF TypeInv, TypeOK, ReceiverProcesses
<1>3. w \in wraps /\ w.from \in Begun /\ w.coin = payments[w.from].coin
  BY <1>1 DEF Undelivered, GInv, WrapsRight
<1>4. /\ rproc.seen \subseteq rproc'.seen
      /\ rproc'.offer # None => w.coin \in rproc'.seen /\ w.coin \notin rproc.seen
  BY <1>2 DEF Judged
<1>5. /\ rproc.at = "listening"
      /\ UNCHANGED <<wraps, rfile, issued, payments>>
  BY DEF Collect, senderVars
<1>6. SessionKnown'
  BY <1>2, <1>4, <1>5 DEF GInv, SessionKnown
<1>7. OfferedFor(rproc.key) \subseteq rproc.seen
  BY <1>5 DEF GInv, Remembered
<1> QED
  BY <1>2, <1>3, <1>4, <1>5, <1>6, <1>7, Silent DEF GInv, Remembered

\* The reply reaches the relays: a refusal, or the first proposal for its coin.
LEMMA ReplySent ==
    ASSUME TypeInv, GInv, rproc.at = "answering", NEW w \in Wraps,
           wraps' = wraps \cup {w},
           w.leg = Reply.leg, w.from = Reply.from, w.to = Reply.to,
           rproc'.at = "answered", rproc'.key = rproc.key, rproc'.seen = rproc.seen,
           UNCHANGED <<rfile, issued, payments>>
    PROVE  GInv'
<1>1. /\ w.from = rproc.key /\ w.to = rproc.peer
      /\ w.leg = IF rproc.offer = None THEN "error" ELSE "proposal"
  BY DEF Reply, Envelope
<1>2. w.leg = "proposal" =>
        /\ w.to \in Begun
        /\ payments[w.to].coin \in rproc.seen \ OfferedFor(rproc.key)
  BY <1>1 DEF GInv, AnswerFresh
<1>3. Begun' = Begun
  BY DEF Begun
<1>4. WrapsRight'
  BY <1>1, <1>2, <1>3 DEF GInv, WrapsRight, SessionKnown
<1>5. SessionKnown'
  BY DEF GInv, SessionKnown
<1>6. OfferedFor(rproc.key)' \subseteq rproc.seen
  <2>1. OfferedFor(rproc.key) \subseteq rproc.seen
    BY DEF GInv, Remembered
  <2>2. OfferedFor(rproc.key)' \subseteq
          OfferedFor(rproc.key) \cup (IF w.leg = "proposal" THEN {payments[w.to].coin}
                                                           ELSE {})
    BY DEF OfferedFor
  <2> QED
    BY <1>2, <2>1, <2>2
<1>7. Remembered' /\ AnswerFresh'
  BY <1>6 DEF Remembered, AnswerFresh
<1>8. OneProposalPerCoin'
  <2>1. \A v \in wraps : v.leg = "proposal" /\ v.from = rproc.key =>
          payments[v.to].coin \in OfferedFor(rproc.key)
    BY DEF OfferedFor
  <2> QED
    BY <1>1, <1>2, <2>1 DEF GInv, OneProposalPerCoin
<1> QED
  BY <1>4, <1>5, <1>7, <1>8 DEF GInv

LEMMA AnswerStep ==
    ASSUME TypeInv, GInv, Answer \/ AnswerFails, UNCHANGED senderVars
    PROVE  GInv'
<1>1. /\ rproc.at = "answering"
      /\ rproc'.at = "answered" /\ rproc'.key = rproc.key /\ rproc'.seen = rproc.seen
      /\ UNCHANGED <<rfile, issued, payments>>
      /\ Send(Reply) \/ SendFails(Reply)
  BY DEF Answer, AnswerFails, EndSession, TypeInv, TypeOK, ReceiverProcesses, senderVars
<1>2. Reply \in Wraps /\ wraps \subseteq Wraps
  BY <1>1, ReplyWrap DEF TypeInv, TypeOK
<1>3. wraps' = wraps \/ \E w \in Wraps : /\ wraps' = wraps \cup {w}
                                         /\ w.leg = Reply.leg /\ w.from = Reply.from
                                         /\ w.to = Reply.to
  BY <1>1, <1>2, PostedAdds DEF Send, SendFails
<1>4. CASE wraps' = wraps
  <2>1. SessionKnown'
    BY <1>1 DEF GInv, SessionKnown
  <2> QED
    BY <1>1, <1>4, <2>1, Silent DEF GInv, Remembered
<1> QED
  BY <1>1, <1>3, <1>4, ReplySent

LEMMA ReceiverGuards ==
    ASSUME "answered" \notin KillableAt, TypeInv, GInv, ReceiverNext,
           UNCHANGED senderVars
    PROVE  GInv' /\ (rfile'.key = rfile.key => rfile.seen \subseteq rfile'.seen)
<1>1. /\ rproc \in ReceiverProcesses /\ UNCHANGED payments
      /\ rproc.at # "down" => rproc.key # None
      /\ rfile \in [key : Keys \cup {None}, seen : SUBSET Coins]
  BY DEF TypeInv, TypeOK, ReceiverLinked, senderVars
<1>2. ASSUME NEW keep \in KeepAlive, NEW k \in Keys, Serve(keep, k)
      PROVE  GInv' /\ rfile'.seen = rfile.seen
  BY <1>1, <1>2, ServeStep DEF Serve
<1>3. CASE Reset
  <2>1. /\ rfile' = NoSession /\ rfile'.key = None /\ rfile'.seen = {}
        /\ rfile.key # None
        /\ UNCHANGED <<wraps, rproc, issued>>
    BY <1>3 DEF Reset, NoSession, GInv, SessionKnown
  <2>2. SessionKnown'
    BY <2>1 DEF GInv, SessionKnown
  <2> QED
    BY <1>1, <2>1, <2>2, Silent DEF GInv, Remembered, AnswerFresh
<1>4. CASE Collect
  BY <1>4, CollectStep DEF Collect
<1>5. CASE Answer \/ AnswerFails
  BY <1>5, AnswerStep DEF Answer, AnswerFails
<1>6. CASE HearNothingR \/ ListenFails
  <2>1. /\ rproc.at = "listening" /\ rproc'.at = "answered"
        /\ rproc'.key = rproc.key /\ rproc'.seen = rproc.seen
        /\ UNCHANGED <<wraps, rfile, issued>>
    BY <1>1, <1>6 DEF HearNothingR, ListenFails, EndSession, ReceiverProcesses
  <2>2. SessionKnown'
    BY <2>1 DEF GInv, SessionKnown
  <2> QED
    BY <1>1, <2>1, <2>2, Silent DEF GInv, Remembered
<1>7. CASE Persist
  <2>1. /\ rproc.at = "answered" /\ rproc'.at = "saved"
        /\ rproc'.key = rproc.key /\ rproc'.seen = rproc.seen
        /\ rfile'.key = rproc.key /\ rfile'.seen = rproc.seen
        /\ UNCHANGED <<wraps, issued>>
    BY <1>1, <1>7 DEF Persist, ReceiverProcesses
  <2>2. rproc.key # None /\ rproc.key \in issued /\ rfile.seen \subseteq rproc.seen
    BY <1>1, <2>1 DEF GInv, SessionKnown
  <2>3. SessionKnown'
    BY <2>1, <2>2 DEF SessionKnown
  <2> QED
    BY <1>1, <2>1, <2>2, <2>3, Silent DEF GInv, Remembered
<1>8. CASE Finish
  <2>1. /\ rproc.at = "saved"
        /\ \/ rproc'.at = "down" /\ rproc'.key = None
           \/ /\ rproc'.at = "listening"
              /\ rproc'.key = rproc.key /\ rproc'.seen = rproc.seen
        /\ UNCHANGED <<wraps, issued>>
    BY <1>1, <1>8 DEF Finish, Idle, ReceiverProcesses
  <2>2. rfile' = rfile \/ (rfile' = NoSession /\ rfile'.key = None /\ rfile'.seen = {})
    BY <1>8 DEF Finish, NoSession
  <2>3. SessionKnown'
    BY <2>1, <2>2 DEF GInv, SessionKnown
  <2>4. rfile'.key = rfile.key => rfile.seen \subseteq rfile'.seen
    BY <2>2 DEF GInv, SessionKnown, NoSession
  <2> QED
    BY <1>1, <2>1, <2>2, <2>3, <2>4, Silent DEF GInv, Remembered
<1>9. CASE CrashR
  <2>1. /\ rproc.at # "answered" /\ rproc'.at = "down" /\ rproc'.key = None
        /\ UNCHANGED <<wraps, rfile, issued>>
    BY <1>9 DEF CrashR, Idle
  <2>2. SessionKnown'
    BY <2>1 DEF GInv, SessionKnown
  <2> QED
    BY <1>1, <2>1, <2>2, Silent DEF GInv, Remembered
<1> QED
  BY <1>2, <1>3, <1>4, <1>5, <1>6, <1>7, <1>8, <1>9 DEF ReceiverNext

-----------------------------------------------------------------------------
(* The induction                                                           *)

LEMMA ReplayStep ==
    ASSUME "answered" \notin KillableAt, TypeInv, GInv, [Next]_vars
    PROVE  GInv' /\ (rfile'.key = rfile.key => rfile.seen \subseteq rfile'.seen)
<1>1. ASSUME NEW p \in Procs, Payer(SenderNext(p, issued))
      PROVE  GInv' /\ rfile' = rfile
  BY <1>1, PayerHarmless DEF Payer, receiverVars
<1>2. CASE Owner(ReceiverNext)
  BY <1>2, ReceiverGuards DEF Owner
<1>3. CASE UNCHANGED vars
  <2>1. UNCHANGED <<wraps, payments, rfile, rproc, issued>>
    BY <1>3 DEF vars, senderVars, receiverVars
  <2> QED
    BY <2>1 DEF GInv, WrapsRight, SessionKnown, Remembered, AnswerFresh, Begun,
       OfferedFor, OneProposalPerCoin
<1> QED
  BY <1>1, <1>2, <1>3 DEF Next

LEMMA ReplayInvariance == "answered" \notin KillableAt => (Spec => []GInv)
<1> SUFFICES ASSUME "answered" \notin KillableAt PROVE Spec => []GInv
  OBVIOUS
<1>1. TypeInv /\ GInv /\ [Next]_vars => GInv'
  BY ReplayStep
<1> QED
  BY <1>1, TypeInvariance, ReplayInit, PTL DEF Spec

\* However often a request is sent, stored or handed over, the receiver answers its
\* coin with one proposal.
THEOREM AnswersOnce == "answered" \notin KillableAt => (Spec => []OneProposalPerCoin)
<1> SUFFICES ASSUME "answered" \notin KillableAt PROVE Spec => []OneProposalPerCoin
  OBVIOUS
<1>1. GInv => OneProposalPerCoin
  BY DEF GInv
<1>2. Spec => []GInv
  BY ReplayInvariance
<1> QED
  BY <1>1, <1>2, PTL

\* What it answered is in its memory, and on disk when it is not running.
THEOREM RemembersAnswers ==
    "answered" \notin KillableAt => (Spec => []AnsweredIsRemembered)
<1> SUFFICES ASSUME "answered" \notin KillableAt PROVE Spec => []AnsweredIsRemembered
  OBVIOUS
<1>1. TypeInv /\ GInv => AnsweredIsRemembered
  <2> SUFFICES ASSUME TypeInv, GInv, NEW k \in Keys
               PROVE  /\ rproc.key = k => OfferedFor(k) \subseteq rproc.seen
                      /\ rfile.key = k /\ rproc.at = "down" =>
                           OfferedFor(k) \subseteq rfile.seen
    BY DEF AnsweredIsRemembered
  <2>1. k # None
    BY RelaysAssumption
  <2>2. rproc.key = k => rproc.at # "down"
    BY <2>1 DEF GInv, SessionKnown
  <2> QED
    BY <2>1, <2>2 DEF GInv, Remembered
<1>2. Spec => []GInv
  BY ReplayInvariance
<1> QED
  BY <1>1, <1>2, TypeInvariance, PTL

\* The session of the running process is that of the file, or the file is gone, wherever
\* a run is killed.
LEMMA SessionStep ==
    ASSUME TypeInv, SessionKnown, [Next]_vars
    PROVE  SessionKnown' /\ (rfile'.key = rfile.key => rfile.seen \subseteq rfile'.seen)
<1>1. /\ rproc \in ReceiverProcesses
      /\ rfile \in [key : Keys \cup {None}, seen : SUBSET Coins]
      /\ rproc.at # "down" => rproc.key # None
  BY DEF TypeInv, TypeOK, ReceiverLinked
<1>2. ASSUME NEW keep \in KeepAlive, NEW k \in Keys, Serve(keep, k)
      PROVE  SessionKnown' /\ rfile'.seen = rfile.seen
  <2>1. /\ rfile' = [rfile EXCEPT !.key = k] /\ issued' = issued \cup {k}
        /\ rproc'.at = "listening" /\ rproc'.key = k /\ rproc'.seen = rfile.seen
    BY <1>2 DEF Serve, Idle
  <2>2. rfile'.key = k /\ rfile'.seen = rfile.seen /\ k # None
    BY <1>1, <2>1, RelaysAssumption
  <2> QED
    BY <2>1, <2>2 DEF SessionKnown
<1>3. CASE Reset
  BY <1>3 DEF Reset, NoSession, SessionKnown
<1>4. CASE Collect \/ Answer \/ AnswerFails \/ HearNothingR \/ ListenFails
  <2>1. /\ rproc.at # "down" /\ rproc'.at # "down" /\ rproc'.key = rproc.key
        /\ rproc.seen \subseteq rproc'.seen /\ UNCHANGED <<rfile, issued>>
    <3>1. CASE Collect
      BY <1>1, <3>1 DEF Collect, Judged, ReceiverProcesses
    <3>2. CASE ~Collect
      BY <1>1, <1>4, <3>2 DEF Answer, AnswerFails, HearNothingR, ListenFails, EndSession,
         ReceiverProcesses
    <3> QED
      BY <3>1, <3>2
  <2> QED
    BY <2>1 DEF SessionKnown
<1>5. CASE Persist
  <2>1. /\ rproc.at # "down" /\ rproc'.at # "down" /\ rproc'.key = rproc.key
        /\ rproc'.seen = rproc.seen
        /\ rfile'.key = rproc.key /\ rfile'.seen = rproc.seen /\ issued' = issued
    BY <1>1, <1>5 DEF Persist, ReceiverProcesses
  <2> QED
    BY <1>1, <2>1 DEF SessionKnown
<1>6. CASE Finish
  <2>1. /\ rproc.at # "down" /\ issued' = issued
        /\ \/ rproc'.at = "down" /\ rproc'.key = None
           \/ /\ rproc'.at = "listening"
              /\ rproc'.key = rproc.key /\ rproc'.seen = rproc.seen
    BY <1>1, <1>6 DEF Finish, Idle, ReceiverProcesses
  <2>2. rfile' = rfile \/ (rfile' = NoSession /\ rfile'.key = None /\ rfile'.seen = {})
    BY <1>6 DEF Finish, NoSession
  <2> QED
    BY <1>1, <2>1, <2>2 DEF SessionKnown, NoSession
<1>7. CASE CrashR
  BY <1>7 DEF CrashR, Idle, SessionKnown
<1>8. ASSUME UNCHANGED receiverVars PROVE SessionKnown' /\ rfile' = rfile
  BY <1>8 DEF receiverVars, SessionKnown
<1> QED
  BY <1>2, <1>3, <1>4, <1>5, <1>6, <1>7, <1>8
     DEF Next, Payer, Owner, ReceiverNext, vars

\* As long as a key's session file is there it forgets no coin it has seen, wherever
\* runs are killed and whoever resets the file.
THEOREM NeverForgets == Spec => SeenOnlyGrows
<1>1. Init => SessionKnown
  BY DEF Init, ReceiverInit, Idle, NoSession, SessionKnown
<1>2. TypeInv /\ SessionKnown /\ [Next]_vars => SessionKnown'
  BY SessionStep
<1>3. TypeInv /\ SessionKnown /\ [Next]_vars =>
        [rfile'.key = rfile.key => rfile.seen \subseteq rfile'.seen]_vars
  BY SessionStep
<1> QED
  BY <1>1, <1>2, <1>3, TypeInvariance, PTL DEF Spec, SeenOnlyGrows

-----------------------------------------------------------------------------
(* The spent key                                                           *)

\* A receiver that serves one payjoin per run: its key, in memory or on disk, was printed
\* and is not that of a completed payjoin.
KeysRight ==
    /\ spentKeys \subseteq issued
    /\ rfile.key # None => rfile.key \in issued \ spentKeys
    /\ rproc.at # "down" => rproc.key \in issued \ spentKeys /\ ~rproc.keep

LEMMA KeysStep ==
    ASSUME KeepAlive = {FALSE}, TypeInv, KeysRight, [Next]_vars
    PROVE  KeysRight'
<1>1. /\ rproc \in ReceiverProcesses
      /\ rfile \in [key : Keys \cup {None}, seen : SUBSET Coins]
      /\ issued \subseteq Keys
      /\ rproc.at # "down" => rproc.key # None
  BY DEF TypeInv, TypeOK, ReceiverLinked
<1>2. ASSUME NEW k \in Keys, Serve(FALSE, k)
      PROVE  KeysRight'
  <2>1. /\ rfile'.key = k /\ rproc'.key = k /\ rproc'.keep = FALSE
        /\ issued' = issued \cup {k} /\ UNCHANGED spentKeys
    BY <1>1, <1>2 DEF Serve, Idle
  <2>2. k \notin spentKeys
    <3>1. CASE rfile = NoSession
      BY <1>2, <3>1 DEF Serve, KeysRight
    <3>2. CASE rfile # NoSession
      BY <1>2, <3>2, RelaysAssumption DEF Serve, KeysRight
    <3> QED
      BY <3>1, <3>2
  <2> QED
    BY <2>1, <2>2 DEF KeysRight
<1>3. CASE Reset
  BY <1>3 DEF Reset, NoSession, KeysRight
<1>4. CASE Collect \/ Answer \/ AnswerFails \/ HearNothingR \/ ListenFails
  <2>1. /\ rproc.at # "down" /\ rproc'.key = rproc.key /\ rproc'.keep = rproc.keep
        /\ UNCHANGED <<rfile, issued, spentKeys>>
    <3>1. CASE Collect
      BY <1>1, <3>1 DEF Collect, ReceiverProcesses
    <3>2. CASE ~Collect
      BY <1>1, <1>4, <3>2 DEF Answer, AnswerFails, HearNothingR, ListenFails, EndSession,
         ReceiverProcesses
    <3> QED
      BY <3>1, <3>2
  <2> QED
    BY <2>1 DEF KeysRight
<1>5. CASE Persist
  <2>1. /\ rproc.at # "down" /\ rproc'.key = rproc.key /\ rproc'.keep = rproc.keep
        /\ rfile'.key = rproc.key /\ UNCHANGED <<issued, spentKeys>>
    BY <1>1, <1>5 DEF Persist, ReceiverProcesses
  <2> QED
    BY <2>1 DEF KeysRight
\* The run that completes a payjoin ends with it.
<1>6. CASE Finish
  <2>1. rproc.at # "down" /\ ~rproc.keep /\ rproc.key \in issued
    BY <1>6 DEF Finish, KeysRight
  <2>2. rproc'.at = "down" /\ issued' = issued
    BY <1>6, <2>1 DEF Finish, Idle
  <2>3. \/ rfile' = rfile /\ spentKeys' = spentKeys
        \/ rfile'.key = None /\ spentKeys' = spentKeys \cup {rproc.key}
    BY <1>6 DEF Finish, NoSession
  <2> QED
    BY <2>1, <2>2, <2>3 DEF KeysRight
<1>7. CASE CrashR
  BY <1>7 DEF CrashR, Idle, KeysRight
<1>8. ASSUME UNCHANGED receiverVars PROVE KeysRight'
  BY <1>8 DEF receiverVars, KeysRight
<1> QED
  BY <1>2, <1>3, <1>4, <1>5, <1>6, <1>7, <1>8
     DEF Next, Payer, Owner, ReceiverNext, vars

\* A run without --keep-alive ends with the payjoin it completes, and the key it deleted
\* comes back to no session file, whenever it is killed and whoever resets the file.
THEOREM ForgetsSpentKey == KeepAlive = {FALSE} => (Spec => []SpentSecretGone)
<1> SUFFICES ASSUME KeepAlive = {FALSE} PROVE Spec => []SpentSecretGone
  OBVIOUS
<1>1. Init => KeysRight
  BY DEF Init, ReceiverInit, Idle, NoSession, KeysRight
<1>2. TypeInv /\ KeysRight /\ [Next]_vars => KeysRight'
  BY KeysStep
<1>3. TypeInv /\ KeysRight => SpentSecretGone
  BY RelaysAssumption DEF TypeInv, TypeOK, KeysRight, SpentSecretGone
<1> QED
  BY <1>1, <1>2, <1>3, TypeInvariance, PTL DEF Spec
=============================================================================
