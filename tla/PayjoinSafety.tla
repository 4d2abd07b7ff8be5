--------------------------- MODULE PayjoinSafety ----------------------------
(***************************************************************************)
(* Payers who keep a session file and a wallet for each terminal never pay *)
(* a URI twice, and are never told that they paid when they did not.  They *)
(* implement the ledger, and what a session file says of its request is    *)
(* right at every moment and after every kill.                             *)
(***************************************************************************)
EXTENDS PayjoinProofs

\* The invariant, with the property that needs it most in the induction: that a
\* new transaction does not pay an URI again follows from what was told.
SInv ==
    /\ TypeInv
    /\ Books
    /\ \A p \in Procs : RunFits(p)
    /\ ~MayAbandon => NoDoublePayment
    /\ ToldIsPaid

-----------------------------------------------------------------------------
(* Whose coins are whose                                                   *)

\* The payment in a terminal's file reserves a coin of that terminal's wallet.
LEMMA HeldCoin ==
    ASSUME Exclusive, TypeInv, Books, NEW p \in Procs,
           file[FileOf[p]].pid # None
    PROVE  /\ file[FileOf[p]].pid \in Begun
           /\ payments[file[FileOf[p]].pid].coin \in CoinsOf[p]
           /\ payments[file[FileOf[p]].pid].by = FileOf[p]
<1>1. FileOf[p] \in Files
  BY SenderAssumption
<1>2. /\ file[FileOf[p]].pid \in Begun
      /\ payments[file[FileOf[p]].pid].by = FileOf[p]
  BY <1>1 DEF TypeInv, PayerLinked, Books, OpenPayment
<1>3. PICK q \in Procs : /\ payments[file[FileOf[p]].pid].by = FileOf[q]
                         /\ payments[file[FileOf[p]].pid].coin \in CoinsOf[q]
  BY <1>2 DEF Books, CoinsKept
<1> QED
  BY <1>2, <1>3 DEF Exclusive

\* A transaction for the payment in p's file spends no coin of another terminal.
LEMMA OthersCoins ==
    ASSUME Exclusive, TypeInv, Books, NEW p \in Procs, Settles(p), RunFits(p),
           NEW s \in Procs \ {p}
    PROVE  CoinsOf[s] \cap Final(p).coins = {}
<1>1. /\ proc[p].pid = file[FileOf[p]].pid /\ proc[p].pid # None
      /\ proc[p] \in Processes
      /\ proc[p].at = "proposal" => proc[p].offer # None
  BY DEF TypeInv, TypeOK, PayerLinked, RunFits, Settles
<1>2. payments[proc[p].pid].coin \in CoinsOf[p]
  BY <1>1, HeldCoin
<1>3. Final(p).coins \subseteq {payments[proc[p].pid].coin} \cup ReceiverCoins
  BY <1>1 DEF Final, PayjoinTx, Fallback, Transaction, Processes
<1> QED
  BY <1>2, <1>3 DEF Exclusive

-----------------------------------------------------------------------------
(* What a step leaves alone                                                *)

\* The run of another terminal does not notice.
LEMMA OtherRun ==
    ASSUME Exclusive, TypeInv, Books, NEW s \in Procs, RunFits(s),
           proc'[s] = proc[s],
           file'[FileOf[s]].pid = file[FileOf[s]].pid,
           told'[FileOf[s]] = told[FileOf[s]],
           \A q \in Begun : payments'[q] = payments[q],
           chain \subseteq chain', CoinsOf[s] \cap Spent' = CoinsOf[s] \cap Spent
    PROVE  RunFits(s)'
<1>1. Paid \subseteq Paid'
  BY DEF Paid
<1>2. proc[s].at \in Working \cup {"done"} =>
        /\ proc[s].pid \in Begun /\ payments[proc[s].pid].coin \in CoinsOf[s]
        /\ payments'[proc[s].pid] = payments[proc[s].pid]
  <2> HAVE proc[s].at \in Working \cup {"done"}
  <2>1. proc[s].pid = file[FileOf[s]].pid /\ proc[s].pid # None
    BY DEF RunFits, TypeInv, PayerLinked, Working
  <2> QED
    BY <2>1, HeldCoin
<1>3. CoinsOf[s] \ Spent' = CoinsOf[s] \ Spent
  OBVIOUS
<1> QED
  BY <1>1, <1>2, <1>3 DEF RunFits

\* A step that changes nothing but what one process does.
LEMMA MoveStep ==
    ASSUME Exclusive, SInv, NEW p \in Procs,
           \A s \in Procs \ {p} : proc'[s] = proc[s],
           RunFits(p)',
           UNCHANGED <<file, payments, told, chain>>
    PROVE  /\ Books'
           /\ \A s \in Procs : RunFits(s)'
           /\ (~MayAbandon => NoDoublePayment)'
           /\ ToldIsPaid'
<1>1. Books'
  BY DEF SInv, Books, CoinsKept, ChainRight, OpenPayment, PaidKnown, Begun
<1>2. Spent' = Spent
  BY DEF Spent
<1>3. \A s \in Procs \ {p} : RunFits(s)'
  BY <1>2, OtherRun DEF SInv
<1> QED
  BY <1>1, <1>3 DEF SInv, NoDoublePayment, ToldIsPaid

\* A run that ends.
LEMMA ExitStep ==
    ASSUME Exclusive, SInv, NEW p \in Procs, Exit(p),
           UNCHANGED <<file, payments, told, chain>>
    PROVE  /\ Books'
           /\ \A s \in Procs : RunFits(s)'
           /\ (~MayAbandon => NoDoublePayment)'
           /\ ToldIsPaid'
<1>1. proc' = [proc EXCEPT ![p] = Down] /\ proc \in [Procs -> Processes]
  BY DEF Exit, SInv, TypeInv, TypeOK
<1>2. RunFits(p)'
  BY <1>1 DEF RunFits, Down, Working
<1> QED
  BY <1>1, <1>2, MoveStep

-----------------------------------------------------------------------------
(* What a step changes                                                     *)

\* The file is deleted after its payment was paid, given up, or never sent; the
\* URI may only be told if it was paid, and must be told if it was.
LEMMA DeleteStep ==
    ASSUME Exclusive, SInv, NEW p \in Procs, Delete(p),
           file[FileOf[p]].pid # None,
           \A s \in Procs \ {p} : proc'[s] = proc[s], proc'[p].at = "down",
           UNCHANGED <<payments, chain>>,
           LET q == file[FileOf[p]].pid IN
             \/ /\ UNCHANGED told
                /\ MayAbandon \/ q \notin Paid
             \/ /\ Tell(p, payments[q].uri)
                /\ q \in Paid
    PROVE  /\ Books'
           /\ \A s \in Procs : RunFits(s)'
           /\ (~MayAbandon => NoDoublePayment)'
           /\ ToldIsPaid'
<1> DEFINE f == FileOf[p]
           q == file[f].pid
<1>1. /\ f \in Files
      /\ file \in [Files -> SavedPayments]
      /\ told \in [Files -> SUBSET Keys]
      /\ q \in Begun /\ payments[q].by = f
  BY SenderAssumption, HeldCoin DEF SInv, TypeInv, TypeOK
<1>2. /\ file'[f].pid = None
      /\ \A g \in Files \ {f} : file'[g] = file[g]
  BY <1>1 DEF Delete, NoFile
<1>3. /\ \A g \in Files \ {f} : told'[g] = told[g]
      /\ told[f] \subseteq told'[f]
      /\ told'[f] \subseteq told[f] \cup {payments[q].uri}
  BY <1>1 DEF Tell
<1>4. told'[f] # told[f] => q \in Paid
  BY <1>1 DEF Tell
<1>5. q \in Paid /\ ~MayAbandon => payments[q].uri \in told'[f]
  BY <1>1 DEF Tell
<1> HIDE DEF f
<1>6. CoinsKept' /\ ChainRight'
  BY DEF SInv, Books, CoinsKept, ChainRight, Begun
<1>7. OpenPayment'
  BY <1>1, <1>2, <1>3 DEF SInv, Books, OpenPayment
<1>8. PaidKnown'
  <2> SUFFICES ASSUME ~MayAbandon, NEW t \in chain
               PROVE  \/ file'[payments[t.pid].by].pid = t.pid
                      \/ t.uri \in told'[payments[t.pid].by]
    BY DEF PaidKnown
  <2>1. /\ t.pid \in Begun /\ t.uri = payments[t.pid].uri
        /\ payments[t.pid].by \in Files
        /\ \/ file[payments[t.pid].by].pid = t.pid
           \/ t.uri \in told[payments[t.pid].by]
    BY SenderAssumption DEF SInv, Books, ChainRight, PaidKnown, CoinsKept
  <2>2. CASE payments[t.pid].by = f
    BY <1>3, <1>5, <2>1, <2>2 DEF Paid
  <2>3. CASE payments[t.pid].by # f
    BY <1>2, <1>3, <2>1, <2>3
  <2> QED
    BY <2>2, <2>3
<1>9. Spent' = Spent
  BY DEF Spent
<1>10. \A s \in Procs \ {p} : RunFits(s)'
  <2> SUFFICES ASSUME NEW s \in Procs \ {p} PROVE RunFits(s)'
    OBVIOUS
  <2>1. FileOf[s] \in Files \ {f}
    BY SenderAssumption DEF Exclusive, f
  <2> QED
    BY <1>2, <1>3, <1>9, <2>1, OtherRun DEF SInv
<1>11. RunFits(p)'
  BY DEF RunFits, Working
<1>12. ToldIsPaid'
  <2>1. q \in Paid => \E t \in chain : t.pid = q /\ t.uri = payments[q].uri
    BY DEF SInv, Books, ChainRight, Paid
  <2> QED
    BY <1>1, <1>3, <1>4, <2>1 DEF SInv, ToldIsPaid
<1> QED
  BY <1>6, <1>7, <1>8, <1>10, <1>11, <1>12 DEF SInv, Books, NoDoublePayment

\* A transaction for the payment in p's file is accepted.
LEMMA BroadcastStep ==
    ASSUME Exclusive, SInv, NEW p \in Procs, Settles(p), Broadcast(Final(p)),
           \A s \in Procs \ {p} : proc'[s] = proc[s],
           RunFits(p)',
           UNCHANGED <<file, payments, told>>
    PROVE  /\ Books'
           /\ \A s \in Procs : RunFits(s)'
           /\ (~MayAbandon => NoDoublePayment)'
           /\ ToldIsPaid'
<1> DEFINE f == FileOf[p]
           q == file[f].pid
           T == Final(p)
<1>1. /\ proc[p].pid = q /\ q # None /\ f \in Files
      /\ proc[p] \in Processes
      /\ proc[p].at = "proposal" => proc[p].offer # None
  BY SenderAssumption DEF SInv, TypeInv, TypeOK, PayerLinked, RunFits, Settles
<1>2. q \in Begun /\ payments[q].by = f /\ payments[q].coin \in CoinsOf[p]
  BY <1>1, HeldCoin DEF SInv
<1>3. /\ T.pid = q /\ T.uri = payments[q].uri
      /\ payments[q].coin \in T.coins
      /\ T.coins \subseteq {payments[q].coin} \cup ReceiverCoins
  BY <1>1 DEF Final, PayjoinTx, Fallback, Transaction, Processes
<1>4. /\ chain' = chain \cup {T} /\ T.coins \cap Spent = {}
      /\ Spent' = Spent \cup T.coins
  BY DEF Broadcast, Spent
<1>5. \A s \in Procs \ {p} : CoinsOf[s] \cap T.coins = {}
  BY OthersCoins DEF SInv
<1> HIDE DEF T, f
<1>6. CoinsKept'
  BY DEF SInv, Books, CoinsKept, Begun
<1>7. ChainRight'
  BY <1>2, <1>3, <1>4 DEF SInv, Books, ChainRight, Begun, Spent
<1>8. OpenPayment'
  <2> SUFFICES ASSUME NEW g \in Files, file[g].pid # None,
                      payments[file[g].pid].coin \in T.coins
               PROVE  T.pid = file[g].pid
    BY <1>4 DEF SInv, Books, OpenPayment
  <2>1. PICK s \in Procs : /\ payments[file[g].pid].by = FileOf[s]
                           /\ payments[file[g].pid].coin \in CoinsOf[s]
    BY DEF SInv, TypeInv, PayerLinked, Books, CoinsKept
  <2>2. s = p
    BY <1>5, <2>1
  <2>3. payments[file[g].pid].by = g
    BY DEF SInv, Books, OpenPayment
  <2> QED
    BY <1>3, <2>1, <2>2, <2>3 DEF f
<1>9. PaidKnown'
  BY <1>2, <1>3, <1>4 DEF SInv, Books, PaidKnown
<1>10. \A s \in Procs \ {p} : RunFits(s)'
  BY <1>4, <1>5, OtherRun DEF SInv
<1>11. (~MayAbandon => NoDoublePayment)'
  <2> SUFFICES ASSUME ~MayAbandon,
                      NEW t \in chain, t.uri = T.uri,
                      payments[t.pid].by = payments[T.pid].by
               PROVE  FALSE
    BY <1>4 DEF SInv, NoDoublePayment
  <2>1. file[f].pid = t.pid \/ t.uri \in told[f]
    BY <1>2, <1>3 DEF SInv, Books, PaidKnown
  <2>2. t.uri \notin told[f]
    BY <1>1, <1>3 DEF SInv, Books, OpenPayment
  <2>3. payments[q].coin \in t.coins
    BY <2>1, <2>2 DEF SInv, Books, ChainRight
  <2> QED
    BY <1>3, <1>4, <2>3 DEF Spent
<1>12. ToldIsPaid'
  BY <1>4 DEF SInv, ToldIsPaid
<1> QED
  BY <1>6, <1>7, <1>8, <1>9, <1>10, <1>11, <1>12, <1>1 DEF Books

\* A payment is begun in an empty file, with a coin nothing spends.
LEMMA StartStep ==
    ASSUME Exclusive, SInv, NEW p \in Procs, NEW q \in Pids, NEW c \in Coins,
           Start(p, q, c)
    PROVE  /\ Books'
           /\ \A s \in Procs : RunFits(s)'
           /\ (~MayAbandon => NoDoublePayment)'
           /\ ToldIsPaid'
<1> DEFINE f == FileOf[p]
           pay == [by |-> f, coin |-> c, uri |-> proc[p].uri]
<1>1. /\ f \in Files /\ file \in [Files -> SavedPayments]
      /\ proc \in [Procs -> Processes]
      /\ payments \in [Pids -> Payments \cup {None}]
      /\ proc[p].uri \in Keys
      /\ file[f].pid = None
      /\ c \in CoinsOf[p] /\ c \notin Spent
      /\ proc[p].uri \notin told[f]
  <2>1. /\ f \in Files /\ file \in [Files -> SavedPayments]
        /\ proc \in [Procs -> Processes]
        /\ payments \in [Pids -> Payments \cup {None}]
    BY SenderAssumption DEF SInv, TypeInv, TypeOK
  <2>2. proc[p].uri \in Keys
    BY <2>1 DEF Start, StartsNew, Processes
  <2>3. /\ proc[p].pid = file[f].pid
        /\ proc[p].view = CoinsOf[p] \ Spent
        /\ proc[p].uri \notin told[f]
    BY DEF Start, StartsNew, SInv, RunFits
  <2> QED
    BY <2>1, <2>2, <2>3 DEF Start, StartsNew
<1>2. pay \in Payments /\ pay # None
  BY <1>1, SenderAssumption DEF Payments
<1>3. /\ payments' = [payments EXCEPT ![q] = pay]
      /\ file' = [file EXCEPT ![f] = [pid |-> q, pub |-> FALSE]]
      /\ UNCHANGED <<chain, told>>
      /\ q \notin Begun
  BY DEF Start, Save
<1>4. /\ pay.by = f /\ pay.coin = c /\ pay.uri = proc[p].uri
  OBVIOUS
<1>5. /\ proc'[p].at = "ready" /\ proc'[p].pid = q
      /\ \A s \in Procs \ {p} : proc'[s] = proc[s]
  BY <1>1 DEF Start, Processes
<1> HIDE DEF pay, f
<1>6. /\ payments'[q] = pay /\ Begun' = Begun \cup {q}
      /\ \A b \in Begun : payments'[b] = payments[b]
      /\ file'[f].pid = q
      /\ \A g \in Files \ {f} : file'[g] = file[g]
      /\ Spent' = Spent
  BY <1>1, <1>2, <1>3 DEF Begun, Spent
<1>7. CoinsKept'
  BY <1>1, <1>4, <1>6 DEF SInv, Books, CoinsKept, f
<1>8. ChainRight'
  BY <1>3, <1>6 DEF SInv, Books, ChainRight
<1>9. OpenPayment'
  <2>1. \A g \in Files \ {f} : file[g].pid # None => file[g].pid \in Begun
    BY DEF SInv, TypeInv, PayerLinked
  <2> QED
    BY <1>1, <1>3, <1>4, <1>6, <2>1 DEF SInv, Books, OpenPayment, Spent
<1>10. PaidKnown'
  <2> SUFFICES ASSUME ~MayAbandon, NEW t \in chain
               PROVE  \/ file'[payments'[t.pid].by].pid = t.pid
                      \/ t.uri \in told[payments'[t.pid].by]
    BY <1>3 DEF PaidKnown
  <2>1. /\ t.pid \in Begun /\ t.pid # None /\ payments[t.pid].by \in Files
        /\ \/ file[payments[t.pid].by].pid = t.pid
           \/ t.uri \in told[payments[t.pid].by]
    BY RelaysAssumption, SenderAssumption
       DEF SInv, Books, ChainRight, PaidKnown, CoinsKept, Begun
  <2> QED
    BY <1>1, <1>6, <2>1
<1>11. \A s \in Procs \ {p} : RunFits(s)'
  <2> SUFFICES ASSUME NEW s \in Procs \ {p} PROVE RunFits(s)'
    OBVIOUS
  <2>1. FileOf[s] \in Files \ {f}
    BY SenderAssumption DEF Exclusive, f
  <2> QED
    BY <1>3, <1>5, <1>6, <2>1, OtherRun DEF SInv
<1>12. RunFits(p)'
  BY <1>1, <1>4, <1>5, <1>6 DEF RunFits, Working, f
<1>13. (~MayAbandon => NoDoublePayment)' /\ ToldIsPaid'
  <2>1. \A t \in chain : payments'[t.pid] = payments[t.pid]
    BY <1>6 DEF SInv, Books, ChainRight
  <2> QED
    BY <1>3, <2>1 DEF SInv, NoDoublePayment, ToldIsPaid
<1> QED
  BY <1>7, <1>8, <1>9, <1>10, <1>11, <1>12, <1>13 DEF Books

\* Recording that the request is out keeps the payment that the file holds.
LEMMA RecordStep ==
    ASSUME Exclusive, SInv, NEW p \in Procs, RecordPublished(p)
    PROVE  /\ Books'
           /\ \A s \in Procs : RunFits(s)'
           /\ (~MayAbandon => NoDoublePayment)'
           /\ ToldIsPaid'
<1>1. /\ FileOf[p] \in Files /\ file \in [Files -> SavedPayments]
      /\ proc \in [Procs -> Processes]
      /\ proc[p].pid = file[FileOf[p]].pid
      /\ payments[proc[p].pid].coin \notin Spent
  BY SenderAssumption
     DEF SInv, TypeInv, TypeOK, RunFits, RecordPublished, Working
<1>2. /\ proc'[p].at = "waiting" /\ proc'[p].pid = proc[p].pid
      /\ \A s \in Procs \ {p} : proc'[s] = proc[s]
  BY <1>1 DEF RecordPublished, Processes
<1>3. /\ \A g \in Files : file'[g].pid = file[g].pid
      /\ UNCHANGED <<chain, payments, told>>
      /\ Spent' = Spent
  BY <1>1 DEF RecordPublished, Save, Spent
<1>4. Books'
  BY <1>3, SenderAssumption
     DEF SInv, Books, CoinsKept, ChainRight, OpenPayment, PaidKnown, Begun
<1>5. \A s \in Procs \ {p} : RunFits(s)'
  <2> SUFFICES ASSUME NEW s \in Procs \ {p} PROVE RunFits(s)'
    OBVIOUS
  <2>1. FileOf[s] \in Files
    BY SenderAssumption
  <2> QED
    BY <1>2, <1>3, <2>1, OtherRun DEF SInv
<1>6. RunFits(p)'
  BY <1>1, <1>2, <1>3 DEF RunFits, Working
<1> QED
  BY <1>3, <1>4, <1>5, <1>6 DEF SInv, NoDoublePayment, ToldIsPaid

-----------------------------------------------------------------------------
(* The induction                                                           *)

LEMMA SafeInit == Init => SInv
<1> SUFFICES ASSUME Init PROVE SInv
  OBVIOUS
<1>1. /\ chain = {} /\ Begun = {}
      /\ \A f \in Files : file[f].pid = None /\ told[f] = {}
      /\ \A p \in Procs : proc[p].at = "down"
  BY DEF Init, SenderInit, NoFile, Down, Begun
<1>2. Books
  BY <1>1 DEF Books, CoinsKept, ChainRight, OpenPayment, PaidKnown
<1>3. \A p \in Procs : RunFits(p)
  BY <1>1 DEF RunFits, Working
<1> QED
  BY <1>1, <1>2, <1>3, TypeInit DEF SInv, NoDoublePayment, ToldIsPaid

LEMMA PayerSafe ==
    ASSUME Exclusive, SInv, NEW p \in Procs, SenderNext(p, issued),
           UNCHANGED receiverVars
    PROVE  SInv'
<1> DEFINE Safe == /\ Books'
                   /\ \A s \in Procs : RunFits(s)'
                   /\ (~MayAbandon => NoDoublePayment)'
                   /\ ToldIsPaid'
<1>1. TypeInv'
  BY PayerType DEF SInv
<1> SUFFICES Safe
  BY <1>1 DEF SInv
<1>2. /\ proc \in [Procs -> Processes] /\ proc[p] \in Processes
      /\ file \in [Files -> SavedPayments] /\ FileOf[p] \in Files
      /\ RunFits(p)
      /\ proc[p].pid # None => proc[p].pid \in Begun
      /\ proc[p].at \notin {"down", "synced"} => proc[p].pid # None
  BY SenderAssumption DEF SInv, TypeInv, TypeOK, PayerLinked
<1>3. CASE \/ Refuse(p) \/ CannotBegin(p) \/ PublishFails(p) \/ KeepOpen(p)
           \/ Crash(p)
  BY <1>3, ExitStep DEF Refuse, CannotBegin, PublishFails, KeepOpen, Crash
<1>4. ASSUME NEW uri \in issued \cup {None}, NEW flags \in Flags, Invoke(p, uri, flags)
      PROVE  Safe
  <2>1. /\ proc'[p].at = "synced" /\ proc'[p].pid = file[FileOf[p]].pid
        /\ proc'[p].view = CoinsOf[p] \ Spent
        /\ proc'[p].uri = uri /\ uri \notin told[FileOf[p]]
        /\ \A s \in Procs \ {p} : proc'[s] = proc[s]
        /\ UNCHANGED <<file, payments, told, chain>>
    BY <1>2, <1>4 DEF Invoke, Down
  <2>2. RunFits(p)'
    BY <2>1 DEF RunFits, Working, Spent
  <2> QED
    BY <2>1, <2>2, MoveStep
<1>5. CASE Abandon(p)
  BY <1>5, DeleteStep DEF Abandon
<1>6. CASE ResumeSettled(p)
  <2> DEFINE q == file[FileOf[p]].pid
  <2>1. /\ proc[p].pid = q /\ q # None
        /\ proc[p].view = CoinsOf[p] \ Spent
        /\ payments[q].coin \notin proc[p].view
        /\ Delete(p) /\ Tell(p, payments[q].uri)
        /\ proc' = [proc EXCEPT ![p] = Down]
        /\ UNCHANGED <<payments, chain>>
    BY <1>2, <1>6 DEF ResumeSettled, Resumes, RunFits, Exit
  <2>2. payments[q].coin \in CoinsOf[p]
    BY <2>1, HeldCoin DEF SInv
  <2>3. PICK t \in chain : payments[q].coin \in t.coins
    BY <2>1, <2>2 DEF Spent
  <2>4. t.pid = q
    BY <1>2, <2>1, <2>3 DEF SInv, Books, OpenPayment
  <2>5. q \in Paid
    BY <2>4 DEF Paid
  <2>6. proc'[p].at = "down" /\ \A s \in Procs \ {p} : proc'[s] = proc[s]
    BY <1>2, <2>1 DEF Down
  <2> HIDE DEF q
  <2> QED
    BY <2>1, <2>5, <2>6, DeleteStep DEF q
<1>7. CASE Resume(p)
  <2>1. /\ proc'[p].at \in {"waiting", "ready"} /\ proc'[p].pid = proc[p].pid
        /\ \A s \in Procs \ {p} : proc'[s] = proc[s]
        /\ UNCHANGED <<file, payments, told, chain>>
        /\ payments[proc[p].pid].coin \in proc[p].view
        /\ proc[p].at = "synced"
    BY <1>2, <1>7 DEF Resume, Resumes, Processes
  <2>2. RunFits(p)'
    BY <1>2, <2>1 DEF RunFits, Working, Spent
  <2> QED
    BY <2>1, <2>2, MoveStep
<1>8. ASSUME NEW q \in Pids, NEW c \in Coins, Start(p, q, c)
      PROVE  Safe
  BY <1>8, StartStep
<1>9. CASE Publish(p) \/ HearError(p) \/ HearNothing(p)
  <2>1. /\ proc'[p].at \in {"sent", "stopped"} /\ proc'[p].pid = proc[p].pid
        /\ \A s \in Procs \ {p} : proc'[s] = proc[s]
        /\ UNCHANGED <<file, payments, told, chain>>
        /\ proc[p].at \in Working
    BY <1>2, <1>9 DEF Publish, HearError, HearNothing, Go, Processes, Working
  <2>2. RunFits(p)'
    BY <1>2, <2>1 DEF RunFits, Working, Spent
  <2> QED
    BY <2>1, <2>2, MoveStep
<1>10. CASE RecordPublished(p)
  BY <1>10, RecordStep
<1>11. CASE HearProposal(p) \/ RejectProposal(p)
  <2>1. /\ proc'[p].at \in {"proposal", "stopped"} /\ proc'[p].pid = proc[p].pid
        /\ \A s \in Procs \ {p} : proc'[s] = proc[s]
        /\ UNCHANGED <<file, payments, told, chain>>
        /\ proc[p].at \in Working
    BY <1>2, <1>11 DEF HearProposal, RejectProposal, Processes, Working
  <2>2. RunFits(p)'
    BY <1>2, <2>1 DEF RunFits, Working, Spent
  <2> QED
    BY <2>1, <2>2, MoveStep
<1>12. CASE EndDryRun(p)
  <2>1. /\ proc'[p].at = "done" /\ proc'[p].pid = proc[p].pid /\ proc'[p].dry
        /\ \A s \in Procs \ {p} : proc'[s] = proc[s]
        /\ UNCHANGED <<file, payments, told, chain>>
        /\ proc[p].at \in Working
    BY <1>2, <1>12 DEF EndDryRun, Go, Processes, Working
  <2>2. RunFits(p)'
    BY <1>2, <2>1 DEF RunFits, Working, Spent
  <2> QED
    BY <2>1, <2>2, MoveStep
<1>13. CASE Settle(p)
  <2>1. /\ proc'[p].at = "done" /\ proc'[p].pid = proc[p].pid /\ ~proc'[p].dry
        /\ \A s \in Procs \ {p} : proc'[s] = proc[s]
        /\ UNCHANGED <<file, payments, told>>
        /\ Settles(p) /\ Broadcast(Final(p))
        /\ proc[p].at \in Working
    BY <1>2, <1>13 DEF Settle, Settles, Go, Processes, Working
  <2>2. Final(p).pid = proc[p].pid
    BY DEF Final, PayjoinTx, Fallback, Transaction
  <2>3. proc[p].pid \in Paid'
    BY <2>1, <2>2 DEF Broadcast, Paid
  <2>4. RunFits(p)'
    BY <1>2, <2>1, <2>3 DEF RunFits, Working
  <2> QED
    BY <2>1, <2>4, BroadcastStep
<1>14. CASE SettleFails(p)
  <2>1. CASE UNCHANGED chain
    BY <1>14, <2>1, ExitStep DEF SettleFails
  <2>2. CASE Broadcast(Final(p))
    <3>1. /\ proc'[p] = Down /\ \A s \in Procs \ {p} : proc'[s] = proc[s]
          /\ UNCHANGED <<file, payments, told>> /\ Settles(p)
      BY <1>2, <1>14 DEF SettleFails, Exit
    <3>2. RunFits(p)'
      BY <3>1 DEF RunFits, Down, Working
    <3> QED
      BY <2>2, <3>1, <3>2, BroadcastStep
  <2> QED
    BY <1>14, <2>1, <2>2 DEF SettleFails, BroadcastFails
<1>15. CASE Clear(p)
  <2> DEFINE q == file[FileOf[p]].pid
  <2>1. /\ proc[p].pid = q /\ q # None
        /\ Delete(p)
        /\ proc[p].dry => UNCHANGED told /\ payments[q].coin \notin Spent
        /\ ~proc[p].dry => Tell(p, payments[q].uri) /\ q \in Paid
        /\ UNCHANGED <<payments, chain>>
    BY <1>2, <1>15 DEF Clear, RunFits
  <2>2. proc'[p].at = "down" /\ \A s \in Procs \ {p} : proc'[s] = proc[s]
    BY <1>2, <1>15 DEF Clear, Exit, Down
  <2>3. payments[q].coin \notin Spent => q \notin Paid
    BY DEF SInv, Books, ChainRight, Paid, Spent
  <2> HIDE DEF q
  <2> QED
    BY <2>1, <2>2, <2>3, DeleteStep DEF q
<1> QED
  BY <1>3, <1>4, <1>5, <1>6, <1>7, <1>8, <1>9, <1>10, <1>11, <1>12, <1>13, <1>14,
     <1>15 DEF SenderNext, Work

LEMMA ReceiverSafe ==
    ASSUME SInv, ReceiverNext, UNCHANGED senderVars
    PROVE  SInv'
<1>1. UNCHANGED chain
  BY DEF ReceiverNext, Serve, Reset, Collect, Answer, AnswerFails, HearNothingR,
     ListenFails, Persist, Finish, CrashR
<1>2. UNCHANGED <<file, proc, payments, told>>
  BY DEF senderVars
<1> QED
  BY <1>1, <1>2, ReceiverType
     DEF SInv, Books, CoinsKept, ChainRight, OpenPayment, PaidKnown, RunFits, Spent,
         Paid, Begun, NoDoublePayment, ToldIsPaid

LEMMA SafeStep ==
    ASSUME Exclusive, SInv, [Next]_vars PROVE SInv'
<1>1. CASE Next
  BY <1>1, PayerSafe, ReceiverSafe DEF Next, Payer, Owner
<1>2. CASE UNCHANGED vars
  <2>1. UNCHANGED <<wraps, chain, file, proc, payments, told, closed>>
        /\ UNCHANGED receiverVars
    BY <1>2 DEF vars, senderVars
  <2>2. TypeInv'
    BY <1>2, TypeStep DEF SInv
  <2> QED
    BY <2>1, <2>2
       DEF SInv, Books, CoinsKept, ChainRight, OpenPayment, PaidKnown, RunFits, Spent,
           Paid, Begun, NoDoublePayment, ToldIsPaid
<1> QED
  BY <1>1, <1>2

LEMMA Safety == Exclusive => (Spec => []SInv)
<1> SUFFICES ASSUME Exclusive PROVE Spec => []SInv
  OBVIOUS
<1>1. SInv /\ [Next]_vars => SInv'
  BY SafeStep
<1> QED
  BY <1>1, SafeInit, PTL DEF Spec

\* The books agree with each other after every kill: each file, what its user was told,
\* the chain, and what a running process took with it from both.
THEOREM BooksAgree == Exclusive => (Spec => []IInv)
<1> SUFFICES ASSUME Exclusive PROVE Spec => []IInv
  OBVIOUS
<1>1. SInv => IInv
  BY DEF SInv, IInv, TypeInv
<1>2. Spec => []SInv
  BY Safety
<1> QED
  BY <1>1, <1>2, PTL

\* With a session file and a wallet of its own, and nothing abandoned, no terminal
\* pays a URI twice: not after a kill at any point, a broadcast that reported
\* failure and was accepted, or a reply that came twice.
THEOREM PaysOnce == Exclusive /\ ~MayAbandon => (Spec => []NoDoublePayment)
<1> SUFFICES ASSUME Exclusive, ~MayAbandon PROVE Spec => []NoDoublePayment
  OBVIOUS
<1>1. SInv => NoDoublePayment
  BY DEF SInv
<1>2. Spec => []SInv
  BY Safety
<1> QED
  BY <1>1, <1>2, PTL

\* A run that finds its coin spent, or that broadcasts, tells its user the truth:
\* the URI is paid, also when the run that paid it never said so.
THEOREM TellsTheTruth == Exclusive => (Spec => []ToldIsPaid)
<1> SUFFICES ASSUME Exclusive PROVE Spec => []ToldIsPaid
  OBVIOUS
<1>1. SInv => ToldIsPaid
  BY DEF SInv
<1>2. Spec => []SInv
  BY Safety
<1> QED
  BY <1>1, <1>2, PTL

-----------------------------------------------------------------------------
(* The ledger: what the relays, the receiver and the chain do, and where   *)
(* runs are killed, is invisible in it.                                    *)

\* The ledger as the implementation keeps it.
Holding == [f \in Files |-> file[f].pid]
BegunIn == [q \in Pids |-> IF payments[q] = None THEN None ELSE payments[q].by]

LEMMA LedgerInit == Init => L!Init
  BY DEF Init, SenderInit, NoFile, L!Init, Paid

\* A step that neither begins, pays nor forgets a payment is not seen.
LEMMA Unseen ==
    ASSUME UNCHANGED <<payments, chain>>, \A f \in Files : file'[f].pid = file[f].pid
    PROVE  UNCHANGED L!ledgerVars
<1>1. Holding' = Holding
  BY DEF Holding
<1>2. BegunIn' = BegunIn /\ Paid' = Paid
  BY DEF BegunIn, Paid
<1> QED
  BY <1>1, <1>2 DEF Holding, BegunIn, L!ledgerVars

\* Deleting a session file that holds a payment forgets it.
LEMMA DeleteForgets ==
    ASSUME TypeInv, NEW p \in Procs, Delete(p), file[FileOf[p]].pid # None,
           UNCHANGED <<payments, chain>>
    PROVE  L!Forget(FileOf[p])
<1>1. FileOf[p] \in Files /\ file \in [Files -> SavedPayments]
  BY SenderAssumption DEF TypeInv, TypeOK
<1>2. Holding' = [Holding EXCEPT ![FileOf[p]] = None]
  BY <1>1 DEF Holding, Delete, NoFile
<1>3. BegunIn' = BegunIn /\ Paid' = Paid
  BY DEF BegunIn, Paid
<1> QED
  BY <1>1, <1>2, <1>3 DEF Holding, BegunIn, L!Forget

\* The network accepts a transaction for the payment in the file, which it had not
\* accepted before.
LEMMA BroadcastPays ==
    ASSUME SInv, NEW p \in Procs, Settles(p), Broadcast(Final(p)),
           UNCHANGED <<file, payments>>
    PROVE  L!Pay(FileOf[p])
<1> DEFINE q == file[FileOf[p]].pid
<1>1. /\ FileOf[p] \in Files /\ proc[p] \in Processes
      /\ proc[p].pid = q /\ q # None
      /\ payments[q].coin \notin Spent
  BY SenderAssumption
     DEF SInv, TypeInv, TypeOK, PayerLinked, RunFits, Settles, Working
<1>2. q \notin Paid
  BY <1>1 DEF SInv, Books, ChainRight, Paid, Spent
<1>3. Final(p).pid = q
  BY <1>1 DEF Final, PayjoinTx, Fallback, Transaction
<1>4. Paid' = Paid \cup {q}
  BY <1>3 DEF Broadcast, Paid
<1>5. Holding' = Holding /\ BegunIn' = BegunIn
  BY DEF Holding, BegunIn
<1> QED
  BY <1>1, <1>2, <1>4, <1>5 DEF Holding, BegunIn, L!Pay

\* A payment is begun in a file that holds none.
LEMMA StartBegins ==
    ASSUME SInv, NEW p \in Procs, NEW q \in Pids, NEW c \in Coins, Start(p, q, c)
    PROVE  L!Begin(FileOf[p], q)
<1>1. /\ FileOf[p] \in Files /\ file \in [Files -> SavedPayments]
      /\ proc[p] \in Processes
      /\ file[FileOf[p]].pid = None
      /\ payments \in [Pids -> Payments \cup {None}]
  BY SenderAssumption
     DEF SInv, TypeInv, TypeOK, RunFits, Start, StartsNew
<1>2. Holding' = [Holding EXCEPT ![FileOf[p]] = q]
  BY <1>1 DEF Holding, Start, Save
<1>3. payments[q] = None
  BY DEF Start, Begun
<1>4. BegunIn' = [BegunIn EXCEPT ![q] = FileOf[p]]
  <2> DEFINE b == [by |-> FileOf[p], coin |-> c, uri |-> proc[p].uri]
  <2>1. payments' = [payments EXCEPT ![q] = b]
    BY DEF Start
  <2>2. b \in [by : Files, coin : Coins, uri : Keys]
    BY <1>1 DEF Start, StartsNew, Processes
  <2>3. b # None /\ b.by = FileOf[p]
    BY <2>2, SenderAssumption
  <2> HIDE DEF b
  <2> QED
    BY <1>1, <2>1, <2>3 DEF BegunIn
<1>5. Paid' = Paid
  BY DEF Start, Paid
<1> QED
  BY <1>1, <1>2, <1>3, <1>4, <1>5 DEF Holding, BegunIn, L!Begin

-----------------------------------------------------------------------------

LEMMA PayerRefines ==
    ASSUME SInv, NEW p \in Procs, SenderNext(p, issued)
    PROVE  [L!Next]_(L!ledgerVars)
<1>1. /\ FileOf[p] \in Files
      /\ proc[p].at = "synced" => proc[p].pid = file[FileOf[p]].pid
      /\ proc[p].at = "done" => file[FileOf[p]].pid # None
      /\ proc[p].at = "sent" => proc[p].pid = file[FileOf[p]].pid
  BY SenderAssumption DEF SInv, TypeInv, PayerLinked, RunFits
<1>2. CASE \/ \E uri \in issued \cup {None}, flags \in Flags : Invoke(p, uri, flags)
           \/ Refuse(p) \/ CannotBegin(p) \/ Resume(p)
           \/ Publish(p) \/ PublishFails(p)
           \/ HearProposal(p) \/ HearError(p) \/ HearNothing(p) \/ RejectProposal(p)
           \/ KeepOpen(p) \/ EndDryRun(p) \/ Crash(p)
  <2>1. UNCHANGED <<file, payments, chain>>
    BY <1>2 DEF Invoke, Refuse, CannotBegin, Resume, Publish, PublishFails,
       HearProposal, HearError, HearNothing, RejectProposal, KeepOpen, EndDryRun, Crash
  <2> QED
    BY <2>1, Unseen
<1>3. CASE RecordPublished(p)
  <2>1. \A f \in Files : file'[f].pid = file[f].pid
    BY <1>1, <1>3 DEF RecordPublished, Save, SInv, TypeInv, TypeOK
  <2> QED
    BY <1>3, <2>1, Unseen DEF RecordPublished
<1>4. CASE Abandon(p) \/ ResumeSettled(p) \/ Clear(p)
  <2>1. /\ Delete(p) /\ file[FileOf[p]].pid # None
        /\ UNCHANGED <<payments, chain>>
    BY <1>1, <1>4 DEF Abandon, ResumeSettled, Resumes, Clear
  <2> QED
    BY <1>1, <2>1, DeleteForgets DEF SInv, L!Next
<1>5. ASSUME NEW q \in Pids, NEW c \in Coins, Start(p, q, c)
      PROVE  L!Next
  BY <1>1, <1>5, StartBegins DEF L!Next
<1>6. CASE Settle(p) \/ SettleFails(p)
  <2>1. Settles(p) /\ UNCHANGED <<file, payments>>
    BY <1>6 DEF Settle, SettleFails
  <2>2. Broadcast(Final(p)) \/ chain' = chain
    BY <1>6 DEF Settle, SettleFails, BroadcastFails
  <2>3. CASE Broadcast(Final(p))
    BY <1>1, <2>1, <2>3, BroadcastPays DEF L!Next
  <2>4. CASE chain' = chain
    BY <2>1, <2>4, Unseen
  <2> QED
    BY <2>2, <2>3, <2>4
<1> QED
  BY <1>2, <1>3, <1>4, <1>5, <1>6 DEF SenderNext, Work

LEMMA StepRefines ==
    ASSUME SInv, [Next]_vars PROVE [L!Next]_(L!ledgerVars)
<1>1. ASSUME NEW p \in Procs, Payer(SenderNext(p, issued))
      PROVE  [L!Next]_(L!ledgerVars)
  BY <1>1, PayerRefines DEF Payer
<1>2. CASE Owner(ReceiverNext)
  <2>1. UNCHANGED chain
    BY <1>2 DEF Owner, ReceiverNext, Serve, Reset, Collect, Answer, AnswerFails,
       HearNothingR, ListenFails, Persist, Finish, CrashR
  <2>2. UNCHANGED <<file, payments>>
    BY <1>2 DEF Owner, senderVars
  <2> QED
    BY <2>1, <2>2, Unseen
<1>3. CASE UNCHANGED vars
  BY <1>3, Unseen DEF vars, senderVars
<1> QED
  BY <1>1, <1>2, <1>3 DEF Next

\* pjn-sender implements the ledger: a payment is begun only where none is open, it
\* is paid only while its session file is there and at most once, and with its file
\* it is over (the session file is written before anything is sent, and deleted
\* after the payment is settled or given up).
THEOREM ImplementsLedger == Exclusive => (Spec => LedgerSpec)
<1> SUFFICES ASSUME Exclusive PROVE Spec => LedgerSpec
  OBVIOUS
<1>1. SInv /\ [Next]_vars => [L!Next]_(L!ledgerVars)
  BY StepRefines
<1>2. Spec => []SInv
  BY Safety
<1> QED
  BY <1>1, <1>2, LedgerInit, PTL DEF Spec, LedgerSpec, L!Spec

-----------------------------------------------------------------------------
(* Requests: a file holds the key of each request that is still open, says *)
(* "published" only of a request that is stored, and what it says was      *)
(* published is not sent again.                                            *)

Requested(q, ws) == \E w \in ws : w.leg = "original" /\ w.from = q

\* A payment is in the file it was begun in until that file is deleted.
PaymentKept ==
    \A q \in Begun : q \in closed \/ file[payments[q].by].pid = q

RequestsBegun == \A w \in wraps : w.leg = "original" => w.from \in Begun

\* A run knows whether its file says "published", publishes only if it does not, and
\* says so only after it sent the request.
SendFits(p) ==
    LET saved == file[FileOf[p]]
    IN  /\ proc[p].at = "synced" => proc[p].pub = saved.pub
        /\ proc[p].at = "ready" => ~saved.pub
        /\ proc[p].at = "sent" => Requested(saved.pid, wraps)

RInv ==
    /\ PaymentKept
    /\ RequestsBegun
    /\ PublishedIsStored
    /\ \A p \in Procs : SendFits(p)

-----------------------------------------------------------------------------
(* What one kind of step does                                              *)

LEMMA RequestsInit == Init => RInv
<1> SUFFICES ASSUME Init PROVE RInv
  OBVIOUS
<1>1. /\ wraps = {} /\ Begun = {}
      /\ \A f \in Files : ~file[f].pub
      /\ \A p \in Procs : proc[p].at = "down"
  BY DEF Init, SenderInit, NoFile, Down, Begun
<1> QED
  BY <1>1 DEF RInv, PaymentKept, RequestsBegun, PublishedIsStored, SendFits

LEMMA OtherSends ==
    ASSUME NEW s \in Procs, SendFits(s), proc'[s] = proc[s],
           file'[FileOf[s]] = file[FileOf[s]], wraps \subseteq wraps'
    PROVE  SendFits(s)'
  BY DEF SendFits, Requested

\* No file changes, and whatever is new on the relays was asked for by a payment.
LEMMA FilesKept ==
    ASSUME RInv, NEW p \in Procs, SendFits(p)',
           UNCHANGED <<file, payments, closed>>, wraps \subseteq wraps',
           \A w \in wraps' \ wraps : w.leg = "original" => w.from \in Begun,
           \A s \in Procs \ {p} : proc'[s] = proc[s]
    PROVE  RInv'
<1>1. \A s \in Procs : SendFits(s)'
  BY OtherSends DEF RInv
<1>2. PaymentKept' /\ RequestsBegun'
  BY DEF RInv, PaymentKept, RequestsBegun, Begun
<1>3. PublishedIsStored'
  BY DEF RInv, PublishedIsStored
<1> QED
  BY <1>1, <1>2, <1>3 DEF RInv

\* The file is deleted, and the payment in it closed.
LEMMA FileDeleted ==
    ASSUME Exclusive, TypeInv, RInv, NEW p \in Procs, Delete(p),
           Exit(p) \/ (UNCHANGED proc /\ proc[p].at = "down"),
           UNCHANGED <<wraps, payments>>
    PROVE  RInv'
<1>1. /\ FileOf[p] \in Files /\ file \in [Files -> SavedPayments]
      /\ proc \in [Procs -> Processes]
      /\ \A q \in Begun : q # None /\ payments[q].by \in Files
  BY SenderAssumption, RelaysAssumption DEF TypeInv, TypeOK, Begun, Payments
<1>2. /\ file'[FileOf[p]] = [pid |-> None, pub |-> FALSE]
      /\ \A f \in Files \ {FileOf[p]} : file'[f] = file[f]
      /\ closed' = closed \cup ({file[FileOf[p]].pid} \ {None})
  BY <1>1 DEF Delete, NoFile
<1>3. /\ proc'[p].at = "down"
      /\ \A s \in Procs \ {p} : proc'[s] = proc[s]
  BY <1>1 DEF Exit, Down
<1>4. PaymentKept'
  BY <1>1, <1>2 DEF RInv, PaymentKept, Begun
<1>5. PublishedIsStored' /\ RequestsBegun'
  BY <1>2 DEF RInv, PublishedIsStored, RequestsBegun, Begun
<1>6. \A s \in Procs \ {p} : SendFits(s)'
  <2> SUFFICES ASSUME NEW s \in Procs \ {p} PROVE SendFits(s)'
    OBVIOUS
  <2>1. FileOf[s] \in Files \ {FileOf[p]}
    BY SenderAssumption DEF Exclusive
  <2> QED
    BY <1>2, <1>3, <2>1, OtherSends DEF RInv
<1>7. SendFits(p)'
  BY <1>3 DEF SendFits
<1> QED
  BY <1>4, <1>5, <1>6, <1>7 DEF RInv

\* The request is stored when the file says so.
LEMMA PublishedRecorded ==
    ASSUME Exclusive, SInv, RInv, NEW p \in Procs, RecordPublished(p)
    PROVE  RInv'
<1>1. /\ FileOf[p] \in Files /\ file \in [Files -> SavedPayments]
      /\ proc \in [Procs -> Processes]
      /\ proc[p].pid = file[FileOf[p]].pid
      /\ Requested(file[FileOf[p]].pid, wraps)
  BY SenderAssumption
     DEF SInv, TypeInv, TypeOK, RunFits, RInv, SendFits, RecordPublished
<1>2. /\ file'[FileOf[p]].pid = file[FileOf[p]].pid
      /\ \A f \in Files \ {FileOf[p]} : file'[f] = file[f]
      /\ UNCHANGED <<wraps, payments, closed>>
  BY <1>1 DEF RecordPublished, Save
<1>3. /\ proc'[p].at = "waiting"
      /\ \A s \in Procs \ {p} : proc'[s] = proc[s]
  BY <1>1 DEF RecordPublished, Processes
<1>4. PaymentKept' /\ RequestsBegun'
  <2>1. \A q \in Begun : payments[q].by \in Files
    BY DEF SInv, TypeInv, TypeOK, Begun, Payments
  <2> QED
    BY <1>2, <2>1 DEF RInv, PaymentKept, RequestsBegun, Begun
<1>5. PublishedIsStored'
  BY <1>1, <1>2 DEF RInv, PublishedIsStored, Requested
<1>6. \A s \in Procs \ {p} : SendFits(s)'
  <2> SUFFICES ASSUME NEW s \in Procs \ {p} PROVE SendFits(s)'
    OBVIOUS
  <2>1. FileOf[s] \in Files \ {FileOf[p]}
    BY SenderAssumption DEF Exclusive
  <2> QED
    BY <1>2, <1>3, <2>1, OtherSends DEF RInv
<1>7. SendFits(p)'
  BY <1>3 DEF SendFits
<1> QED
  BY <1>4, <1>5, <1>6, <1>7 DEF RInv

\* A new payment is saved, as unpublished, in a file that held none.
LEMMA PaymentSaved ==
    ASSUME Exclusive, SInv, RInv, NEW p \in Procs, NEW q \in Pids, NEW c \in Coins,
           Start(p, q, c)
    PROVE  RInv'
<1> DEFINE f == FileOf[p]
           b == [by |-> f, coin |-> c, uri |-> proc[p].uri]
<1>1. /\ f \in Files /\ file \in [Files -> SavedPayments]
      /\ proc \in [Procs -> Processes] /\ proc[p] \in Processes
      /\ payments \in [Pids -> Payments \cup {None}]
      /\ file[f].pid = None /\ q # None /\ q \notin Begun
  BY SenderAssumption, RelaysAssumption
     DEF SInv, TypeInv, TypeOK, RunFits, Start, StartsNew
<1>2. b # None /\ b.by = f
  <2>1. b \in [by : Files, coin : Coins, uri : Keys]
    BY <1>1 DEF Start, StartsNew, Processes
  <2> QED
    BY <2>1, SenderAssumption
<1>3. payments' = [payments EXCEPT ![q] = b]
  BY DEF Start
<1> HIDE DEF b
<1>4. /\ Begun' = Begun \cup {q} /\ payments'[q].by = f
      /\ \A o \in Begun : payments'[o] = payments[o]
  BY <1>1, <1>2, <1>3 DEF Begun
<1>5. /\ file'[f] = [pid |-> q, pub |-> FALSE]
      /\ \A g \in Files \ {f} : file'[g] = file[g]
      /\ UNCHANGED <<wraps, closed>>
  BY <1>1 DEF Start, Save
<1>6. /\ proc'[p].at = "ready"
      /\ \A s \in Procs \ {p} : proc'[s] = proc[s]
  BY <1>1 DEF Start, Processes
<1>7. PaymentKept'
  <2> SUFFICES ASSUME NEW o \in Begun, o \notin closed
               PROVE  file'[payments[o].by].pid = o
    BY <1>4, <1>5 DEF PaymentKept
  <2>1. payments[o].by \in Files /\ o # None
    BY <1>1, RelaysAssumption DEF Begun, Payments
  <2>2. file[payments[o].by].pid = o
    BY DEF RInv, PaymentKept
  <2> QED
    BY <1>1, <1>5, <2>1, <2>2
<1>8. PublishedIsStored' /\ RequestsBegun'
  BY <1>4, <1>5 DEF RInv, PublishedIsStored, RequestsBegun
<1>9. \A s \in Procs \ {p} : SendFits(s)'
  <2> SUFFICES ASSUME NEW s \in Procs \ {p} PROVE SendFits(s)'
    OBVIOUS
  <2>1. FileOf[s] \in Files \ {f}
    BY SenderAssumption DEF Exclusive
  <2> QED
    BY <1>5, <1>6, <2>1, OtherSends DEF RInv
<1>10. SendFits(p)'
  BY <1>5, <1>6 DEF SendFits
<1> QED
  BY <1>7, <1>8, <1>9, <1>10 DEF RInv

\* What a run publishes is the request of the payment in its file, which does not
\* say that it was published.
LEMMA PublishesOwn ==
    ASSUME Exclusive, SInv, RInv, NEW p \in Procs, proc[p].at = "ready",
           Send(Request(proc[p].pid)) \/ SendFails(Request(proc[p].pid))
    PROVE  /\ wraps \subseteq wraps'
           /\ Send(Request(proc[p].pid)) => Requested(file[FileOf[p]].pid, wraps')
           /\ \A w \in wraps' \ wraps :
                /\ w.from = file[FileOf[p]].pid /\ w.from \in Begun
                /\ payments[w.from].by = FileOf[p]
                /\ ~file[FileOf[p]].pub
<1> DEFINE q == proc[p].pid
<1>1. /\ q = file[FileOf[p]].pid /\ q # None /\ q \in Begun
      /\ ~file[FileOf[p]].pub
  BY DEF SInv, TypeInv, PayerLinked, RunFits, RInv, SendFits
<1>2. payments[q].by = FileOf[p]
  BY <1>1, HeldCoin DEF SInv
<1>3. /\ Request(q) \in Wraps /\ wraps \subseteq Wraps
      /\ Request(q).leg = "original" /\ Request(q).from = q
  BY <1>1, RequestWrap DEF SInv, TypeInv, TypeOK
<1>4. wraps' = wraps \/ \E w \in Wraps : /\ wraps' = wraps \cup {w}
                                         /\ w.leg = "original" /\ w.from = q
  BY <1>3, PostedAdds DEF Send, SendFails
<1>5. Send(Request(q)) => \E w \in Wraps : /\ wraps' = wraps \cup {w}
                                           /\ w.leg = "original" /\ w.from = q
  BY <1>3, PostedAdds DEF Send
<1> QED
  BY <1>1, <1>2, <1>4, <1>5 DEF Requested

-----------------------------------------------------------------------------
(* The induction                                                           *)

LEMMA PayerRequests ==
    ASSUME Exclusive, SInv, RInv, NEW p \in Procs, SenderNext(p, issued)
    PROVE  /\ RInv'
           /\ \A w \in wraps' \ wraps :
                file[payments[w.from].by] # [pid |-> w.from, pub |-> TRUE]
<1>1. /\ proc \in [Procs -> Processes] /\ proc[p] \in Processes
      /\ SendFits(p)
  BY DEF SInv, TypeInv, TypeOK, RInv
<1>2. CASE \/ Refuse(p) \/ CannotBegin(p) \/ HearError(p) \/ HearNothing(p)
           \/ HearProposal(p) \/ RejectProposal(p) \/ KeepOpen(p) \/ EndDryRun(p)
           \/ Settle(p) \/ SettleFails(p) \/ Crash(p)
  <2>1. /\ proc'[p].at \in {"down", "stopped", "proposal", "done"}
        /\ \A s \in Procs \ {p} : proc'[s] = proc[s]
    BY <1>1, <1>2
       DEF Refuse, CannotBegin, HearError, HearNothing, HearProposal, RejectProposal,
           KeepOpen, EndDryRun, Settle, SettleFails, Crash, Exit, Go, Down, Processes
  <2>2. UNCHANGED <<wraps, file, payments, closed>>
    BY <1>2
       DEF Refuse, CannotBegin, HearError, HearNothing, HearProposal, RejectProposal,
           KeepOpen, EndDryRun, Settle, SettleFails, Crash
  <2>3. SendFits(p)'
    BY <2>1 DEF SendFits
  <2> QED
    BY <2>1, <2>2, <2>3, FilesKept
<1>3. ASSUME NEW uri \in issued \cup {None}, NEW flags \in Flags, Invoke(p, uri, flags)
      PROVE  RInv' /\ wraps' = wraps
  <2>1. /\ proc'[p].at = "synced" /\ proc'[p].pub = file[FileOf[p]].pub
        /\ \A s \in Procs \ {p} : proc'[s] = proc[s]
        /\ UNCHANGED <<wraps, file, payments, closed>>
    BY <1>1, <1>3 DEF Invoke, Down
  <2>2. SendFits(p)'
    BY <2>1 DEF SendFits
  <2> QED
    BY <2>1, <2>2, FilesKept
<1>4. CASE Resume(p)
  <2>1. /\ proc'[p].at = IF proc[p].pub THEN "waiting" ELSE "ready"
        /\ \A s \in Procs \ {p} : proc'[s] = proc[s]
        /\ UNCHANGED <<wraps, file, payments, closed>>
    BY <1>1, <1>4 DEF Resume, Processes
  <2>2. proc[p].pub = file[FileOf[p]].pub
    BY <1>1, <1>4 DEF Resume, Resumes, SendFits
  <2>3. SendFits(p)'
    BY <2>1, <2>2 DEF SendFits
  <2> QED
    BY <2>1, <2>3, FilesKept
<1>5. CASE Publish(p)
  <2>1. /\ proc[p].at = "ready" /\ Send(Request(proc[p].pid))
        /\ proc'[p].at = "sent"
        /\ \A s \in Procs \ {p} : proc'[s] = proc[s]
        /\ UNCHANGED <<file, payments, closed>>
    BY <1>1, <1>5 DEF Publish, Go, Processes
  <2>2. SendFits(p)'
    BY <2>1, PublishesOwn DEF SendFits
  <2> QED
    BY <2>1, <2>2, FilesKept, PublishesOwn
<1>6. CASE PublishFails(p)
  <2>1. /\ proc[p].at = "ready" /\ SendFails(Request(proc[p].pid))
        /\ proc'[p].at = "down"
        /\ \A s \in Procs \ {p} : proc'[s] = proc[s]
        /\ UNCHANGED <<file, payments, closed>>
    BY <1>1, <1>6 DEF PublishFails, Exit, Down
  <2>2. SendFits(p)'
    BY <2>1 DEF SendFits
  <2> QED
    BY <2>1, <2>2, FilesKept, PublishesOwn
<1>7. CASE RecordPublished(p)
  BY <1>7, PublishedRecorded DEF RecordPublished
<1>8. CASE Abandon(p) \/ ResumeSettled(p) \/ Clear(p)
  <2>1. /\ Delete(p) /\ UNCHANGED <<wraps, payments>>
        /\ Exit(p) \/ (UNCHANGED proc /\ proc[p].at = "down")
    BY <1>8 DEF Abandon, ResumeSettled, Clear
  <2> QED
    BY <2>1, FileDeleted DEF SInv
<1>9. ASSUME NEW q \in Pids, NEW c \in Coins, Start(p, q, c)
      PROVE  RInv' /\ wraps' = wraps
  BY <1>9, PaymentSaved DEF Start
<1> QED
  BY <1>2, <1>3, <1>4, <1>5, <1>6, <1>7, <1>8, <1>9 DEF SenderNext, Work

\* The receiver sends no requests.
LEMMA ReceiverRequests ==
    ASSUME SInv, RInv, ReceiverNext, UNCHANGED senderVars
    PROVE  /\ RInv'
           /\ wraps \subseteq wraps'
           /\ \A w \in wraps' \ wraps : w.leg # "original"
<1>1. /\ wraps \subseteq wraps'
      /\ \A w \in wraps' \ wraps : w.leg # "original"
  <2>1. CASE Answer \/ AnswerFails
    <3>1. /\ Reply \in Wraps /\ Reply.leg # "original" /\ wraps \subseteq Wraps
      BY <2>1, ReplyWrap DEF SInv, TypeInv, TypeOK, Answer, AnswerFails
    <3>2. Send(Reply) \/ SendFails(Reply)
      BY <2>1 DEF Answer, AnswerFails
    <3> QED
      BY <3>1, <3>2, PostedAdds DEF Send, SendFails
  <2>2. CASE ~(Answer \/ AnswerFails)
    BY <2>2 DEF ReceiverNext, Serve, Reset, Collect, HearNothingR, ListenFails,
       Persist, Finish, CrashR
  <2> QED
    BY <2>1, <2>2
<1>2. UNCHANGED <<file, proc, payments, closed>>
  BY DEF senderVars
<1>3. \A s \in Procs : SendFits(s)'
  BY <1>1, <1>2, OtherSends DEF RInv
<1>4. PaymentKept' /\ RequestsBegun' /\ PublishedIsStored'
  BY <1>1, <1>2 DEF RInv, PaymentKept, RequestsBegun, PublishedIsStored, Begun
<1> QED
  BY <1>1, <1>3, <1>4 DEF RInv

LEMMA RequestStep ==
    ASSUME Exclusive, SInv, RInv, [Next]_vars
    PROVE  /\ RInv'
           /\ \A w \in wraps' \ wraps : w.leg = "original" =>
                file[payments[w.from].by] # [pid |-> w.from, pub |-> TRUE]
<1>1. ASSUME NEW p \in Procs, Payer(SenderNext(p, issued))
      PROVE  /\ RInv'
             /\ \A w \in wraps' \ wraps :
                  file[payments[w.from].by] # [pid |-> w.from, pub |-> TRUE]
  BY <1>1, PayerRequests DEF Payer
<1>2. CASE Owner(ReceiverNext)
  BY <1>2, ReceiverRequests DEF Owner
<1>3. CASE UNCHANGED vars
  BY <1>3 DEF vars, senderVars, RInv, PaymentKept, RequestsBegun, PublishedIsStored,
     SendFits, Requested, Begun
<1> QED
  BY <1>1, <1>2, <1>3 DEF Next

LEMMA RequestInvariance == Exclusive => (Spec => []RInv)
<1> SUFFICES ASSUME Exclusive PROVE Spec => []RInv
  OBVIOUS
<1>1. SInv /\ RInv /\ [Next]_vars => RInv'
  BY RequestStep
<1>2. Spec => []SInv
  BY Safety
<1> QED
  BY <1>1, <1>2, RequestsInit, PTL DEF Spec

\* The reply to every request on the relays can be opened, unless its payment was
\* closed: the key is saved before the request is sent and stays until then.
THEOREM KeepsTheKey == Exclusive => (Spec => []ReplyKeyKept)
<1> SUFFICES ASSUME Exclusive PROVE Spec => []ReplyKeyKept
  OBVIOUS
<1>1. RInv => ReplyKeyKept
  BY DEF RInv, PaymentKept, RequestsBegun, ReplyKeyKept
<1>2. Spec => []RInv
  BY RequestInvariance
<1> QED
  BY <1>1, <1>2, PTL

\* A run that resumes a published payment waits for the answer to a request that is
\* on the relays.
THEOREM WaitsForStored == Exclusive => (Spec => []PublishedIsStored)
<1> SUFFICES ASSUME Exclusive PROVE Spec => []PublishedIsStored
  OBVIOUS
<1>1. RInv => PublishedIsStored
  BY DEF RInv
<1>2. Spec => []RInv
  BY RequestInvariance
<1> QED
  BY <1>1, <1>2, PTL

\* No run, of any terminal, sends a request again that its file says was published.
THEOREM NeverResends == Exclusive => (Spec => RecordedNeverResent)
<1> SUFFICES ASSUME Exclusive PROVE Spec => RecordedNeverResent
  OBVIOUS
<1> DEFINE Fresh == \A w \in wraps' \ wraps : w.leg = "original" =>
                      file[payments[w.from].by] # [pid |-> w.from, pub |-> TRUE]
<1>1. SInv /\ RInv /\ [Next]_vars => [Fresh]_vars
  BY RequestStep
<1>2. Spec => []SInv
  BY Safety
<1>3. Spec => []RInv
  BY RequestInvariance
<1> QED
  BY <1>1, <1>2, <1>3, PTL DEF Spec, RecordedNeverResent
=============================================================================
