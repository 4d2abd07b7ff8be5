----------------------------- MODULE RecvProofs -----------------------------
(***************************************************************************)
(* For any relays, any wraps and any relay lists: no wrap falls between    *)
(* the steps of recv_detailed, and recv_detailed implements Mailbox.       *)
(***************************************************************************)
EXTENDS Recv, TLAPS

There == UNION {stored[r] : r \in Relays}

LEMMA RecvInit == Init => IInv
  BY RecvAssumption
     DEF Init, IInv, TypeOK, Places, Reached, Held, Known, Listening

\* What relays and the client do on their own.
LEMMA StoreKeeps ==
    ASSUME IInv, NEW r \in Relays, NEW w \in Wraps, Store(r, w)
    PROVE  IInv'
<1> USE DEF Store, Notified, IInv
<1>1. TypeOK'
  BY DEF TypeOK, Places
<1>2. Reached'
  BY DEF TypeOK, Reached
<1>3. Held'
  BY DEF Held, Listening
<1>4. Known'
  BY DEF Known, TypeOK
<1> QED
  BY <1>1, <1>2, <1>3, <1>4

LEMMA RelayKeeps ==
    ASSUME IInv, NEW r \in Relays,
           RelayServes(r) \/ RelayRefuses(r) \/ Drop(r) \/ Redial(r)
    PROVE  IInv'
<1> USE DEF IInv, RelayServes, RelayRefuses, Drop, Redial, Notified, callVars
<1>1. TypeOK'
  BY DEF TypeOK, Places
<1>2. Reached'
  BY DEF TypeOK, Reached
<1>3. Held'
  BY DEF TypeOK, Held, Listening
<1>4. Known'
  BY DEF TypeOK, Known
<1> QED
  BY <1>1, <1>2, <1>3, <1>4

\* The party connects and leaves.
LEMMA ConnectKeeps ==
    ASSUME IInv, NEW R \in Configs, NEW C \in SUBSET Relays, Connect(R, C)
    PROVE  IInv'
<1> USE DEF IInv, Connect, callVars
<1>1. TypeOK'
  BY DEF TypeOK, Places, Held
<1>2. Reached'
  BY DEF TypeOK, Reached, Held
<1>3. Held'
  BY DEF Held, Listening
<1>4. Known'
  BY DEF Known
<1> QED
  BY <1>1, <1>2, <1>3, <1>4

LEMMA LeaveKeeps ==
    ASSUME IInv, Leave
    PROVE  IInv'
  BY DEF Leave, IInv, TypeOK, Places, Reached, Held, Known, Listening

LEMMA FetchKeeps ==
    ASSUME IInv, NEW A \in SUBSET Relays, Fetch(A)
    PROVE  IInv'
<1> USE DEF IInv, Fetch
<1>1. \A w \in found' : \E r \in Relays : w \in stored[r]
  OBVIOUS
<1>2. TypeOK'
  BY <1>1 DEF TypeOK, Places
<1>3. Reached'
  BY DEF Reached, Held
<1>4. Held'
  BY DEF Held, Listening
<1>5. Known'
  BY <1>1 DEF Known
<1> QED
  BY <1>2, <1>3, <1>4, <1>5

\* A call that ends loses nothing the client was sent.
LEMMA ReturnKeeps ==
    ASSUME IInv, Return, delivered \subseteq delivered', delivered' \subseteq Wraps,
           result' \in Wraps \cup {None}, at # "down",
           handed' \subseteq handed \cup found \cup notices
    PROVE  IInv'
<1> USE DEF IInv, Return
<1>1. TypeOK'
  BY DEF TypeOK, Places
<1>2. Reached'
  BY DEF Reached
<1>3. Held'
  BY DEF Held
<1>4. Known'
  BY DEF Known
<1> QED
  BY <1>1, <1>2, <1>3, <1>4

LEMMA DeliverKeeps ==
    ASSUME IInv, NEW w \in found \cup notices, Deliver(w), at # "down"
    PROVE  IInv'
<1>1. w \in Wraps
  BY RecvAssumption DEF Deliver
<1> QED
  BY <1>1, ReturnKeeps DEF Deliver, IInv, TypeOK

LEMMA SkipKeeps ==
    ASSUME IInv, NEW w \in Wraps, SkipStored(w) \/ SkipNotice(w)
    PROVE  IInv'
<1> USE DEF IInv, SkipStored, SkipNotice
<1>1. TypeOK'
  BY DEF TypeOK
<1>2. Reached'
  BY DEF Reached
<1>3. Held'
  BY DEF Held, Listening
<1>4. Known'
  BY DEF Known
<1> QED
  BY <1>1, <1>2, <1>3, <1>4

LEMMA CallKeeps ==
    ASSUME IInv, Call
    PROVE  IInv'
<1>1. CASE \E w \in Wraps : HandStored(w)
  BY <1>1, DeliverKeeps DEF HandStored
<1>2. CASE \E w \in Wraps : HandNotice(w)
  BY <1>2, DeliverKeeps DEF HandNotice
<1>3. CASE \E w \in Wraps : SkipStored(w) \/ SkipNotice(w)
  BY <1>3, SkipKeeps
<1>4. CASE OpenStream
  BY <1>4 DEF OpenStream, callVars, IInv, TypeOK, Places, Reached, Held, Known, Listening
<1>5. CASE Subscribe
  BY <1>5 DEF Subscribe, IInv, TypeOK, Places, Reached, Held, Known, Listening
<1>6. CASE SubscribeFails \/ TimeOut
  BY <1>6, ReturnKeeps DEF SubscribeFails, TimeOut, IInv, TypeOK
<1> QED
  BY <1>1, <1>2, <1>3, <1>4, <1>5, <1>6 DEF Call

LEMMA RecvStep ==
    ASSUME IInv, [Next]_vars
    PROVE  IInv'
<1>1. CASE UNCHANGED vars
  BY <1>1 DEF vars, callVars, IInv, TypeOK, Reached, Held, Known, Listening
<1>2. CASE FetchFails
  BY <1>2 DEF FetchFails, callVars, IInv, TypeOK, Reached, Held, Known, Listening
<1> QED
  BY <1>1, <1>2, StoreKeeps, RelayKeeps, ConnectKeeps, LeaveKeeps, FetchKeeps, CallKeeps
     DEF Next

\* In every reachable state a subscribed relay has nothing the client was not sent.
THEOREM RecvInvariant == Spec => []IInv
  BY RecvInit, RecvStep, PTL DEF Spec

-----------------------------------------------------------------------------
\* While a call waits, every wrap that a subscribed relay has stored was handed over,
\* is in the notification stream, or was sent to the client before, whatever fails
\* between fetch, stream and subscription.
THEOREM NothingInTheGap == Spec => []NoGap
<1>1. IInv => NoGap
  BY DEF IInv, Reached, Held, NoGap
<1> QED
  BY <1>1, RecvInvariant, PTL

-----------------------------------------------------------------------------
\* A wrap that is handed over is one that is there, can be opened and is new.
LEMMA DeliverHandsOver ==
    ASSUME IInv, NEW w \in found \cup notices, Deliver(w)
    PROVE  M!Next
<1>1. \E r \in Relays : w \in stored[r]
  BY DEF IInv, Known
<1>2. w \in There
  BY <1>1 DEF There
<1>3. There' = There
  BY DEF Deliver, Return, There
<1>4. w \in Openable /\ M!HandOver(w)
  BY <1>2, <1>3 DEF Deliver, M!HandOver, There
<1> QED
  BY <1>4 DEF M!Next

\* Steps that hand nothing over are not seen, or only make wraps arrive.
LEMMA StoreArrives ==
    ASSUME IInv, NEW r \in Relays, NEW w \in Wraps, Store(r, w)
    PROVE  M!Arrive
<1>1. \A q \in Relays : stored[q] \subseteq stored'[q]
  BY DEF Store, IInv, TypeOK
<1>2. There \subseteq There'
  BY <1>1 DEF There
<1> QED
  BY <1>2 DEF Store, M!Arrive, There

LEMMA QuietStep ==
    ASSUME UNCHANGED <<stored, delivered, result>>
    PROVE  UNCHANGED M!mailVars
  BY DEF M!mailVars

LEMMA MailboxStep ==
    ASSUME IInv, [Next]_vars
    PROVE  [M!Next]_(M!mailVars)
<1>1. ASSUME NEW r \in Relays, NEW w \in Wraps, Store(r, w) PROVE M!Next
  BY <1>1, StoreArrives DEF M!Next
<1>2. ASSUME NEW r \in Relays, RelayServes(r) \/ RelayRefuses(r) \/ Drop(r) \/ Redial(r)
      PROVE  UNCHANGED M!mailVars
  BY <1>2, QuietStep DEF RelayServes, RelayRefuses, Drop, Redial
<1>3. ASSUME NEW R \in Configs, NEW C \in SUBSET Relays, Connect(R, C) PROVE M!Reconnect
  <2>1. handed \subseteq There /\ There' = There
    BY <1>3 DEF IInv, Known, There, Connect
  <2> QED
    BY <1>3, <2>1 DEF Connect, M!Reconnect, There
<1>4. CASE Leave
  BY <1>4 DEF Leave, M!Next, M!Reconnect
<1>5. ASSUME NEW A \in SUBSET Relays, Fetch(A) PROVE M!Move
  BY <1>5 DEF Fetch, M!Move
<1>6. CASE FetchFails
  BY <1>6 DEF FetchFails, M!Next, M!Move
<1>7. ASSUME NEW w \in Wraps, HandStored(w) \/ HandNotice(w) PROVE M!Next
  BY <1>7, DeliverHandsOver DEF HandStored, HandNotice
<1>8. CASE (\E w \in Wraps : SkipStored(w) \/ SkipNotice(w))
             \/ OpenStream \/ Subscribe \/ SubscribeFails \/ TimeOut
  BY <1>8, QuietStep
     DEF SkipStored, SkipNotice, OpenStream, Subscribe, SubscribeFails, TimeOut, Return
<1>9. CASE UNCHANGED vars
  BY <1>9, QuietStep DEF vars
<1> QED
  BY <1>1, <1>2, <1>3, <1>4, <1>5, <1>6, <1>7, <1>8, <1>9 DEF Next, Call, M!Next

\* recv_detailed hands over the stored wraps that can be opened and nothing else, each
\* once per transport, and forgets none that it is told of at a reconnect.
THEOREM ImplementsMailbox == Spec => MailboxSpec
<1>1. Init => M!Init
  BY DEF Init, M!Init
<1> QED
  BY <1>1, RecvInvariant, MailboxStep, PTL DEF Spec, MailboxSpec, M!Spec
=============================================================================
