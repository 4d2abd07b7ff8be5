------------------------- MODULE TheaterLocksProofs --------------------------
(***************************************************************************)
(* Whatever tasks run at one time, they never wait for each other in a     *)
(* circle.  Every script takes locks in one order and frees what it took;  *)
(* the scripts are put together from pieces that do.                       *)
(***************************************************************************)
EXTENDS TheaterLocks, TLAPS

Moves == {take(l) : l \in Locks} \cup {free(l) : l \in Locks} \cup {chain}

\* The order in which a task may take locks while it holds others.
Rank == [l \in Locks |-> CASE l = "inner" -> 1 [] l = "alice" -> 2 [] l = "bob" -> 3
                           [] l = "seen" -> 4 [] l = "history" -> 5]

\* Step n of s may be taken with what was taken and not freed before it.
InOrder(s, n) ==
    /\ s[n][1] = "take" => \A m \in HeldAt(s, n) : Rank[m] < Rank[s[n][2]]
    /\ s[n][1] = "free" => s[n][2] \in HeldAt(s, n)

Closed(s) ==
    /\ s \in Seq(Moves) /\ Len(s) > 0
    /\ \A n \in 1 .. Len(s) : InOrder(s, n)
    /\ HeldAt(s, Len(s) + 1) = {}

LEMMA RankType == Rank \in [Locks -> 1 .. 5]
  BY DEF Rank, Locks

-----------------------------------------------------------------------------
(* What a script holds                                                     *)

LEMMA MoveCases ==
    ASSUME NEW m \in Moves
    PROVE  \/ \E l \in Locks : m = take(l) /\ m[1] = "take" /\ m[2] = l
           \/ \E l \in Locks : m = free(l) /\ m[1] = "free" /\ m[2] = l
           \/ m = chain /\ m[1] = "chain"
  BY DEF Moves, take, free, chain

LEMMA HeldAtStart == ASSUME NEW s PROVE HeldAt(s, 1) = {}
  BY DEF HeldAt

LEMMA HeldTakes ==
    ASSUME NEW s, NEW n \in Nat \ {0}, NEW k \in Nat, k = n + 1, NEW l \in Locks,
           s[n] = take(l)
    PROVE  HeldAt(s, k) = HeldAt(s, n) \cup {l}
<1>1. \A m \in Locks : s[n] # free(m)
  BY DEF take, free
<1>2. \A m \in Locks : m # l => s[n] # take(m)
  BY DEF take
<1> QED
  BY <1>1, <1>2 DEF HeldAt

LEMMA HeldFrees ==
    ASSUME NEW s, NEW n \in Nat \ {0}, NEW k \in Nat, k = n + 1, NEW l \in Locks,
           s[n] = free(l)
    PROVE  HeldAt(s, k) = HeldAt(s, n) \ {l}
<1>1. \A m \in Locks : s[n] # take(m)
  BY DEF take, free
<1>2. \A m \in Locks : m # l => s[n] # free(m)
  BY DEF free
<1> QED
  BY <1>1, <1>2 DEF HeldAt

LEMMA HeldKept ==
    ASSUME NEW s, NEW n \in Nat \ {0}, NEW k \in Nat, k = n + 1, s[n] = chain
    PROVE  HeldAt(s, k) = HeldAt(s, n)
<1>1. \A m \in Locks : s[n] # take(m) /\ s[n] # free(m)
  BY DEF take, free, chain
<1> QED
  BY <1>1 DEF HeldAt

\* What comes after a piece that freed all it took does not depend on it.
LEMMA HeldJoined ==
    ASSUME NEW s, NEW t, Closed(s), Closed(t), NEW n \in 1 .. Len(s \o t) + 1
    PROVE  /\ n <= Len(s) + 1 => HeldAt(s \o t, n) = HeldAt(s, n)
           /\ n > Len(s) => HeldAt(s \o t, n) = HeldAt(t, n - Len(s))
<1> DEFINE u == s \o t
<1>1. /\ Len(s) \in Nat /\ Len(t) \in Nat
      /\ Len(u) = Len(s) + Len(t)
      /\ \A i \in 1 .. Len(s) : u[i] = s[i]
      /\ \A i \in 1 .. Len(t) : u[Len(s) + i] = t[i]
  BY DEF Closed
<1>2. ASSUME n <= Len(s) + 1 PROVE HeldAt(u, n) = HeldAt(s, n)
  BY <1>1, <1>2 DEF HeldAt
<1>3. HeldAt(u, Len(s) + 1) = {}
  <2>1. HeldAt(u, Len(s) + 1) = HeldAt(s, Len(s) + 1)
    BY <1>1 DEF HeldAt
  <2> QED
    BY <2>1 DEF Closed
<1>4. ASSUME n > Len(s) PROVE HeldAt(u, n) = HeldAt(t, n - Len(s))
  <2>1. ASSUME NEW l \in HeldAt(t, n - Len(s)) PROVE l \in HeldAt(u, n)
    <3>1. PICK i \in 1 .. n - Len(s) - 1 :
            t[i] = take(l) /\ \A k \in i + 1 .. n - Len(s) - 1 : t[k] # free(l)
      BY <2>1 DEF HeldAt
    <3>2. u[Len(s) + i] = take(l)
      BY <1>1, <3>1
    <3>3. ASSUME NEW k \in Len(s) + i + 1 .. n - 1 PROVE u[k] # free(l)
      <4>1. k - Len(s) \in i + 1 .. n - Len(s) - 1 /\ k - Len(s) \in 1 .. Len(t)
        BY <1>1, <3>3
      <4>2. u[Len(s) + (k - Len(s))] = t[k - Len(s)]
        BY <1>1, <4>1
      <4> QED
        BY <3>1, <4>1, <4>2, <1>1
    <3>4. Len(s) + i \in 1 .. n - 1 /\ l \in Locks
      BY <1>1, <2>1 DEF HeldAt
    <3> QED
      BY <3>2, <3>3, <3>4 DEF HeldAt
  <2>2. ASSUME NEW l \in HeldAt(u, n) PROVE l \in HeldAt(t, n - Len(s))
    <3>1. PICK i \in 1 .. n - 1 :
            u[i] = take(l) /\ \A k \in i + 1 .. n - 1 : u[k] # free(l)
      BY <2>2 DEF HeldAt
    <3>2. i > Len(s)
      <4>1. SUFFICES ASSUME i <= Len(s) PROVE FALSE
        BY <1>1
      <4>2. l \in HeldAt(u, Len(s) + 1)
        BY <1>1, <1>4, <2>2, <3>1, <4>1 DEF HeldAt
      <4> QED
        BY <4>2, <1>3
    <3>3. i - Len(s) \in 1 .. n - Len(s) - 1 /\ i - Len(s) \in 1 .. Len(t)
      BY <1>1, <3>1, <3>2
    <3>4. t[i - Len(s)] = take(l)
      <4>1. u[Len(s) + (i - Len(s))] = t[i - Len(s)]
        BY <1>1, <3>3
      <4> QED
        BY <1>1, <3>1, <4>1
    <3>5. ASSUME NEW k \in i - Len(s) + 1 .. n - Len(s) - 1 PROVE t[k] # free(l)
      <4>1. k \in 1 .. Len(t) /\ Len(s) + k \in i + 1 .. n - 1
        BY <1>1, <3>3, <3>5
      <4> QED
        BY <1>1, <3>1, <4>1
    <3> QED
      BY <3>3, <3>4, <3>5, <2>2 DEF HeldAt
  <2> QED
    BY <2>1, <2>2
<1> QED
  BY <1>2, <1>4

LEMMA Joined ==
    ASSUME NEW s, NEW t, Closed(s), Closed(t)
    PROVE  Closed(s \o t)
<1>1. /\ Len(s) \in Nat /\ Len(t) \in Nat
      /\ Len(s \o t) = Len(s) + Len(t)
      /\ \A i \in 1 .. Len(s) : (s \o t)[i] = s[i]
      /\ \A i \in 1 .. Len(t) : (s \o t)[Len(s) + i] = t[i]
      /\ s \o t \in Seq(Moves)
  BY DEF Closed
<1>2. ASSUME NEW n \in 1 .. Len(s \o t) PROVE InOrder(s \o t, n)
  <2>1. CASE n <= Len(s)
    <3>1. HeldAt(s \o t, n) = HeldAt(s, n)
      BY <1>1, <2>1, HeldJoined
    <3> QED
      BY <1>1, <2>1, <3>1 DEF Closed, InOrder
  <2>2. CASE n > Len(s)
    <3>1. n - Len(s) \in 1 .. Len(t)
      BY <1>1, <2>2
    <3>2. HeldAt(s \o t, n) = HeldAt(t, n - Len(s))
      BY <1>1, <2>2, HeldJoined
    <3>3. (s \o t)[Len(s) + (n - Len(s))] = t[n - Len(s)]
      BY <1>1, <3>1
    <3>4. (s \o t)[n] = t[n - Len(s)]
      BY <1>1, <3>3
    <3> QED
      BY <3>1, <3>2, <3>4 DEF Closed, InOrder
  <2> QED
    BY <1>1, <2>1, <2>2
<1>3. HeldAt(s \o t, Len(s \o t) + 1) = {}
  <2>1. HeldAt(s \o t, Len(s \o t) + 1) = HeldAt(t, Len(s \o t) + 1 - Len(s))
    BY <1>1, HeldJoined
  <2>2. Len(s \o t) + 1 - Len(s) = Len(t) + 1
    BY <1>1
  <2> QED
    BY <2>1, <2>2 DEF Closed
<1> QED
  BY <1>1, <1>2, <1>3 DEF Closed

-----------------------------------------------------------------------------
(* The scripts                                                             *)

LEMMA LockNames ==
    /\ "inner" \in Locks /\ "alice" \in Locks /\ "bob" \in Locks
    /\ "seen" \in Locks /\ "history" \in Locks
  BY DEF Locks

LEMMA RankOrder ==
    /\ Rank["inner"] < Rank["bob"] /\ Rank["alice"] < Rank["bob"]
    /\ Rank["bob"] < Rank["seen"] /\ Rank["bob"] < Rank["history"]
    /\ Rank["seen"] < Rank["history"]
  BY DEF Rank, Locks

\* A lock that is taken and freed with nothing or a chain call in between
LEMMA OneLock ==
    ASSUME NEW l \in Locks
    PROVE  /\ Closed(<<take(l), free(l)>>)
           /\ Closed(<<take(l), chain, free(l)>>)
<1>1. Closed(<<take(l), free(l)>>)
  <2> DEFINE s == <<take(l), free(l)>>
  <2>1. s \in Seq(Moves) /\ Len(s) = 2 /\ s[1] = take(l) /\ s[2] = free(l)
    BY DEF Moves
  <2> HIDE DEF s
  <2>2. HeldAt(s, 1) = {}
    BY HeldAtStart
  <2>3. HeldAt(s, 2) = {l}
    BY <2>1, <2>2, HeldTakes
  <2>4. HeldAt(s, 3) = {}
    BY <2>1, <2>3, HeldFrees
  <2>5. InOrder(s, 1) /\ InOrder(s, 2)
    BY <2>1, <2>2, <2>3 DEF InOrder, take, free
  <2>6. Closed(s)
    BY <2>1, <2>4, <2>5 DEF Closed
  <2> QED
    BY <2>6 DEF s
<1>2. Closed(<<take(l), chain, free(l)>>)
  <2> DEFINE s == <<take(l), chain, free(l)>>
  <2>1. s \in Seq(Moves) /\ Len(s) = 3 /\ s[1] = take(l) /\ s[2] = chain /\ s[3] = free(l)
    BY DEF Moves
  <2> HIDE DEF s
  <2>2. HeldAt(s, 1) = {}
    BY HeldAtStart
  <2>3. HeldAt(s, 2) = {l}
    BY <2>1, <2>2, HeldTakes
  <2>4. HeldAt(s, 3) = {l}
    BY <2>1, <2>3, HeldKept
  <2>5. HeldAt(s, 4) = {}
    BY <2>1, <2>4, HeldFrees
  <2>6. InOrder(s, 1) /\ InOrder(s, 2) /\ InOrder(s, 3)
    BY <2>1, <2>2, <2>3, <2>4 DEF InOrder, take, free, chain
  <2>7. Closed(s)
    BY <2>1, <2>5, <2>6 DEF Closed
  <2> QED
    BY <2>7 DEF s
<1> QED
  BY <1>1, <1>2

\* create_invoice: Bob's wallet while `inner' is held
LEMMA AddressAsked ==
    Closed(<<take("inner"), take("bob"), free("bob"), free("inner")>>)
<1> DEFINE s == <<take("inner"), take("bob"), free("bob"), free("inner")>>
<1>1. /\ s \in Seq(Moves) /\ Len(s) = 4
      /\ s[1] = take("inner") /\ s[2] = take("bob") /\ s[3] = free("bob")
      /\ s[4] = free("inner")
  BY LockNames DEF Moves
<1> HIDE DEF s
<1>2. /\ HeldAt(s, 1) = {}
      /\ HeldAt(s, 2) = HeldAt(s, 1) \cup {"inner"}
      /\ HeldAt(s, 3) = HeldAt(s, 2) \cup {"bob"}
      /\ HeldAt(s, 4) = HeldAt(s, 3) \ {"bob"}
      /\ HeldAt(s, 5) = HeldAt(s, 4) \ {"inner"}
  BY <1>1, HeldAtStart, HeldTakes, HeldFrees, HeldKept, LockNames
<1>3. /\ HeldAt(s, 2) = {"inner"}
      /\ HeldAt(s, 3) = {"inner", "bob"}
      /\ HeldAt(s, 4) = {"inner"}
      /\ HeldAt(s, 5) = {}
  BY <1>2
<1>4. /\ InOrder(s, 1) /\ InOrder(s, 2) /\ InOrder(s, 3) /\ InOrder(s, 4)
  BY <1>1, <1>2, <1>3, RankOrder DEF InOrder, take, free, chain
<1>5. Closed(s)
  BY <1>1, <1>3, <1>4 DEF Closed
<1> QED
  BY <1>5 DEF s

\* alice_pay_steps: Bob's wallet while Alice's is held
LEMMA BothWallets ==
    Closed(<<take("alice"), chain, take("bob"), free("bob"), free("alice")>>)
<1> DEFINE s == <<take("alice"), chain, take("bob"), free("bob"), free("alice")>>
<1>1. /\ s \in Seq(Moves) /\ Len(s) = 5
      /\ s[1] = take("alice") /\ s[2] = chain /\ s[3] = take("bob")
      /\ s[4] = free("bob") /\ s[5] = free("alice")
  BY LockNames DEF Moves
<1> HIDE DEF s
<1>2. /\ HeldAt(s, 1) = {}
      /\ HeldAt(s, 2) = HeldAt(s, 1) \cup {"alice"}
      /\ HeldAt(s, 3) = HeldAt(s, 2)
      /\ HeldAt(s, 4) = HeldAt(s, 3) \cup {"bob"}
      /\ HeldAt(s, 5) = HeldAt(s, 4) \ {"bob"}
      /\ HeldAt(s, 6) = HeldAt(s, 5) \ {"alice"}
  BY <1>1, HeldAtStart, HeldTakes, HeldFrees, HeldKept, LockNames
<1>3. /\ HeldAt(s, 2) = {"alice"}
      /\ HeldAt(s, 3) = {"alice"}
      /\ HeldAt(s, 4) = {"alice", "bob"}
      /\ HeldAt(s, 5) = {"alice"}
      /\ HeldAt(s, 6) = {}
  BY <1>2
<1>4. /\ InOrder(s, 1) /\ InOrder(s, 2) /\ InOrder(s, 3) /\ InOrder(s, 4)
      /\ InOrder(s, 5)
  BY <1>1, <1>2, <1>3, RankOrder DEF InOrder, take, free, chain
<1>5. Closed(s)
  BY <1>1, <1>3, <1>4 DEF Closed
<1> QED
  BY <1>5 DEF s

\* bob_handle: the seen list while his wallet is held, and the history within both
LEMMA NoteJudged ==
    Closed(<<take("bob"), chain, take("seen")>> \o Emit \o <<free("seen"), free("bob")>>)
<1> DEFINE s == <<take("bob"), chain, take("seen"), take("history"), free("history"),
                  free("seen"), free("bob")>>
<1>1. /\ s \in Seq(Moves) /\ Len(s) = 7
      /\ s[1] = take("bob") /\ s[2] = chain /\ s[3] = take("seen")
      /\ s[4] = take("history") /\ s[5] = free("history") /\ s[6] = free("seen")
      /\ s[7] = free("bob")
  BY LockNames DEF Moves
<1>2. s = <<take("bob"), chain, take("seen")>> \o Emit \o <<free("seen"), free("bob")>>
  <2>1. <<take("bob"), chain, take("seen"), take("history"), free("history")>>
        = <<take("bob"), chain, take("seen")>> \o Emit
    BY DEF Emit
  <2>2. s = <<take("bob"), chain, take("seen"), take("history"), free("history")>>
            \o <<free("seen"), free("bob")>>
    OBVIOUS
  <2> QED
    BY <2>1, <2>2
<1> HIDE DEF s
<1>3. /\ HeldAt(s, 1) = {}
      /\ HeldAt(s, 2) = HeldAt(s, 1) \cup {"bob"}
      /\ HeldAt(s, 3) = HeldAt(s, 2)
      /\ HeldAt(s, 4) = HeldAt(s, 3) \cup {"seen"}
      /\ HeldAt(s, 5) = HeldAt(s, 4) \cup {"history"}
      /\ HeldAt(s, 6) = HeldAt(s, 5) \ {"history"}
      /\ HeldAt(s, 7) = HeldAt(s, 6) \ {"seen"}
      /\ HeldAt(s, 8) = HeldAt(s, 7) \ {"bob"}
  <2>1. HeldAt(s, 1) = {} /\ HeldAt(s, 3) = HeldAt(s, 2)
    BY <1>1, HeldAtStart, HeldKept
  <2>2. /\ HeldAt(s, 2) = HeldAt(s, 1) \cup {"bob"}
        /\ HeldAt(s, 4) = HeldAt(s, 3) \cup {"seen"}
    BY <1>1, HeldTakes, LockNames
  <2>3. HeldAt(s, 5) = HeldAt(s, 4) \cup {"history"}
    BY <1>1, HeldTakes, LockNames
  <2>4. /\ HeldAt(s, 6) = HeldAt(s, 5) \ {"history"}
        /\ HeldAt(s, 7) = HeldAt(s, 6) \ {"seen"}
        /\ HeldAt(s, 8) = HeldAt(s, 7) \ {"bob"}
    BY <1>1, HeldFrees, LockNames
  <2> QED
    BY <2>1, <2>2, <2>3, <2>4
<1>4. /\ HeldAt(s, 2) = {"bob"}
      /\ HeldAt(s, 3) = {"bob"}
      /\ HeldAt(s, 4) = {"bob", "seen"}
  BY <1>3
<1>5. /\ HeldAt(s, 5) = {"bob", "seen", "history"}
      /\ HeldAt(s, 6) = {"bob", "seen"}
  <2>1. HeldAt(s, 5) = {"bob", "seen", "history"}
    BY <1>3, <1>4
  <2> QED
    BY <1>3, <2>1
<1>6. HeldAt(s, 7) = {"bob"} /\ HeldAt(s, 8) = {}
  BY <1>3, <1>5
<1>7. /\ InOrder(s, 1) /\ InOrder(s, 2) /\ InOrder(s, 3) /\ InOrder(s, 4)
      /\ InOrder(s, 5) /\ InOrder(s, 6) /\ InOrder(s, 7)
  BY <1>1, <1>3, <1>4, <1>5, <1>6, RankOrder DEF InOrder, take, free, chain
<1>8. Closed(s)
  BY <1>1, <1>6, <1>7 DEF Closed
<1> QED
  BY <1>8, <1>2

LEMMA EmitClosed == Closed(Emit) /\ Closed(Inner)
  BY OneLock DEF Emit, Inner, Locks

LEMMA ScriptsClosed == \A job \in DOMAIN Script : Closed(Script[job])
<1>1. Closed(refresh_balances)
  <2>1. Closed(<<take("alice"), chain, free("alice")>>)
        /\ Closed(<<take("bob"), chain, free("bob")>>)
    BY OneLock DEF Locks
  <2>2. <<take("alice"), chain, free("alice"), take("bob"), chain, free("bob")>>
        = <<take("alice"), chain, free("alice")>> \o <<take("bob"), chain, free("bob")>>
    OBVIOUS
  <2> QED
    BY <2>1, <2>2, EmitClosed, Joined DEF refresh_balances
<1>2. Closed(create_invoice)
  BY AddressAsked, EmitClosed, Joined DEF create_invoice
<1>3. Closed(handler) /\ Closed(stream_events)
  BY EmitClosed, Joined DEF handler, stream_events
<1>4. Closed(bob_handle)
  <2>1. bob_handle = Emit \o (<<take("bob"), chain, take("seen")>> \o Emit
                              \o <<free("seen"), free("bob")>>) \o Emit
    BY DEF bob_handle, Emit
  <2> QED
    BY <2>1, NoteJudged, EmitClosed, Joined
<1>5. Closed(alice_pay)
  <2>1. Closed(<<take("alice"), chain, free("alice")>>)
    BY OneLock DEF Locks
  <2>2. Closed(Emit \o <<take("alice"), chain, free("alice")>> \o Emit \o Inner)
    BY <2>1, EmitClosed, Joined
  <2> QED
    BY <1>1, <2>2, BothWallets, EmitClosed, Joined DEF alice_pay
<1>6. Closed(watch_confirmation)
  <2>1. Closed(<<take("alice"), chain, free("alice")>>)
    BY OneLock DEF Locks
  <2> QED
    BY <1>1, <2>1, EmitClosed, Joined DEF watch_confirmation
<1> QED
  BY <1>2, <1>3, <1>4, <1>5, <1>6 DEF Script

-----------------------------------------------------------------------------
(* The induction                                                           *)

Mine(t) == Script[JobOf[t]]

LEMMA TaskScript ==
    ASSUME NEW t \in Tasks
    PROVE  Closed(Mine(t)) /\ Mine(t) \in Seq(Moves) /\ Len(Mine(t)) \in Nat \ {0}
<1>1. Closed(Mine(t))
  BY LocksAssumption, ScriptsClosed DEF Mine
<1> QED
  BY <1>1 DEF Closed

\* After a step a task holds what its script says, also when it begins again.
LEMMA Advanced ==
    ASSUME TypeOK, NEW t \in Tasks, Advance(t)
    PROVE  /\ Holds(t)' = HeldAt(Mine(t), pc[t] + 1)
           /\ pc'[t] \in 1 .. Len(Mine(t))
           /\ \A u \in Tasks : u # t => Holds(u)' = Holds(u) /\ pc'[u] = pc[u]
           /\ pc' \in [Tasks -> Nat]
<1>1. /\ pc[t] \in 1 .. Len(Mine(t)) /\ pc \in [Tasks -> Nat]
      /\ Len(Mine(t)) \in Nat \ {0}
      /\ HeldAt(Mine(t), Len(Mine(t)) + 1) = {}
  BY TaskScript DEF TypeOK, Mine, Closed
<1>2. pc' = [pc EXCEPT ![t] = IF @ = Len(Mine(t)) THEN 1 ELSE @ + 1]
  BY DEF Advance, Mine
<1>3. /\ pc'[t] = IF pc[t] = Len(Mine(t)) THEN 1 ELSE pc[t] + 1
      /\ \A u \in Tasks : u # t => pc'[u] = pc[u]
      /\ pc' \in [Tasks -> Nat]
  BY <1>1, <1>2
<1>4. Holds(t)' = HeldAt(Mine(t), pc'[t]) /\ \A u \in Tasks : u # t => Holds(u)' = Holds(u)
  BY <1>3 DEF Holds, Mine
<1>5. Holds(t)' = HeldAt(Mine(t), pc[t] + 1)
  BY <1>1, <1>3, <1>4, HeldAtStart
<1> QED
  BY <1>1, <1>3, <1>4, <1>5

LEMMA LocksInit == Init => IInv
<1> SUFFICES ASSUME Init PROVE IInv
  OBVIOUS
<1>1. /\ pc = [t \in Tasks |-> 1] /\ holder = [l \in Locks |-> {}]
  BY DEF Init
<1>2. \A t \in Tasks : Holds(t) = {}
  BY <1>1, HeldAtStart DEF Holds
<1>3. ASSUME NEW t \in Tasks PROVE 1 \in 1 .. Len(Script[JobOf[t]])
  <2>1. Len(Mine(t)) \in Nat \ {0}
    BY TaskScript
  <2>2. 1 \in 1 .. Len(Mine(t))
    BY <2>1
  <2> QED
    BY <2>2 DEF Mine
<1> QED
  BY <1>1, <1>2, <1>3 DEF IInv, TypeOK

\* What remains to be shown of a step that changes who holds what as its script does.
LEMMA HolderFollows ==
    ASSUME IInv, NEW t \in Tasks, Advance(t),
           holder' \in [Locks -> SUBSET Tasks],
           \A l \in Locks : \A u, v \in holder'[l] : u = v,
           \A l \in Locks : /\ t \in holder'[l] <=> l \in HeldAt(Mine(t), pc[t] + 1)
                            /\ \A u \in Tasks : u # t => (u \in holder'[l] <=> u \in holder[l])
    PROVE  IInv'
<1>1. /\ Holds(t)' = HeldAt(Mine(t), pc[t] + 1)
      /\ pc'[t] \in 1 .. Len(Mine(t))
      /\ \A u \in Tasks : u # t => Holds(u)' = Holds(u) /\ pc'[u] = pc[u]
      /\ pc' \in [Tasks -> Nat]
  BY Advanced DEF IInv
<1>2. \A l \in Locks : holder'[l] = {u \in Tasks : l \in Holds(u)'}
  BY <1>1 DEF IInv
<1>3. \A u \in Tasks : pc'[u] = 1 => \A l \in Locks : u \notin holder'[l]
  <2>1. \A u \in Tasks : pc'[u] = 1 => Holds(u)' = {}
    BY HeldAtStart DEF Holds
  <2> QED
    BY <1>2, <2>1
<1>4. \A u \in Tasks : pc'[u] \in 1 .. Len(Script[JobOf[u]])
  BY <1>1 DEF IInv, TypeOK, Mine
<1> QED
  BY <1>1, <1>2, <1>3, <1>4 DEF IInv, TypeOK

LEMMA StepKeeps ==
    ASSUME IInv, NEW t \in Tasks, Step(t)
    PROVE  IInv'
<1> DEFINE m == Ahead(t)
<1>1. /\ pc[t] \in 1 .. Len(Mine(t)) /\ pc[t] \in Nat \ {0} /\ pc[t] + 1 \in Nat
      /\ m = Mine(t)[pc[t]] /\ m \in Moves
      /\ InOrder(Mine(t), pc[t])
      /\ Holds(t) = HeldAt(Mine(t), pc[t])
  BY TaskScript DEF IInv, TypeOK, Ahead, Mine, Holds, Closed
<1>2. /\ holder \in [Locks -> SUBSET Tasks]
      /\ \A l \in Locks : \A u, v \in holder[l] : u = v
      /\ \A l \in Locks : t \in holder[l] <=> l \in Holds(t)
  BY DEF IInv, TypeOK
<1> HIDE DEF m
<1>3. CASE Take(t)
  <2>1. PICK l \in Locks : m = take(l) /\ m[2] = l
    BY <1>1, <1>3, MoveCases DEF Take, m
  <2>2. /\ Advance(t) /\ holder[l] = {}
        /\ holder' = [holder EXCEPT ![l] = {t}]
    BY <1>3, <2>1 DEF Take, m
  <2>3. HeldAt(Mine(t), pc[t] + 1) = HeldAt(Mine(t), pc[t]) \cup {l}
    <3>1. Mine(t)[pc[t]] = take(l)
      BY <1>1, <2>1
    <3>2. \A n \in Nat \ {0}, k \in Nat : k = n + 1 /\ Mine(t)[n] = take(l) =>
            HeldAt(Mine(t), k) = HeldAt(Mine(t), n) \cup {l}
      BY HeldTakes
    <3> QED
      BY <1>1, <3>1, <3>2
  <2>4. /\ holder'[l] = {t}
        /\ \A k \in Locks : k # l => holder'[k] = holder[k]
        /\ holder' \in [Locks -> SUBSET Tasks]
    BY <1>2, <2>2
  <2>5. \A k \in Locks : \A u, v \in holder'[k] : u = v
    BY <1>2, <2>4
  <2>6. \A k \in Locks : t \in holder'[k] <=> k \in HeldAt(Mine(t), pc[t] + 1)
    BY <1>1, <1>2, <2>3, <2>4
  <2>7. \A k \in Locks : \A u \in Tasks : u # t => (u \in holder'[k] <=> u \in holder[k])
    BY <2>2, <2>4
  <2> QED
    BY <2>2, <2>4, <2>5, <2>6, <2>7, HolderFollows
<1>4. CASE Free(t)
  <2>1. PICK l \in Locks : m = free(l) /\ m[1] = "free" /\ m[2] = l
    BY <1>1, <1>4, MoveCases DEF Free, m
  <2>2. /\ Advance(t)
        /\ holder' = [holder EXCEPT ![l] = {}]
    BY <1>4, <2>1 DEF Free, m
  <2>3. HeldAt(Mine(t), pc[t] + 1) = HeldAt(Mine(t), pc[t]) \ {l}
    <3>1. Mine(t)[pc[t]] = free(l)
      BY <1>1, <2>1
    <3>2. \A n \in Nat \ {0}, k \in Nat : k = n + 1 /\ Mine(t)[n] = free(l) =>
            HeldAt(Mine(t), k) = HeldAt(Mine(t), n) \ {l}
      BY HeldFrees
    <3> QED
      BY <1>1, <3>1, <3>2
  <2>4. t \in holder[l]
    BY <1>1, <1>2, <2>1 DEF InOrder, m
  <2>5. \A u \in holder[l] : u = t
    BY <1>2, <2>4
  <2>6. /\ holder'[l] = {}
        /\ \A k \in Locks : k # l => holder'[k] = holder[k]
        /\ holder' \in [Locks -> SUBSET Tasks]
    BY <1>2, <2>2
  <2>7. \A k \in Locks : \A u, v \in holder'[k] : u = v
    BY <1>2, <2>6
  <2>8. \A k \in Locks : t \in holder'[k] <=> k \in HeldAt(Mine(t), pc[t] + 1)
    BY <1>1, <1>2, <2>3, <2>6
  <2>9. \A k \in Locks : \A u \in Tasks : u # t => (u \in holder'[k] <=> u \in holder[k])
    BY <2>5, <2>6
  <2> QED
    BY <2>2, <2>6, <2>7, <2>8, <2>9, HolderFollows
<1>5. CASE Answered(t)
  <2>1. m = chain
    BY <1>1, <1>5, MoveCases DEF Answered, m
  <2>2. Advance(t) /\ holder' = holder
    BY <1>5 DEF Answered
  <2>3. HeldAt(Mine(t), pc[t] + 1) = HeldAt(Mine(t), pc[t])
    BY <1>1, <2>1, HeldKept
  <2> QED
    BY <1>1, <1>2, <2>2, <2>3, HolderFollows
<1> QED
  BY <1>3, <1>4, <1>5 DEF Step

LEMMA LocksInvariant == Spec => []IInv
<1>1. IInv /\ [Next]_vars => IInv'
  <2> SUFFICES ASSUME IInv, [Next]_vars PROVE IInv'
    OBVIOUS
  <2>1. CASE UNCHANGED vars
    BY <2>1 DEF vars, IInv, TypeOK, Holds
  <2> QED
    BY <2>1, StepKeeps DEF Next
<1> QED
  BY <1>1, LocksInit, PTL DEF Spec

-----------------------------------------------------------------------------
(* No circle                                                               *)

\* Of the locks that tasks of a group wait for, one comes last.
LEMMA LastLock ==
    ASSUME NEW S \in SUBSET Locks, S # {}
    PROVE  \E l \in S : \A k \in S : Rank[k] <= Rank[l]
<1>1. ASSUME \E n \in 1 .. 5 : (\E l \in S : Rank[l] = n) /\ \A k \in S : Rank[k] <= n
      PROVE  \E l \in S : \A k \in S : Rank[k] <= Rank[l]
  BY <1>1
<1>2. \A k \in S : Rank[k] \in 1 .. 5
  BY RankType
<1> QED
  BY <1>1, <1>2

\* A task that takes a lock holds only locks that come before it.
LEMMA WaitsUpwards ==
    ASSUME IInv, NEW t \in Tasks, Ahead(t)[1] = "take"
    PROVE  /\ Ahead(t)[2] \in Locks
           /\ \A l \in Locks : t \in holder[l] => Rank[l] < Rank[Ahead(t)[2]]
<1>1. /\ Ahead(t) \in Moves
      /\ InOrder(Mine(t), pc[t]) /\ Ahead(t) = Mine(t)[pc[t]]
      /\ Holds(t) = HeldAt(Mine(t), pc[t])
  BY TaskScript DEF IInv, TypeOK, Ahead, Mine, Holds, Closed
<1>2. Ahead(t)[2] \in Locks
  BY <1>1, MoveCases
<1>3. \A l \in Locks : t \in holder[l] => l \in Holds(t)
  BY DEF IInv
<1> QED
  BY <1>1, <1>2, <1>3 DEF InOrder

LEMMA NobodyInCircle == IInv => NoCycle
<1> SUFFICES ASSUME IInv, NEW group \in (SUBSET Tasks) \ {{}},
                    \A t \in group : \E u \in group : WaitsFor(t, u)
             PROVE  FALSE
  BY DEF NoCycle
<1> DEFINE awaited == {Ahead(t)[2] : t \in group}
<1>1. \A t \in group : Ahead(t)[1] = "take" /\ Ahead(t)[2] \in Locks
  BY WaitsUpwards DEF WaitsFor
<1>2. PICK l \in awaited : \A k \in awaited : Rank[k] <= Rank[l]
  <2>1. awaited \in SUBSET Locks /\ awaited # {}
    BY <1>1
  <2> HIDE DEF awaited
  <2> QED
    BY <2>1, LastLock, Zenon
<1>3. PICK t \in group : l = Ahead(t)[2]
  BY <1>2
<1>4. PICK u \in group : u \in holder[l]
  BY <1>3 DEF WaitsFor
<1>5. Rank[l] < Rank[Ahead(u)[2]]
  BY <1>1, <1>3, <1>4, WaitsUpwards
<1>6. Rank[l] \in Int /\ Rank[Ahead(u)[2]] \in Int
  BY <1>1, <1>3, <1>4, RankType
<1> QED
  BY <1>2, <1>4, <1>5, <1>6

\* Any number of tasks of any kind: in every group of them some task waits for none of
\* the group, so no circle of tasks that wait for each other ever forms.
THEOREM NobodyWaitsInCircle == Spec => []NoCycle
  BY LocksInvariant, NobodyInCircle, PTL

\* Some task has its next step before it, whatever the others hold: a free lock, a lock
\* to give back, or a call of the chain server.
Movable(t) == Ahead(t)[1] = "take" => holder[Ahead(t)[2]] = {}

THEOREM NeverStuck == Tasks # {} => (Spec => [](\E t \in Tasks : Movable(t)))
<1> SUFFICES ASSUME Tasks # {} PROVE Spec => [](\E t \in Tasks : Movable(t))
  OBVIOUS
<1>1. IInv => \E t \in Tasks : Movable(t)
  <2> SUFFICES ASSUME IInv PROVE \E t \in Tasks : Movable(t)
    OBVIOUS
  <2>1. PICK t \in Tasks : \A u \in Tasks : ~WaitsFor(t, u)
    BY NobodyInCircle DEF NoCycle
  <2>2. Ahead(t)[1] = "take" => holder[Ahead(t)[2]] \subseteq Tasks
    BY WaitsUpwards DEF IInv, TypeOK
  <2> QED
    BY <2>1, <2>2 DEF WaitsFor, Movable
<1> QED
  BY <1>1, LocksInvariant, PTL
=============================================================================
