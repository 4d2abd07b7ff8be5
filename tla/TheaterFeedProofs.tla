-------------------------- MODULE TheaterFeedProofs --------------------------
(***************************************************************************)
(* For every number of handlers and pages, and whatever the channel keeps  *)
(* for a slow page: no page shows an event twice or out of order.          *)
(***************************************************************************)
EXTENDS TheaterFeed, TLAPS

\* The numbers of the events of s, and what it is that all of s comes before t.
Numbers(s) == {s[i].n : i \in {j \in DOMAIN s : s[j].type = "event"}}
Before(s, t) == \A a \in Numbers(s), b \in Numbers(t) : a < b

-----------------------------------------------------------------------------
(* Messages in a row                                                       *)

LEMMA Joined ==
    ASSUME NEW s \in Seq(Messages), NEW t \in Seq(Messages)
    PROVE  /\ s \o t \in Seq(Messages)
           /\ Numbers(s \o t) = Numbers(s) \cup Numbers(t)
           /\ InOrder(s \o t) <=> InOrder(s) /\ InOrder(t) /\ Before(s, t)
           /\ \A e, v : UpTo(s \o t, e, v) <=> UpTo(s, e, v) /\ UpTo(t, e, v)
<1>1. /\ s \o t \in Seq(Messages) /\ Len(s) \in Nat /\ Len(t) \in Nat
      /\ DOMAIN s = 1 .. Len(s) /\ DOMAIN t = 1 .. Len(t)
      /\ DOMAIN (s \o t) = 1 .. Len(s) + Len(t)
      /\ \A i \in 1 .. Len(s) : (s \o t)[i] = s[i]
      /\ \A i \in 1 .. Len(t) : (s \o t)[Len(s) + i] = t[i]
  OBVIOUS
<1>2. \A i \in DOMAIN (s \o t) :
        \/ i \in DOMAIN s /\ (s \o t)[i] = s[i]
        \/ i - Len(s) \in DOMAIN t /\ (s \o t)[i] = t[i - Len(s)]
  BY <1>1
<1>3. /\ \A i \in DOMAIN s : i \in DOMAIN (s \o t)
      /\ \A i \in DOMAIN t : Len(s) + i \in DOMAIN (s \o t)
  BY <1>1
<1>4. Numbers(s \o t) = Numbers(s) \cup Numbers(t)
  BY <1>1, <1>2, <1>3 DEF Numbers
<1>5. ASSUME InOrder(s \o t) PROVE InOrder(s) /\ InOrder(t) /\ Before(s, t)
  <2>1. InOrder(s)
    BY <1>1, <1>3, <1>5 DEF InOrder
  <2>2. InOrder(t)
    BY <1>1, <1>3, <1>5 DEF InOrder
  <2>3. ASSUME NEW i \in DOMAIN s, NEW j \in DOMAIN t, s[i].type = "event", t[j].type = "event"
        PROVE  s[i].n < t[j].n
    <3>1. /\ i \in DOMAIN (s \o t) /\ Len(s) + j \in DOMAIN (s \o t) /\ i < Len(s) + j
          /\ (s \o t)[i] = s[i] /\ (s \o t)[Len(s) + j] = t[j]
      BY <1>1, <1>3, <2>3
    <3> QED
      BY <1>5, <2>3, <3>1 DEF InOrder
  <2> QED
    BY <2>1, <2>2, <2>3 DEF Before, Numbers
<1>6. ASSUME InOrder(s), InOrder(t), Before(s, t) PROVE InOrder(s \o t)
  <2> SUFFICES ASSUME NEW i \in DOMAIN (s \o t), NEW j \in DOMAIN (s \o t), i < j,
                      (s \o t)[i].type = "event", (s \o t)[j].type = "event"
               PROVE  (s \o t)[i].n < (s \o t)[j].n
    BY DEF InOrder
  <2>1. CASE j \in DOMAIN s
    BY <1>1, <1>6, <2>1 DEF InOrder
  <2>2. CASE i \notin DOMAIN s
    <3>1. /\ i - Len(s) \in DOMAIN t /\ j - Len(s) \in DOMAIN t
          /\ (s \o t)[i] = t[i - Len(s)] /\ (s \o t)[j] = t[j - Len(s)]
          /\ i - Len(s) < j - Len(s)
      BY <1>1, <1>2, <2>2
    <3> QED
      BY <1>6, <3>1 DEF InOrder
  <2>3. CASE i \in DOMAIN s /\ j \notin DOMAIN s
    <3>1. /\ (s \o t)[i] = s[i]
          /\ j - Len(s) \in DOMAIN t /\ (s \o t)[j] = t[j - Len(s)]
      BY <1>1, <1>2, <2>3
    <3>2. s[i].n \in Numbers(s) /\ t[j - Len(s)].n \in Numbers(t)
      BY <2>3, <3>1 DEF Numbers
    <3> QED
      BY <1>6, <3>1, <3>2 DEF Before
  <2> QED
    BY <1>1, <2>1, <2>2, <2>3
<1>7. \A e, v : UpTo(s \o t, e, v) <=> UpTo(s, e, v) /\ UpTo(t, e, v)
  BY <1>1, <1>2, <1>3 DEF UpTo
<1> QED
  BY <1>1, <1>4, <1>5, <1>6, <1>7

LEMMA Single ==
    ASSUME NEW m \in Messages
    PROVE  /\ <<m>> \in Seq(Messages) /\ InOrder(<<m>>)
           /\ m.type = "event" => Numbers(<<m>>) = {m.n}
           /\ m.type # "event" => Numbers(<<m>>) = {}
           /\ \A e, v : UpTo(<<m>>, e, v) <=> /\ m.type = "event" => m.n <= e
                                              /\ m.type = "state" => m.n <= v
  BY DEF InOrder, Numbers, UpTo

LEMMA Empty ==
    /\ <<>> \in Seq(Messages) /\ InOrder(<<>>) /\ Numbers(<<>>) = {}
    /\ \A e, v : UpTo(<<>>, e, v)
  BY DEF InOrder, Numbers, UpTo

LEMMA Split ==
    ASSUME NEW s \in Seq(Messages), s # <<>>
    PROVE  /\ Head(s) \in Messages /\ Tail(s) \in Seq(Messages)
           /\ s = <<Head(s)>> \o Tail(s) /\ Len(Tail(s)) = Len(s) - 1
  OBVIOUS

LEMMA Appended ==
    ASSUME NEW s \in Seq(Messages), NEW m \in Messages
    PROVE  Append(s, m) = s \o <<m>> /\ Len(Append(s, m)) = Len(s) + 1
  OBVIOUS

LEMMA Parts ==
    ASSUME NEW a \in Seq(Messages), NEW b \in Seq(Messages), NEW c \in Seq(Messages)
    PROVE  /\ a \o b \o c \in Seq(Messages)
           /\ Numbers(a \o b \o c) = Numbers(a) \cup Numbers(b) \cup Numbers(c)
           /\ InOrder(a \o b \o c) <=> /\ InOrder(a) /\ InOrder(b) /\ InOrder(c)
                                       /\ Before(a, b) /\ Before(a, c) /\ Before(b, c)
           /\ \A e, v : UpTo(a \o b \o c, e, v) <=>
                          UpTo(a, e, v) /\ UpTo(b, e, v) /\ UpTo(c, e, v)
<1>1. a \o b \in Seq(Messages)
  BY Joined
<1>2. Before(a \o b, c) <=> Before(a, c) /\ Before(b, c)
  BY Joined DEF Before
<1> QED
  BY <1>1, <1>2, Joined

LEMMA NothingPending ==
    ASSUME NEW a \in Seq(Messages), NEW b \in Seq(Messages), NEW c \in Seq(Messages),
           a \o b \o c = <<>>
    PROVE  a = <<>> /\ b = <<>> /\ c = <<>>
  OBVIOUS

LEMMA MessageNumbers ==
    ASSUME NEW s \in Seq(Messages), NEW i \in DOMAIN s
    PROVE  s[i].n \in Nat
<1>1. s[i] \in Messages
  OBVIOUS
<1> QED
  BY <1>1 DEF Messages

LEMMA UpToKept ==
    ASSUME NEW s \in Seq(Messages), NEW e \in Nat, NEW v \in Nat, UpTo(s, e, v),
           NEW f \in Nat, NEW w \in Nat, e <= f, v <= w
    PROVE  UpTo(s, f, w)
<1>1. \A i \in DOMAIN s : s[i].n \in Nat
  BY MessageNumbers
<1> QED
  BY <1>1 DEF UpTo

LEMMA NumbersUpTo ==
    ASSUME NEW s \in Seq(Messages), NEW e, NEW v, UpTo(s, e, v)
    PROVE  Numbers(s) \subseteq Nat /\ \A n \in Numbers(s) : n <= e
<1>1. \A i \in DOMAIN s : s[i].n \in Nat
  BY MessageNumbers
<1> QED
  BY <1>1 DEF UpTo, Numbers

-----------------------------------------------------------------------------
(* Pages                                                                   *)

\* What the invariant says of one page.
PageRight(pg, e, v) ==
    /\ pg \in PageState
    /\ pg.snap <= v /\ pg.shown <= v /\ Len(pg.live) <= Capacity
    /\ InOrder(Pending(pg)) /\ UpTo(Pending(pg), e, v)
    /\ pg.at # "live" => Pending(pg) = <<>>

ServerRight ==
    /\ version \in 1 .. MaxVersion /\ events \in 0 .. MaxEvents
    /\ history \in Seq(Messages)
    /\ InOrder(history) /\ UpTo(history, events, version)
    /\ handler \in [Handlers ->
         [next : {"change", "clear", "announce", "snapshot", "publish"}, snap : 0 .. version]]
    /\ amid \subseteq 1 .. events

PagesRight ==
    page \in [Pages -> PageState] /\ \A p \in Pages : PageRight(page[p], events, version)

LEMMA Halves == IInv <=> ServerRight /\ PagesRight
  BY DEF IInv, TypeOK, ServerRight, PagesRight, PageRight, ShownOnce

LEMMA Later ==
    ASSUME NEW pg, NEW e \in Nat, NEW v \in Nat, NEW f \in Nat, NEW w \in Nat,
           e <= f, v <= w, PageRight(pg, e, v)
    PROVE  PageRight(pg, f, w)
<1>1. Pending(pg) \in Seq(Messages)
  BY Parts DEF PageRight, PageState, Pending
<1>2. UpTo(Pending(pg), f, w)
  BY <1>1, UpToKept DEF PageRight
<1> QED
  BY <1>2 DEF PageRight, PageState

\* A message that is queued comes last, and what is lost to make room was first.
LEMMA AppendRight ==
    ASSUME NEW s \in Seq(Messages), NEW m \in Messages
    PROVE  /\ Append(s, m) \in Seq(Messages) /\ Len(Append(s, m)) = Len(s) + 1
           /\ Numbers(Append(s, m)) = Numbers(s) \cup Numbers(<<m>>)
           /\ InOrder(s) /\ Before(s, <<m>>) => InOrder(Append(s, m))
           /\ \A e, v : UpTo(s, e, v) /\ UpTo(<<m>>, e, v) => UpTo(Append(s, m), e, v)
<1>1. <<m>> \in Seq(Messages) /\ InOrder(<<m>>)
  BY Single
<1>2. /\ s \o <<m>> \in Seq(Messages)
      /\ Numbers(s \o <<m>>) = Numbers(s) \cup Numbers(<<m>>)
      /\ InOrder(s) /\ Before(s, <<m>>) => InOrder(s \o <<m>>)
      /\ \A e, v : UpTo(s, e, v) /\ UpTo(<<m>>, e, v) => UpTo(s \o <<m>>, e, v)
  BY <1>1, Joined
<1>3. Append(s, m) = s \o <<m>> /\ Len(Append(s, m)) = Len(s) + 1
  BY Appended
<1> QED
  BY <1>2, <1>3, Zenon

LEMMA TailRight ==
    ASSUME NEW s \in Seq(Messages), s # <<>>
    PROVE  /\ Tail(s) \in Seq(Messages) /\ Len(Tail(s)) = Len(s) - 1
           /\ Head(s) \in Messages
           /\ Numbers(s) = Numbers(<<Head(s)>>) \cup Numbers(Tail(s))
           /\ InOrder(s) => InOrder(Tail(s)) /\ Before(<<Head(s)>>, Tail(s))
           /\ \A e, v : UpTo(s, e, v) => UpTo(<<Head(s)>>, e, v) /\ UpTo(Tail(s), e, v)
<1>1. /\ Head(s) \in Messages /\ Tail(s) \in Seq(Messages)
      /\ s = <<Head(s)>> \o Tail(s) /\ Len(Tail(s)) = Len(s) - 1
  BY Split
<1>2. PICK h \in Messages, r \in Seq(Messages) :
        h = Head(s) /\ r = Tail(s) /\ s = <<h>> \o r
  BY <1>1
<1>3. <<h>> \in Seq(Messages)
  BY Single
<1>4. /\ Numbers(s) = Numbers(<<h>>) \cup Numbers(r)
      /\ InOrder(s) => InOrder(r) /\ Before(<<h>>, r)
      /\ \A e, v : UpTo(s, e, v) => UpTo(<<h>>, e, v) /\ UpTo(r, e, v)
  BY <1>2, <1>3, Joined
<1> QED
  BY <1>1, <1>2, <1>4, Zenon

\* A message that is queued comes last, and what is lost to make room was first.
LEMMA QueuedRight ==
    ASSUME NEW live \in Seq(Messages), Len(live) <= Capacity, NEW m \in Messages
    PROVE  /\ Queued(live, m) \in Seq(Messages) /\ Len(Queued(live, m)) <= Capacity
           /\ Numbers(Queued(live, m)) \subseteq Numbers(live) \cup Numbers(<<m>>)
           /\ InOrder(live) /\ Before(live, <<m>>) => InOrder(Queued(live, m))
           /\ \A e, v : UpTo(live, e, v) /\ UpTo(<<m>>, e, v) => UpTo(Queued(live, m), e, v)
<1>1. CASE Len(live) < Capacity
  <2>1. Queued(live, m) = Append(live, m)
    BY <1>1 DEF Queued
  <2>2. Len(Append(live, m)) <= Capacity
    BY <1>1, AppendRight, FeedAssumption
  <2> QED
    BY <2>1, <2>2, AppendRight, Zenon
<1>2. CASE ~(Len(live) < Capacity)
  <2>1. Queued(live, m) = Append(Tail(live), m)
    BY <1>2 DEF Queued
  <2>2. live # <<>> /\ Len(live) \in Nat
    BY <1>2, FeedAssumption
  <2>3. PICK r \in Seq(Messages) : r = Tail(live)
    BY <2>2, TailRight
  <2>4. /\ Len(r) = Len(live) - 1
        /\ Numbers(r) \subseteq Numbers(live)
        /\ InOrder(live) => InOrder(r)
        /\ \A e, v : UpTo(live, e, v) => UpTo(r, e, v)
    BY <2>2, <2>3, TailRight
  <2>5. Before(live, <<m>>) => Before(r, <<m>>)
    BY <2>4 DEF Before
  <2>6. Len(Append(r, m)) <= Capacity
    BY <2>2, <2>4, AppendRight
  <2>7. /\ Append(r, m) \in Seq(Messages)
        /\ Numbers(Append(r, m)) \subseteq Numbers(live) \cup Numbers(<<m>>)
        /\ InOrder(live) /\ Before(live, <<m>>) => InOrder(Append(r, m))
        /\ \A e, v : UpTo(live, e, v) /\ UpTo(<<m>>, e, v) => UpTo(Append(r, m), e, v)
    BY <2>4, <2>5, AppendRight
  <2> QED
    BY <2>1, <2>3, <2>6, <2>7, Zenon
<1> QED
  BY <1>1, <1>2

\* A message with news that is sent to every page that listens
LEMMA PublishKeeps ==
    ASSUME ServerRight, PagesRight, NEW m \in Messages, publish(m),
           events' \in Nat, events <= events', version' = version,
           m.type = "event" => events < m.n, UpTo(<<m>>, events', version')
    PROVE  PagesRight'
<1> SUFFICES ASSUME NEW p \in Pages PROVE PageRight(page'[p], events', version')
  <2>1. page' = [p \in Pages |-> page'[p]]
    BY DEF publish
  <2>2. ASSUME \A p \in Pages : PageRight(page'[p], events', version') PROVE PagesRight'
    <3>1. \A p \in Pages : page'[p] \in PageState
      BY <2>2 DEF PageRight
    <3>2. page' \in [Pages -> PageState]
      BY <2>1, <3>1
    <3> QED
      BY <2>2, <3>2 DEF PagesRight
  <2> QED
    BY <2>2
<1> DEFINE pg == page[p]
<1>1. PageRight(pg, events, version) /\ events \in Nat /\ version \in Nat
  BY FeedAssumption DEF PagesRight, ServerRight
<1>2. CASE pg.at # "live"
  <2>1. page'[p] = pg
    BY <1>2 DEF publish
  <2> QED
    BY <1>1, <2>1, Later
<1>3. CASE pg.at = "live"
  <2> DEFINE q == Queued(pg.live, m)
             lost == pg.behind \/ Len(pg.live) = Capacity
  <2>1. page'[p] = [pg EXCEPT !.live = q, !.behind = lost] /\ lost \in BOOLEAN
    BY <1>1, <1>3 DEF publish, Told, PageRight, PageState
  <2>2. /\ pg.stage \in Seq(Messages) /\ pg.backlog \in Seq(Messages)
        /\ pg.live \in Seq(Messages) /\ Len(pg.live) <= Capacity
    BY <1>1 DEF PageRight, PageState
  <2>3. /\ InOrder(pg.stage) /\ InOrder(pg.backlog) /\ InOrder(pg.live)
        /\ Before(pg.stage, pg.backlog) /\ Before(pg.stage, pg.live)
        /\ Before(pg.backlog, pg.live)
    BY <1>1, <2>2, Parts DEF PageRight, Pending
  <2>4. /\ UpTo(pg.stage, events, version) /\ UpTo(pg.backlog, events, version)
        /\ UpTo(pg.live, events, version)
    BY <1>1, <2>2, Parts DEF PageRight, Pending
  <2>5. /\ UpTo(pg.stage, events', version') /\ UpTo(pg.backlog, events', version')
        /\ UpTo(pg.live, events', version')
    BY <1>1, <2>2, <2>4, UpToKept
  <2>6. \A s \in Seq(Messages) : UpTo(s, events, version) => Before(s, <<m>>)
    <3> SUFFICES ASSUME NEW s \in Seq(Messages), UpTo(s, events, version),
                        NEW a \in Numbers(s), NEW b \in Numbers(<<m>>)
                 PROVE  a < b
      BY DEF Before
    <3>1. m.type = "event" /\ b = m.n /\ b \in Nat
      BY Single DEF Messages
    <3> QED
      BY <1>1, <3>1, NumbersUpTo
  <2>7. /\ q \in Seq(Messages) /\ Len(q) <= Capacity /\ InOrder(q)
        /\ Numbers(q) \subseteq Numbers(pg.live) \cup Numbers(<<m>>)
        /\ UpTo(q, events', version')
    BY <2>2, <2>3, <2>4, <2>5, <2>6, QueuedRight
  <2> HIDE DEF q, lost
  <2>8. Before(pg.stage, q) /\ Before(pg.backlog, q)
    <3>1. Before(pg.stage, <<m>>) /\ Before(pg.backlog, <<m>>)
      BY <2>2, <2>4, <2>6
    <3> QED
      BY <2>3, <2>7, <3>1 DEF Before
  <2>9. /\ InOrder(pg.stage \o pg.backlog \o q)
        /\ UpTo(pg.stage \o pg.backlog \o q, events', version')
    BY <2>2, <2>3, <2>5, <2>7, <2>8, Parts
  <2> QED
    BY <1>1, <1>3, <2>1, <2>7, <2>9 DEF PageRight, PageState, Pending
<1> QED
  BY <1>2, <1>3

\* A page that handles the first message of what waits for it
LEMMA HandledRight ==
    ASSUME NEW pg \in PageState, NEW e \in Nat, NEW v \in Nat, PageRight(pg, e, v),
           pg.at = "live", NEW m \in Messages,
           NEW b \in Seq(Messages), NEW l \in Seq(Messages), Len(l) <= Capacity,
           \A f, w : UpTo(pg.backlog, f, w) /\ UpTo(pg.live, f, w) =>
                       UpTo(<<m>>, f, w) /\ UpTo(b, f, w) /\ UpTo(l, f, w),
           Numbers(b) \subseteq Numbers(pg.backlog), Numbers(l) \subseteq Numbers(pg.live),
           Numbers(<<m>>) \subseteq Numbers(pg.backlog) \cup Numbers(pg.live),
           Before(<<m>>, b), Before(<<m>>, l), InOrder(b), InOrder(l)
    PROVE  PageRight(Handled([pg EXCEPT !.backlog = b, !.live = l], m), e, v)
<1> DEFINE new == Handled([pg EXCEPT !.backlog = b, !.live = l], m)
<1>1. /\ pg.stage \in Seq(Messages) /\ pg.backlog \in Seq(Messages)
      /\ pg.live \in Seq(Messages) /\ pg.snap <= v /\ pg.shown <= v
  BY DEF PageRight, PageState
<1>2. /\ InOrder(pg.stage)
      /\ Before(pg.stage, pg.backlog) /\ Before(pg.stage, pg.live)
      /\ Before(pg.backlog, pg.live)
      /\ UpTo(pg.stage, e, v) /\ UpTo(pg.backlog, e, v) /\ UpTo(pg.live, e, v)
  BY <1>1, Parts DEF PageRight, Pending
<1>3. /\ UpTo(<<m>>, e, v) /\ UpTo(b, e, v) /\ UpTo(l, e, v)
      /\ Before(pg.stage, b) /\ Before(pg.stage, l) /\ Before(b, l)
      /\ Before(pg.stage, <<m>>)
  BY <1>2 DEF Before
<1>4. CASE m.type = "event"
  <2> DEFINE st == Append(pg.stage, m)
  <2>1. new = [pg EXCEPT !.backlog = b, !.live = l, !.stage = st]
    BY <1>4 DEF Handled, PageState
  <2>2. /\ st \in Seq(Messages) /\ InOrder(st) /\ UpTo(st, e, v)
        /\ Numbers(st) = Numbers(pg.stage) \cup Numbers(<<m>>)
    BY <1>1, <1>2, <1>3, AppendRight
  <2> HIDE DEF st
  <2>3. Before(st, b) /\ Before(st, l)
    BY <1>3, <2>2 DEF Before
  <2>4. InOrder(st \o b \o l) /\ UpTo(st \o b \o l, e, v)
    BY <1>3, <2>2, <2>3, Parts
  <2> QED
    BY <1>1, <2>1, <2>2, <2>4 DEF PageRight, PageState, Pending
<1>5. CASE m.type = "state"
  <2>1. new = [pg EXCEPT !.backlog = b, !.live = l, !.shown = m.n]
    BY <1>5 DEF Handled, PageState
  <2>2. InOrder(pg.stage \o b \o l) /\ UpTo(pg.stage \o b \o l, e, v)
    BY <1>1, <1>2, <1>3, Parts
  <2>3. m.n \in Nat /\ m.n <= v
    BY <1>3, <1>5, Single DEF Messages
  <2> QED
    BY <1>1, <2>1, <2>2, <2>3 DEF PageRight, PageState, Pending
<1>6. CASE m.type = "reset"
  <2>1. new = [pg EXCEPT !.backlog = b, !.live = l, !.stage = <<>>]
    BY <1>6 DEF Handled, PageState
  <2>2. Before(<<>>, b) /\ Before(<<>>, l)
    BY Empty DEF Before
  <2>3. InOrder(<<>> \o b \o l) /\ UpTo(<<>> \o b \o l, e, v)
    BY <1>3, <2>2, Empty, Parts
  <2> QED
    BY <1>1, <2>1, <2>3, Empty DEF PageRight, PageState, Pending
<1> QED
  BY <1>4, <1>5, <1>6 DEF Messages

LEMMA PageMoves ==
    ASSUME PagesRight, NEW p \in Pages, NEW new, PageRight(new, events, version),
           page' = [page EXCEPT ![p] = new], UNCHANGED <<version, events>>
    PROVE  PagesRight'
<1>1. new \in PageState
  BY DEF PageRight
<1>2. /\ page' \in [Pages -> PageState]
      /\ \A q \in Pages : page'[q] = IF q = p THEN new ELSE page[q]
  BY <1>1 DEF PagesRight
<1> QED
  BY <1>2 DEF PagesRight

LEMMA ReceiveKeeps ==
    ASSUME ServerRight, PagesRight, NEW p \in Pages, Receive(p)
    PROVE  PagesRight'
<1> DEFINE pg == page[p]
<1>1. /\ PageRight(pg, events, version) /\ events \in Nat /\ version \in Nat
      /\ pg \in PageState /\ pg.at = "live"
      /\ UNCHANGED <<version, events>>
  BY FeedAssumption DEF PagesRight, PageRight, ServerRight, Receive
<1>2. /\ pg.stage \in Seq(Messages) /\ pg.backlog \in Seq(Messages)
      /\ pg.live \in Seq(Messages) /\ Len(pg.live) <= Capacity
  BY <1>1 DEF PageRight, PageState
<1>3. InOrder(pg.backlog) /\ InOrder(pg.live) /\ Before(pg.backlog, pg.live)
  BY <1>1, <1>2, Parts DEF PageRight, Pending
<1>4. CASE pg.backlog # <<>>
  <2> DEFINE m == Head(pg.backlog)
             b == Tail(pg.backlog)
  <2>1. /\ m \in Messages /\ b \in Seq(Messages)
        /\ Numbers(pg.backlog) = Numbers(<<m>>) \cup Numbers(b)
        /\ InOrder(b) /\ Before(<<m>>, b)
        /\ \A e, v : UpTo(pg.backlog, e, v) => UpTo(<<m>>, e, v) /\ UpTo(b, e, v)
    BY <1>2, <1>3, <1>4, TailRight
  <2>2. Before(<<m>>, pg.live)
    BY <1>3, <2>1 DEF Before
  <2>3. page' = [page EXCEPT ![p] = Handled([pg EXCEPT !.backlog = b, !.live = pg.live], m)]
    <3>1. [pg EXCEPT !.backlog = b] = [pg EXCEPT !.backlog = b, !.live = pg.live]
      BY <1>1 DEF PageState
    <3>2. page' = [page EXCEPT ![p] = Handled([pg EXCEPT !.backlog = b], m)]
      BY <1>4 DEF Receive, PagesRight
    <3> QED
      BY <3>1, <3>2
  <2> HIDE DEF m, b
  <2>4. PageRight(Handled([pg EXCEPT !.backlog = b, !.live = pg.live], m), events, version)
    BY <1>1, <1>2, <1>3, <2>1, <2>2, HandledRight
  <2> QED
    BY <1>1, <2>3, <2>4, PageMoves
<1>5. CASE pg.backlog = <<>>
  <2> DEFINE m == Head(pg.live)
             l == Tail(pg.live)
  <2>1. pg.live # <<>>
    BY <1>5 DEF Receive
  <2>2. /\ m \in Messages /\ l \in Seq(Messages) /\ Len(l) <= Capacity
        /\ Numbers(pg.live) = Numbers(<<m>>) \cup Numbers(l)
        /\ InOrder(l) /\ Before(<<m>>, l)
        /\ \A e, v : UpTo(pg.live, e, v) => UpTo(<<m>>, e, v) /\ UpTo(l, e, v)
    <3>1. Len(l) = Len(pg.live) - 1 /\ Len(pg.live) \in Nat
      BY <1>2, <2>1, TailRight
    <3>2. Len(l) <= Capacity
      BY <1>2, <3>1, FeedAssumption
    <3> QED
      BY <1>2, <1>3, <2>1, <3>2, TailRight
  <2>3. Before(<<m>>, pg.backlog)
    BY <1>5, Empty DEF Before
  <2>4. page' = [page EXCEPT ![p] = Handled([pg EXCEPT !.backlog = pg.backlog, !.live = l], m)]
    <3>1. [pg EXCEPT !.live = l] = [pg EXCEPT !.backlog = pg.backlog, !.live = l]
      BY <1>1 DEF PageState
    <3>2. page' = [page EXCEPT ![p] = Handled([pg EXCEPT !.live = l], m)]
      BY <1>5 DEF Receive, PagesRight
    <3> QED
      BY <3>1, <3>2
  <2> HIDE DEF m, l
  <2>5. PageRight(Handled([pg EXCEPT !.backlog = pg.backlog, !.live = l], m), events, version)
    BY <1>1, <1>2, <1>3, <2>2, <2>3, HandledRight
  <2> QED
    BY <1>1, <2>4, <2>5, PageMoves
<1> QED
  BY <1>4, <1>5

LEMMA AwayRight ==
    ASSUME NEW shown \in Nat, NEW e \in Nat, NEW v \in Nat, shown <= v
    PROVE  PageRight([Away EXCEPT !.shown = shown], e, v)
<1> DEFINE pg == [Away EXCEPT !.shown = shown]
<1>1. /\ pg.at = "off" /\ pg.snap = 0 /\ pg.shown = shown
      /\ pg.live = <<>> /\ pg.backlog = <<>> /\ pg.stage = <<>>
  BY DEF Away
<1>2. pg \in PageState
  BY Empty DEF PageState, Away
<1>3. Pending(pg) = <<>>
  BY <1>1 DEF Pending
<1>4. Len(pg.live) = 0
  BY <1>1
<1> HIDE DEF pg
<1>5. PageRight(pg, e, v)
  BY <1>1, <1>2, <1>3, <1>4, Empty, FeedAssumption DEF PageRight
<1> QED
  BY <1>5 DEF pg

LEMMA PageStep ==
    ASSUME ServerRight, PagesRight, NEW p \in Pages,
           Connect(p) \/ Subscribe(p) \/ Receive(p) \/ Lose(p)
    PROVE  PagesRight'
<1> DEFINE pg == page[p]
<1>1. /\ PageRight(pg, events, version) /\ events \in Nat /\ version \in Nat
      /\ pg \in PageState
      /\ UNCHANGED <<version, events>>
  BY FeedAssumption DEF PagesRight, PageRight, ServerRight, Connect, Subscribe, Receive, Lose
<1>2. CASE Connect(p)
  <2> DEFINE new == [pg EXCEPT !.at = "connecting", !.snap = version]
  <2>1. page' = [page EXCEPT ![p] = new] /\ pg.at = "off"
    BY <1>2 DEF Connect
  <2>2. Pending(new) = Pending(pg)
    BY <1>1 DEF Pending, PageState
  <2>3. new \in PageState /\ new.live = pg.live /\ new.shown = pg.shown /\ new.snap = version
    BY <1>1 DEF PageState
  <2>4. PageRight(new, events, version)
    BY <1>1, <2>1, <2>2, <2>3 DEF PageRight
  <2> QED
    BY <1>1, <2>1, <2>4, PageMoves
<1>3. CASE Subscribe(p)
  <2> DEFINE b == <<State(pg.snap)>> \o history
             new == [pg EXCEPT !.at = "live", !.snap = 0, !.live = <<>>, !.backlog = b]
  <2>1. page' = [page EXCEPT ![p] = new] /\ pg.at = "connecting"
    BY <1>1, <1>3 DEF Subscribe, PageState
  <2>2. pg.stage = <<>>
    BY <1>1, <2>1, NothingPending DEF PageRight, PageState, Pending
  <2>3. State(pg.snap) \in Messages /\ State(pg.snap).type = "state" /\ State(pg.snap).n = pg.snap
    BY <1>1 DEF PageState, Messages, State
  <2>4. /\ <<State(pg.snap)>> \in Seq(Messages)
        /\ InOrder(<<State(pg.snap)>>) /\ Numbers(<<State(pg.snap)>>) = {}
        /\ UpTo(<<State(pg.snap)>>, events, version)
    BY <1>1, <2>3, Single DEF PageRight
  <2>5. b \in Seq(Messages) /\ InOrder(b) /\ UpTo(b, events, version)
    <3>1. Before(<<State(pg.snap)>>, history)
      BY <2>4 DEF Before
    <3> QED
      BY <2>4, <3>1, Joined DEF ServerRight
  <2> HIDE DEF b
  <2>6. /\ new \in PageState /\ new.at = "live" /\ new.snap = 0 /\ new.live = <<>>
        /\ new.shown = pg.shown /\ Pending(new) = <<>> \o b \o <<>>
    BY <1>1, <2>2, <2>5, Empty DEF PageState, Pending
  <2>7. InOrder(<<>> \o b \o <<>>) /\ UpTo(<<>> \o b \o <<>>, events, version)
    <3>1. Before(<<>>, b) /\ Before(<<>>, <<>>) /\ Before(b, <<>>)
      BY Empty DEF Before
    <3> QED
      BY <2>5, <3>1, Empty, Parts
  <2>8. PageRight(new, events, version)
    BY <1>1, <2>6, <2>7, FeedAssumption DEF PageRight
  <2> QED
    BY <1>1, <2>1, <2>8, PageMoves
<1>4. CASE Receive(p)
  BY <1>4, ReceiveKeeps
<1>5. CASE Lose(p)
  <2>1. page' = [page EXCEPT ![p] = [Away EXCEPT !.shown = pg.shown]]
    BY <1>5 DEF Lose
  <2>2. PageRight([Away EXCEPT !.shown = pg.shown], events, version)
    BY <1>1, AwayRight DEF PageRight, PageState
  <2> QED
    BY <1>1, <2>1, <2>2, PageMoves
<1> QED
  BY <1>2, <1>3, <1>4, <1>5

-----------------------------------------------------------------------------
(* The server                                                              *)

LEMMA EmitKeeps ==
    ASSUME ServerRight, PagesRight, emit
    PROVE  ServerRight' /\ PagesRight'
<1> DEFINE m == Event(events + 1)
<1>1. /\ events \in Nat /\ version \in Nat /\ history \in Seq(Messages)
      /\ InOrder(history) /\ UpTo(history, events, version)
  BY FeedAssumption DEF ServerRight
<1>2. /\ m \in Messages /\ m.type = "event" /\ m.n = events + 1
      /\ publish(m) /\ events' = events + 1 /\ version' = version /\ handler' = handler
      /\ history' = Append(history, m) /\ events' \in 0 .. MaxEvents
  BY <1>1, FeedAssumption DEF emit, Event, Messages, ServerRight
<1>a. amid' \subseteq 1 .. events'
  <2>1. amid \subseteq 1 .. events /\ events' = events + 1
        /\ amid' \in {amid, amid \cup {events + 1}}
    BY DEF emit, ServerRight
  <2> QED
    BY <1>1, <2>1
<1> HIDE DEF m
<1>3. UpTo(<<m>>, events', version') /\ Numbers(<<m>>) = {events + 1}
  BY <1>1, <1>2, Single
<1>4. PagesRight'
  BY <1>1, <1>2, <1>3, PublishKeeps
<1>5. InOrder(history') /\ UpTo(history', events', version') /\ history' \in Seq(Messages)
  <2>1. Before(history, <<m>>)
    BY <1>1, <1>3, NumbersUpTo DEF Before
  <2>2. UpTo(history, events', version')
    BY <1>1, <1>2, UpToKept
  <2> QED
    BY <1>1, <1>2, <1>3, <2>1, <2>2, AppendRight
<1> QED
  BY <1>1, <1>2, <1>a, <1>4, <1>5 DEF ServerRight

LEMMA HandlerStep ==
    ASSUME ServerRight, PagesRight, NEW h \in Handlers,
           \/ Change(h) \/ Clear(h) \/ Announce(h)
           \/ Snapshot(h) \/ Dropped(h) \/ PublishState(h)
    PROVE  ServerRight' /\ PagesRight'
<1>1. /\ events \in Nat /\ version \in Nat \ {0} /\ history \in Seq(Messages)
      /\ InOrder(history) /\ UpTo(history, events, version)
  BY FeedAssumption DEF ServerRight
<1>2. CASE Change(h)
  <2>1. /\ version' = version + 1 /\ UNCHANGED <<events, history, page, amid>>
        /\ version' \in 1 .. MaxVersion
    BY <1>1, <1>2, FeedAssumption DEF Change, ServerRight
  <2>2. UpTo(history, events, version + 1)
    BY <1>1, UpToKept
  <2>3. \A p \in Pages : PageRight(page[p], events, version + 1)
    BY <1>1, Later DEF PagesRight
  <2>4. handler' \in [Handlers ->
          [next : {"change", "clear", "announce", "snapshot", "publish"}, snap : 0 .. version + 1]]
    BY <1>1, <1>2 DEF Change, ServerRight
  <2> QED
    BY <2>1, <2>2, <2>3, <2>4 DEF ServerRight, PagesRight
<1>3. CASE Clear(h)
  <2>1. /\ UNCHANGED <<version, events, page, amid>> /\ history' = <<>>
        /\ handler' = [handler EXCEPT ![h].next = "announce"]
    BY <1>3 DEF Clear
  <2> QED
    BY <1>1, <2>1, Empty DEF ServerRight, PagesRight
<1>4. CASE Announce(h)
  <2>1. /\ UNCHANGED <<version, events, history, amid>> /\ publish(ResetStage)
        /\ handler' = [handler EXCEPT ![h].next = "snapshot"]
    BY <1>4 DEF Announce
  <2>2. ResetStage \in Messages /\ ResetStage.type = "reset"
    BY DEF ResetStage, Messages
  <2>3. UpTo(<<ResetStage>>, events', version')
    BY <2>2, Single
  <2>4. PagesRight'
    BY <1>1, <2>1, <2>2, <2>3, PublishKeeps
  <2> QED
    BY <1>1, <2>1, <2>4 DEF ServerRight
<1>5. CASE Snapshot(h)
  <2>1. /\ UNCHANGED <<version, events, history, page, amid>>
        /\ handler' = [handler EXCEPT ![h] = [next |-> "publish", snap |-> version]]
    BY <1>5 DEF Snapshot
  <2> QED
    BY <1>1, <2>1 DEF ServerRight, PagesRight
<1>6. CASE PublishState(h)
  <2> DEFINE m == State(handler[h].snap)
  <2>1. /\ UNCHANGED <<version, events, history, amid>> /\ publish(m)
        /\ handler' = [handler EXCEPT ![h] = [next |-> "change", snap |-> 0]]
    BY <1>6 DEF PublishState
  <2>2. m \in Messages /\ m.type = "state" /\ m.n <= version
    BY <1>1 DEF ServerRight, State, Messages
  <2> HIDE DEF m
  <2>3. UpTo(<<m>>, events', version')
    BY <2>1, <2>2, Single
  <2>4. PagesRight'
    BY <1>1, <2>1, <2>2, <2>3, PublishKeeps
  <2> QED
    BY <1>1, <2>1, <2>4 DEF ServerRight
<1>7. CASE Dropped(h)
  <2>1. /\ UNCHANGED <<version, events, history, page, amid>>
        /\ handler' = [handler EXCEPT ![h].next = "change"]
    BY <1>7 DEF Dropped
  <2> QED
    BY <1>1, <2>1 DEF ServerRight, PagesRight
<1> QED
  BY <1>2, <1>3, <1>4, <1>5, <1>6, <1>7

-----------------------------------------------------------------------------
(* The induction                                                           *)

LEMMA FeedInit == Init => ServerRight /\ PagesRight
<1> SUFFICES ASSUME Init PROVE ServerRight /\ PagesRight
  OBVIOUS
<1>1. ServerRight
  BY Empty, FeedAssumption DEF Init, ServerRight
<1>2. PageRight(Away, 0, 1)
  <2>1. [Away EXCEPT !.shown = 0] = Away
    BY DEF Away
  <2> QED
    BY <2>1, AwayRight
<1>3. page = [p \in Pages |-> Away] /\ events = 0 /\ version = 1
  BY DEF Init
<1>4. Away \in PageState
  BY <1>2 DEF PageRight
<1>5. page \in [Pages -> PageState] /\ \A p \in Pages : page[p] = Away
  BY <1>3, <1>4
<1> QED
  BY <1>1, <1>2, <1>3, <1>5 DEF PagesRight

LEMMA FeedStep ==
    ASSUME ServerRight, PagesRight, [Next]_vars
    PROVE  ServerRight' /\ PagesRight'
<1>1. CASE UNCHANGED vars
  BY <1>1 DEF vars, ServerRight, PagesRight
<1>2. CASE emit
  BY <1>2, EmitKeeps
<1>3. ASSUME NEW h \in Handlers,
             \/ Change(h) \/ Clear(h) \/ Announce(h)
             \/ Snapshot(h) \/ Dropped(h) \/ PublishState(h)
      PROVE  ServerRight' /\ PagesRight'
  BY <1>3, HandlerStep
<1>4. ASSUME NEW p \in Pages, Connect(p) \/ Subscribe(p) \/ Receive(p) \/ Lose(p)
      PROVE  ServerRight' /\ PagesRight'
  <2>1. UNCHANGED <<version, events, history, handler, amid>>
    BY <1>4 DEF Connect, Subscribe, Receive, Lose
  <2> QED
    BY <1>4, <2>1, PageStep DEF ServerRight
<1> QED
  BY <1>1, <1>2, <1>3, <1>4 DEF Next

\* What is on stage at a page and what waits for it, and the history that pages to come
\* are given, are in order and speak of nothing that has not happened.
THEOREM FeedInvariant == Spec => []IInv
<1>1. Init => ServerRight /\ PagesRight
  BY FeedInit
<1>2. ServerRight /\ PagesRight /\ [Next]_vars => (ServerRight /\ PagesRight)'
  BY FeedStep
<1>3. ServerRight /\ PagesRight => IInv
  BY Halves
<1> QED
  BY <1>1, <1>2, <1>3, PTL DEF Spec

\* Any number of pages, however they connect, fall behind and reconnect: none shows an
\* event twice or out of order.
THEOREM EventsShownOnce == Spec => []ShownOnce
<1>1. IInv => ShownOnce
  BY DEF IInv
<1> QED
  BY <1>1, FeedInvariant, PTL

-----------------------------------------------------------------------------
(* What a page keeps of the events                                         *)

NoReset(s) == \A i \in DOMAIN s : s[i].type # "reset"
Stays(s, m) ==
    \E i \in DOMAIN s : s[i] = m /\ \A j \in i + 1 .. Len(s) : s[j].type # "reset"

\* A message stays in s followed by t when it stays in t, or in s and t resets nothing.
LEMMA StaysJoined ==
    ASSUME NEW s \in Seq(Messages), NEW t \in Seq(Messages)
    PROVE  /\ \A m : Stays(s \o t, m) <=> Stays(t, m) \/ (Stays(s, m) /\ NoReset(t))
           /\ NoReset(s \o t) <=> NoReset(s) /\ NoReset(t)
<1>1. /\ Len(s) \in Nat /\ Len(t) \in Nat
      /\ DOMAIN s = 1 .. Len(s) /\ DOMAIN t = 1 .. Len(t)
      /\ DOMAIN (s \o t) = 1 .. Len(s) + Len(t) /\ Len(s \o t) = Len(s) + Len(t)
      /\ \A i \in 1 .. Len(s) : (s \o t)[i] = s[i]
      /\ \A i \in 1 .. Len(t) : (s \o t)[Len(s) + i] = t[i]
  OBVIOUS
<1>2. \A i \in DOMAIN (s \o t) :
        \/ i \in DOMAIN s /\ (s \o t)[i] = s[i]
        \/ i - Len(s) \in DOMAIN t /\ (s \o t)[i] = t[i - Len(s)]
  BY <1>1
<1>3. /\ \A i \in DOMAIN s : i \in DOMAIN (s \o t)
      /\ \A i \in DOMAIN t : Len(s) + i \in DOMAIN (s \o t)
  BY <1>1
<1>4. NoReset(s \o t) <=> NoReset(s) /\ NoReset(t)
  BY <1>1, <1>2, <1>3 DEF NoReset
<1>5. ASSUME NEW m, Stays(s \o t, m) PROVE Stays(t, m) \/ (Stays(s, m) /\ NoReset(t))
  <2>1. PICK i \in DOMAIN (s \o t) :
          /\ (s \o t)[i] = m
          /\ \A j \in i + 1 .. Len(s \o t) : (s \o t)[j].type # "reset"
    BY <1>5 DEF Stays
  <2>2. CASE i \in DOMAIN s
    <3>1. NoReset(t)
      <4> SUFFICES ASSUME NEW k \in DOMAIN t PROVE t[k].type # "reset"
        BY DEF NoReset
      <4>1. Len(s) + k \in i + 1 .. Len(s \o t) /\ (s \o t)[Len(s) + k] = t[k]
        BY <1>1, <2>2
      <4> QED
        BY <2>1, <4>1
    <3>2. \A j \in i + 1 .. Len(s) : s[j].type # "reset"
      <4> SUFFICES ASSUME NEW j \in i + 1 .. Len(s) PROVE s[j].type # "reset"
        OBVIOUS
      <4>1. j \in 1 .. Len(s) /\ j \in i + 1 .. Len(s \o t)
        BY <1>1, <2>2
      <4> QED
        BY <1>1, <2>1, <4>1
    <3> QED
      BY <1>1, <2>1, <2>2, <3>1, <3>2 DEF Stays
  <2>3. CASE i \notin DOMAIN s
    <3>1. i - Len(s) \in DOMAIN t /\ t[i - Len(s)] = m
      BY <1>2, <2>1, <2>3
    <3>2. ASSUME NEW j \in i - Len(s) + 1 .. Len(t) PROVE t[j].type # "reset"
      <4>1. j \in 1 .. Len(t) /\ Len(s) + j \in i + 1 .. Len(s \o t)
        BY <1>1, <2>1, <3>1
      <4> QED
        BY <1>1, <2>1, <4>1
    <3> QED
      BY <3>1, <3>2 DEF Stays
  <2> QED
    BY <2>2, <2>3
<1>6. ASSUME NEW m, Stays(t, m) PROVE Stays(s \o t, m)
  <2>1. PICK i \in DOMAIN t : t[i] = m /\ \A j \in i + 1 .. Len(t) : t[j].type # "reset"
    BY <1>6 DEF Stays
  <2>2. Len(s) + i \in DOMAIN (s \o t) /\ (s \o t)[Len(s) + i] = m
    BY <1>1, <2>1
  <2>3. ASSUME NEW j \in Len(s) + i + 1 .. Len(s \o t) PROVE (s \o t)[j].type # "reset"
    <3>1. j \in DOMAIN (s \o t) /\ j \notin DOMAIN s
      BY <1>1, <2>1
    <3>2. j - Len(s) \in DOMAIN t /\ (s \o t)[j] = t[j - Len(s)]
      BY <1>2, <3>1
    <3>3. j - Len(s) \in i + 1 .. Len(t)
      BY <1>1, <2>1
    <3> QED
      BY <2>1, <3>2, <3>3
  <2> QED
    BY <2>2, <2>3 DEF Stays
<1>7. ASSUME NEW m, Stays(s, m), NoReset(t) PROVE Stays(s \o t, m)
  <2>1. PICK i \in DOMAIN s : s[i] = m /\ \A j \in i + 1 .. Len(s) : s[j].type # "reset"
    BY <1>7 DEF Stays
  <2>2. i \in DOMAIN (s \o t) /\ (s \o t)[i] = m
    BY <1>1, <2>1
  <2>3. ASSUME NEW j \in i + 1 .. Len(s \o t) PROVE (s \o t)[j].type # "reset"
    <3>1. j \in DOMAIN (s \o t)
      BY <1>1, <2>1
    <3>2. CASE j \in DOMAIN s
      <4>1. j \in i + 1 .. Len(s) /\ (s \o t)[j] = s[j]
        BY <1>1, <2>1, <3>2
      <4> QED
        BY <2>1, <4>1
    <3>3. CASE j \notin DOMAIN s
      BY <1>2, <1>7, <3>1, <3>3 DEF NoReset
    <3> QED
      BY <3>2, <3>3
  <2> QED
    BY <2>2, <2>3 DEF Stays
<1> QED
  BY <1>4, <1>5, <1>6, <1>7

LEMMA StaysSingle ==
    ASSUME NEW m \in Messages
    PROVE  /\ \A x : Stays(<<m>>, x) <=> x = m
           /\ NoReset(<<m>>) <=> m.type # "reset"
           /\ \A x : ~Stays(<<>>, x)
           /\ NoReset(<<>>)
<1>1. DOMAIN <<m>> = {1} /\ Len(<<m>>) = 1 /\ <<m>>[1] = m /\ 2 .. 1 = {}
  OBVIOUS
<1>2. ASSUME NEW x PROVE Stays(<<m>>, x) <=> x = m
  BY <1>1 DEF Stays
<1>3. DOMAIN <<>> = {}
  OBVIOUS
<1> QED
  BY <1>1, <1>2, <1>3 DEF Stays, NoReset

LEMMA StaysParts ==
    ASSUME NEW a \in Seq(Messages), NEW b \in Seq(Messages), NEW c \in Seq(Messages), NEW m
    PROVE  Stays(a \o b \o c, m) <=> \/ Stays(c, m)
                                     \/ Stays(b, m) /\ NoReset(c)
                                     \/ Stays(a, m) /\ NoReset(b) /\ NoReset(c)
<1>1. a \o b \in Seq(Messages)
  BY Joined
<1>2. /\ Stays(a \o b \o c, m) <=> Stays(c, m) \/ (Stays(a \o b, m) /\ NoReset(c))
      /\ Stays(a \o b, m) <=> Stays(b, m) \/ (Stays(a, m) /\ NoReset(b))
  BY <1>1, StaysJoined, Zenon
<1> QED
  BY <1>2

\* What is kept for pages to come holds no reset; while the stage is being cleared, it
\* holds only what came after the first step.
HistoryRight ==
    \A i \in DOMAIN history : /\ history[i].type = "event"
                              /\ Clearing => history[i].n \in amid

\* What a page is owed.
Owed(pg, m) == Stays(Pending(pg), m)
Content(pg) ==
    pg.at = "live" /\ ~pg.behind =>
        \A i \in DOMAIN history : history[i].n \notin amid => Owed(pg, history[i])

LEMMA AllContent == LostOnlyAmidClears <=> \A p \in Pages : Content(page[p])
  BY DEF LostOnlyAmidClears, Content, Owed, Stays, Keeps

LEMMA PageParts ==
    ASSUME NEW pg \in PageState, NEW m
    PROVE  Owed(pg, m) <=> \/ Stays(pg.live, m)
                           \/ Stays(pg.backlog, m) /\ NoReset(pg.live)
                           \/ Stays(pg.stage, m) /\ NoReset(pg.backlog) /\ NoReset(pg.live)
<1>1. /\ pg.stage \in Seq(Messages) /\ pg.backlog \in Seq(Messages)
      /\ pg.live \in Seq(Messages)
  BY DEF PageState
<1> QED
  BY <1>1, StaysParts DEF Owed, Pending

LEMMA StaysAppended ==
    ASSUME NEW s \in Seq(Messages), NEW m \in Messages, m.type # "reset"
    PROVE  /\ \A x : Stays(Append(s, m), x) <=> Stays(s, x) \/ x = m
           /\ NoReset(Append(s, m)) <=> NoReset(s)
<1>1. Append(s, m) = s \o <<m>> /\ <<m>> \in Seq(Messages)
  BY Appended, Single
<1>2. NoReset(<<m>>) /\ \A x : Stays(<<m>>, x) <=> x = m
  BY StaysSingle
<1>3. /\ \A x : Stays(s \o <<m>>, x) <=> Stays(<<m>>, x) \/ (Stays(s, x) /\ NoReset(<<m>>))
      /\ NoReset(s \o <<m>>) <=> NoReset(s) /\ NoReset(<<m>>)
  BY <1>1, StaysJoined, Zenon
<1> QED
  BY <1>1, <1>2, <1>3, Zenon

LEMMA StaysSplit ==
    ASSUME NEW s \in Seq(Messages), s # <<>>
    PROVE  /\ \A x : Stays(s, x) <=> \/ Stays(Tail(s), x)
                                     \/ x = Head(s) /\ NoReset(Tail(s))
           /\ NoReset(s) <=> Head(s).type # "reset" /\ NoReset(Tail(s))
<1>1. PICK h \in Messages, r \in Seq(Messages) :
        h = Head(s) /\ r = Tail(s) /\ s = <<h>> \o r
  BY Split
<1>2. <<h>> \in Seq(Messages)
  BY Single
<1>3. /\ \A x : Stays(<<h>>, x) <=> x = h
      /\ NoReset(<<h>>) <=> h.type # "reset"
  BY StaysSingle
<1>4. /\ \A x : Stays(<<h>> \o r, x) <=> Stays(r, x) \/ (Stays(<<h>>, x) /\ NoReset(r))
      /\ NoReset(<<h>> \o r) <=> NoReset(<<h>>) /\ NoReset(r)
  BY <1>2, StaysJoined, Zenon
<1>5. /\ \A x : Stays(s, x) <=> Stays(r, x) \/ (x = h /\ NoReset(r))
      /\ NoReset(s) <=> h.type # "reset" /\ NoReset(r)
  BY <1>1, <1>3, <1>4, Zenon
<1> QED
  BY <1>1, <1>5, Zenon

\* What is in a sequence without a reset stays in it.
LEMMA AllStays ==
    ASSUME NEW s \in Seq(Messages), NoReset(s), NEW i \in DOMAIN s
    PROVE  Stays(s, s[i])
<1>1. \A j \in i + 1 .. Len(s) : j \in DOMAIN s
  OBVIOUS
<1> QED
  BY <1>1 DEF Stays, NoReset

\* A message that is no reset is sent to every page that listens.
LEMMA PublishContent ==
    ASSUME ServerRight, PagesRight, \A p \in Pages : Content(page[p]),
           NEW m \in Messages, m.type # "reset", publish(m),
           history' \in {history, Append(history, m)}, amid \subseteq amid'
    PROVE  \A p \in Pages : Content(page[p])'
<1> SUFFICES ASSUME NEW p \in Pages, page'[p].at = "live", ~page'[p].behind,
                    NEW i \in DOMAIN history', history'[i].n \notin amid'
             PROVE  Owed(page'[p], history'[i])
  BY DEF Content, Owed, Pending
<1> DEFINE pg == page[p]
           x == history'[i]
<1>1. /\ pg \in PageState /\ PageRight(pg, events, version) /\ history \in Seq(Messages)
      /\ page' = [q \in Pages |-> IF page[q].at = "live" THEN Told(page[q], m) ELSE page[q]]
  BY DEF PagesRight, PageRight, ServerRight, publish
<1>2. pg.at = "live" /\ page'[p] = Told(pg, m)
  BY <1>1
<1>3. /\ pg.live \in Seq(Messages) /\ Len(pg.live) <= Capacity /\ Len(pg.live) \in Nat
  BY <1>1 DEF PageState, PageRight
<1>4. ~pg.behind /\ Len(pg.live) < Capacity
  <2>1. Told(pg, m).behind = (pg.behind \/ Len(pg.live) = Capacity)
    BY <1>1 DEF Told, PageState
  <2>2. ~Told(pg, m).behind
    BY <1>2
  <2>3. ~pg.behind /\ Len(pg.live) # Capacity
    BY <2>1, <2>2
  <2> QED
    BY <1>3, <2>3, FeedAssumption
<1> DEFINE q == Append(pg.live, m)
<1>5. /\ page'[p].stage = pg.stage /\ page'[p].backlog = pg.backlog
      /\ page'[p].live = q
  BY <1>1, <1>2, <1>4 DEF Told, Queued, PageState
<1>6. /\ \A y : Stays(q, y) <=> Stays(pg.live, y) \/ y = m
      /\ NoReset(q) <=> NoReset(pg.live)
  BY <1>3, StaysAppended
<1> HIDE DEF q
<1>7. page'[p] \in PageState
  BY <1>1, <1>2, <1>3, QueuedRight DEF Told, PageState
<1>8. x = m \/ Owed(pg, x)
  <2>1. ASSUME i \in DOMAIN history, x = history[i] PROVE Owed(pg, x)
    <3>1. history[i].n \notin amid /\ Content(pg)
      BY <2>1
    <3> QED
      BY <1>2, <1>4, <2>1, <3>1 DEF Content
  <2>2. (i \in DOMAIN history /\ x = history[i]) \/ x = m
    BY <1>1
  <2> QED
    BY <2>1, <2>2
<1> HIDE DEF x
<1>9. Owed(pg, x) <=> \/ Stays(pg.live, x)
                      \/ Stays(pg.backlog, x) /\ NoReset(pg.live)
                      \/ Stays(pg.stage, x) /\ NoReset(pg.backlog) /\ NoReset(pg.live)
  BY <1>1, PageParts
<1>10. Owed(page'[p], x) <=> \/ Stays(q, x)
                             \/ Stays(pg.backlog, x) /\ NoReset(q)
                             \/ Stays(pg.stage, x) /\ NoReset(pg.backlog) /\ NoReset(q)
  BY <1>5, <1>7, PageParts
<1>11. Owed(page'[p], x)
  BY <1>6, <1>8, <1>9, <1>10
<1> QED
  BY <1>11 DEF x

\* A page that handles the first message of what waits for it, and then has b and l
\* before it, keeps the events it kept.
LEMMA HandledContent ==
    ASSUME NEW pg \in PageState, NEW m \in Messages, NEW b \in Seq(Messages),
           NEW l \in Seq(Messages), NEW x \in Messages, x.type = "event",
           \/ Stays(l, x)
           \/ Stays(b, x) /\ NoReset(l)
           \/ x = m /\ NoReset(b) /\ NoReset(l)
           \/ Stays(pg.stage, x) /\ m.type # "reset" /\ NoReset(b) /\ NoReset(l),
           Handled([pg EXCEPT !.backlog = b, !.live = l], m) \in PageState
    PROVE  Owed(Handled([pg EXCEPT !.backlog = b, !.live = l], m), x)
<1> DEFINE new == Handled([pg EXCEPT !.backlog = b, !.live = l], m)
<1>1. pg.stage \in Seq(Messages)
  BY DEF PageState
<1>2. ASSUME new.live = l, new.backlog = b,
             x = m \/ (Stays(pg.stage, x) /\ m.type # "reset") => Stays(new.stage, x)
      PROVE  Owed(new, x)
  <2> HIDE DEF new
  <2>1. Owed(new, x) <=> \/ Stays(new.live, x)
                         \/ Stays(new.backlog, x) /\ NoReset(new.live)
                         \/ Stays(new.stage, x) /\ NoReset(new.backlog) /\ NoReset(new.live)
    BY PageParts DEF new
  <2> QED
    BY <1>2, <2>1
<1>3. CASE m.type = "event"
  <2>1. new.live = l /\ new.backlog = b /\ new.stage = Append(pg.stage, m)
    BY <1>3 DEF Handled, PageState
  <2>2. Stays(Append(pg.stage, m), x) <=> Stays(pg.stage, x) \/ x = m
    BY <1>1, <1>3, StaysAppended
  <2> QED
    BY <1>2, <2>1, <2>2
<1>4. CASE m.type = "state"
  <2>1. new.live = l /\ new.backlog = b /\ new.stage = pg.stage
    BY <1>4 DEF Handled, PageState
  <2> QED
    BY <1>2, <1>4, <2>1
<1>5. CASE m.type = "reset"
  <2>1. new.live = l /\ new.backlog = b
    BY <1>5 DEF Handled, PageState
  <2> QED
    BY <1>2, <1>5, <2>1
<1> QED
  BY <1>3, <1>4, <1>5 DEF Messages

LEMMA HandledBehind ==
    ASSUME NEW pg \in PageState, NEW m \in Messages
    PROVE  Handled(pg, m).behind = pg.behind
  BY DEF Handled, PageState, Messages

LEMMA ReceiveContent ==
    ASSUME ServerRight, PagesRight, PagesRight', HistoryRight, NEW p \in Pages,
           Content(page[p]), Receive(p)
    PROVE  Content(page[p])'
<1> DEFINE pg == page[p]
<1> SUFFICES ASSUME page'[p].at = "live", ~page'[p].behind,
                    NEW i \in DOMAIN history, history[i].n \notin amid
             PROVE  Owed(page'[p], history[i])
  <2>1. history' = history /\ amid' = amid
    BY DEF Receive
  <2> QED
    BY <2>1 DEF Content, Owed, Pending
<1> DEFINE x == history[i]
<1>1. /\ pg \in PageState /\ page'[p] \in PageState /\ pg.at = "live"
      /\ page \in [Pages -> PageState]
  BY DEF PagesRight, Receive
<1>a. x \in Messages /\ x.type = "event"
  BY DEF ServerRight, HistoryRight
<1>2. pg.backlog \in Seq(Messages) /\ pg.live \in Seq(Messages)
  BY <1>1 DEF PageState
<1>3. page'[p].behind = pg.behind
  <2>1. CASE pg.backlog # <<>>
    <3>1. [pg EXCEPT !.backlog = Tail(@)] \in PageState /\ Head(pg.backlog) \in Messages
      BY <1>1, <1>2, <2>1, TailRight DEF PageState
    <3>2. [pg EXCEPT !.backlog = Tail(@)].behind = pg.behind
      BY <1>1 DEF PageState
    <3>3. page'[p] = Handled([pg EXCEPT !.backlog = Tail(@)], Head(pg.backlog))
      BY <1>1, <2>1 DEF Receive
    <3> QED
      BY <3>1, <3>2, <3>3, HandledBehind, Zenon
  <2>2. CASE pg.backlog = <<>>
    <3>1. pg.live # <<>>
      BY <2>2 DEF Receive
    <3>2. [pg EXCEPT !.live = Tail(@)] \in PageState /\ Head(pg.live) \in Messages
      BY <1>1, <1>2, <3>1, TailRight DEF PageState
    <3>3. [pg EXCEPT !.live = Tail(@)].behind = pg.behind
      BY <1>1 DEF PageState
    <3>4. page'[p] = Handled([pg EXCEPT !.live = Tail(@)], Head(pg.live))
      BY <1>1, <2>2 DEF Receive
    <3> QED
      BY <3>2, <3>3, <3>4, HandledBehind, Zenon
  <2> QED
    BY <2>1, <2>2
<1>4. Owed(pg, x)
  BY <1>1, <1>3 DEF Content
<1> HIDE DEF x
<1>5. \/ Stays(pg.live, x)
      \/ Stays(pg.backlog, x) /\ NoReset(pg.live)
      \/ Stays(pg.stage, x) /\ NoReset(pg.backlog) /\ NoReset(pg.live)
  BY <1>1, <1>4, PageParts
<1>6. CASE pg.backlog # <<>>
  <2> DEFINE m == Head(pg.backlog)
             b == Tail(pg.backlog)
  <2>1. m \in Messages /\ b \in Seq(Messages)
    BY <1>2, <1>6, TailRight
  <2>2. page'[p] = Handled([pg EXCEPT !.backlog = b, !.live = pg.live], m)
    <3>1. [pg EXCEPT !.backlog = b] = [pg EXCEPT !.backlog = b, !.live = pg.live]
      BY <1>1 DEF PageState
    <3>2. page'[p] = Handled([pg EXCEPT !.backlog = b], m)
      BY <1>1, <1>6 DEF Receive
    <3> QED
      BY <3>1, <3>2
  <2>3. /\ Stays(pg.backlog, x) <=> Stays(b, x) \/ (x = m /\ NoReset(b))
        /\ NoReset(pg.backlog) <=> m.type # "reset" /\ NoReset(b)
    BY <1>2, <1>6, StaysSplit
  <2> HIDE DEF m, b
  <2>4. \/ Stays(pg.live, x)
        \/ Stays(b, x) /\ NoReset(pg.live)
        \/ x = m /\ NoReset(b) /\ NoReset(pg.live)
        \/ Stays(pg.stage, x) /\ m.type # "reset" /\ NoReset(b) /\ NoReset(pg.live)
    BY <1>5, <2>3
  <2>5. Handled([pg EXCEPT !.backlog = b, !.live = pg.live], m) \in PageState
    BY <1>1, <2>2
  <2>6. Owed(Handled([pg EXCEPT !.backlog = b, !.live = pg.live], m), x)
    BY <1>1, <1>a, <1>2, <2>1, <2>4, <2>5, HandledContent
  <2> QED
    BY <2>2, <2>6 DEF x
<1>7. CASE pg.backlog = <<>>
  <2> DEFINE m == Head(pg.live)
             l == Tail(pg.live)
  <2>1. pg.live # <<>>
    BY <1>7 DEF Receive
  <2>2. m \in Messages /\ l \in Seq(Messages)
    BY <1>2, <2>1, TailRight
  <2>3. page'[p] = Handled([pg EXCEPT !.backlog = <<>>, !.live = l], m)
    <3>1. [pg EXCEPT !.live = l] = [pg EXCEPT !.backlog = <<>>, !.live = l]
      BY <1>1, <1>7 DEF PageState
    <3>2. page'[p] = Handled([pg EXCEPT !.live = l], m)
      BY <1>1, <1>7 DEF Receive
    <3> QED
      BY <3>1, <3>2
  <2>4. /\ Stays(pg.live, x) <=> Stays(l, x) \/ (x = m /\ NoReset(l))
        /\ NoReset(pg.live) <=> m.type # "reset" /\ NoReset(l)
    BY <1>2, <2>1, StaysSplit
  <2> HIDE DEF m, l
  <2>5. NoReset(<<>>) /\ ~Stays(<<>>, x) /\ <<>> \in Seq(Messages)
    BY <2>2, StaysSingle, Empty
  <2>6. \/ Stays(l, x)
        \/ x = m /\ NoReset(<<>>) /\ NoReset(l)
        \/ Stays(pg.stage, x) /\ m.type # "reset" /\ NoReset(<<>>) /\ NoReset(l)
    BY <1>5, <1>7, <2>4, <2>5
  <2>7. Handled([pg EXCEPT !.backlog = <<>>, !.live = l], m) \in PageState
    BY <1>1, <2>3
  <2>8. Owed(Handled([pg EXCEPT !.backlog = <<>>, !.live = l], m), x)
    BY <1>1, <1>a, <2>2, <2>5, <2>6, <2>7, HandledContent
  <2> QED
    BY <2>3, <2>8 DEF x
<1> QED
  BY <1>6, <1>7

\* A page that connects is given a copy of all that is kept for it.
LEMMA SubscribeContent ==
    ASSUME ServerRight, PagesRight, PagesRight', HistoryRight, NEW p \in Pages, Subscribe(p)
    PROVE  Content(page[p])'
<1> DEFINE pg == page[p]
           first == <<State(pg.snap)>>
<1> SUFFICES ASSUME NEW i \in DOMAIN history PROVE Owed(page'[p], history[i])
  <2>1. history' = history /\ amid' = amid
    BY DEF Subscribe
  <2> QED
    BY <2>1 DEF Content, Owed, Pending
<1>1. /\ pg \in PageState /\ page'[p] \in PageState /\ history \in Seq(Messages)
      /\ page \in [Pages -> PageState]
  BY DEF PagesRight, PageRight, ServerRight
<1>2. page'[p].live = <<>> /\ page'[p].backlog = first \o history
  BY <1>1 DEF Subscribe, PageState
<1>3. first \in Seq(Messages)
  BY <1>1 DEF PageState, State, Messages
<1> HIDE DEF first
<1>4. NoReset(history)
  BY DEF HistoryRight, NoReset
<1>5. Stays(history, history[i])
  BY <1>1, <1>4, AllStays
<1>6. Stays(first \o history, history[i])
  BY <1>1, <1>3, <1>5, StaysJoined
<1>7. NoReset(<<>>)
  BY DEF NoReset
<1>8. \/ Stays(page'[p].live, history[i])
      \/ Stays(page'[p].backlog, history[i]) /\ NoReset(page'[p].live)
  BY <1>2, <1>6, <1>7
<1> QED
  BY <1>1, <1>8, PageParts

\* A step of a handler other than Clear clears no stage that was not being cleared.
LEMMA ClearingEnds ==
    ASSUME ServerRight, NEW h \in Handlers, NEW new,
           handler' = [handler EXCEPT ![h] = new], new.next # "announce"
    PROVE  Clearing' => Clearing
<1>1. \A k \in Handlers : handler'[k] = IF k = h THEN new ELSE handler[k]
  BY DEF ServerRight
<1> QED
  BY <1>1 DEF Clearing

LEMMA EmitContent ==
    ASSUME ServerRight, PagesRight, HistoryRight, \A p \in Pages : Content(page[p]), emit
    PROVE  HistoryRight' /\ \A p \in Pages : Content(page[p])'
<1> DEFINE m == Event(events + 1)
<1>1. events \in Nat /\ history \in Seq(Messages)
  BY FeedAssumption DEF ServerRight
<1>2. /\ m \in Messages /\ m.type = "event" /\ m.n = events + 1
      /\ publish(m) /\ handler' = handler /\ history' = Append(history, m)
      /\ amid' = IF Clearing THEN amid \cup {events + 1} ELSE amid
  BY <1>1 DEF emit, Event, Messages
<1> HIDE DEF m
<1>3. amid \subseteq amid'
  BY <1>2
<1>4. Clearing' <=> Clearing
  BY <1>2 DEF Clearing
<1>5. HistoryRight'
  <2> SUFFICES ASSUME NEW i \in DOMAIN history'
               PROVE  history'[i].type = "event" /\ (Clearing => history'[i].n \in amid')
    BY <1>4 DEF HistoryRight
  <2>1. (i \in DOMAIN history /\ history'[i] = history[i]) \/ history'[i] = m
    BY <1>1, <1>2
  <2> QED
    BY <1>2, <1>3, <2>1 DEF HistoryRight
<1>6. \A p \in Pages : Content(page[p])'
  BY <1>2, <1>3, PublishContent
<1> QED
  BY <1>5, <1>6

LEMMA HandlerContent ==
    ASSUME ServerRight, PagesRight, HistoryRight, \A p \in Pages : Content(page[p]),
           NEW h \in Handlers,
           \/ Change(h) \/ Clear(h) \/ Announce(h)
           \/ Snapshot(h) \/ Dropped(h) \/ PublishState(h)
    PROVE  HistoryRight' /\ \A p \in Pages : Content(page[p])'
<1>1. CASE Clear(h)
  <2>1. DOMAIN history' = {}
    BY <1>1 DEF Clear
  <2> QED
    BY <2>1 DEF HistoryRight, Content
<1>2. CASE Announce(h)
  <2>1. UNCHANGED <<history, amid>> /\ handler' = [handler EXCEPT ![h].next = "snapshot"]
    BY <1>2 DEF Announce
  <2>2. Clearing /\ (Clearing' => Clearing)
    BY <1>2, <2>1, ClearingEnds DEF Announce, Clearing, ServerRight
  <2>3. \A i \in DOMAIN history' : history'[i].n \in amid'
    BY <2>1, <2>2 DEF HistoryRight
  <2> QED
    BY <2>1, <2>2, <2>3 DEF HistoryRight, Content
<1>3. CASE PublishState(h)
  <2> DEFINE m == State(handler[h].snap)
  <2>1. /\ UNCHANGED <<history, amid>> /\ publish(m)
        /\ handler' = [handler EXCEPT ![h] = [next |-> "change", snap |-> 0]]
    BY <1>3 DEF PublishState
  <2>2. m \in Messages /\ m.type = "state"
    <3>1. handler[h].snap \in 0 .. version /\ version \in Nat
      BY FeedAssumption DEF ServerRight
    <3> QED
      BY <3>1 DEF State, Messages
  <2>3. Clearing' => Clearing
    <3> DEFINE new == [next |-> "change", snap |-> 0]
    <3>1. handler' = [handler EXCEPT ![h] = new] /\ new.next # "announce"
      BY <2>1
    <3> HIDE DEF new
    <3> QED
      BY <3>1, ClearingEnds
  <2> HIDE DEF m
  <2>4. \A p \in Pages : Content(page[p])'
    BY <2>1, <2>2, PublishContent
  <2> QED
    BY <2>1, <2>3, <2>4 DEF HistoryRight
<1>4. CASE Change(h) \/ Snapshot(h) \/ Dropped(h)
  <2>1. UNCHANGED <<history, page, amid>>
    BY <1>4 DEF Change, Snapshot, Dropped
  <2>2. Clearing' => Clearing
    <3>1. PICK new : handler' = [handler EXCEPT ![h] = new] /\ new.next # "announce"
      BY <1>4 DEF Change, Snapshot, Dropped, ServerRight
    <3> QED
      BY <3>1, ClearingEnds
  <2>3. HistoryRight'
    BY <2>1, <2>2 DEF HistoryRight
  <2>4. \A p \in Pages : Content(page[p])'
    BY <2>1 DEF Content, Owed, Pending
  <2> QED
    BY <2>3, <2>4
<1> QED
  BY <1>1, <1>2, <1>3, <1>4

LEMMA PageContent ==
    ASSUME ServerRight, PagesRight, HistoryRight, \A p \in Pages : Content(page[p]),
           PagesRight', NEW q \in Pages,
           Connect(q) \/ Subscribe(q) \/ Receive(q) \/ Lose(q)
    PROVE  HistoryRight' /\ \A p \in Pages : Content(page[p])'
<1>1. UNCHANGED <<history, handler, amid>> /\ page \in [Pages -> PageState]
  BY DEF Connect, Subscribe, Receive, Lose, PagesRight
<1>2. HistoryRight'
  BY <1>1 DEF HistoryRight, Clearing
<1>3. ASSUME NEW p \in Pages, p # q PROVE Content(page[p])'
  <2>1. page'[p] = page[p]
    BY <1>1, <1>3 DEF Connect, Subscribe, Receive, Lose
  <2> QED
    BY <1>1, <2>1 DEF Content, Owed, Pending
<1>4. Content(page[q])'
  <2>1. CASE Connect(q) \/ Lose(q)
    <3>1. page'[q].at # "live"
      BY <1>1, <2>1 DEF Connect, Lose, Away, PageState
    <3> QED
      BY <3>1 DEF Content
  <2>2. CASE Subscribe(q)
    BY <2>2, SubscribeContent
  <2>3. CASE Receive(q)
    BY <2>3, ReceiveContent
  <2> QED
    BY <2>1, <2>2, <2>3
<1> QED
  BY <1>2, <1>3, <1>4

\* Any number of handlers that clear the stage and of pages that connect and read: a page
\* that did not fall behind keeps every event since the stage was cleared, but for those
\* that came between the two steps of clear_history.
THEOREM EventsKept == Spec => []LostOnlyAmidClears
<1> DEFINE All == \A p \in Pages : Content(page[p])
<1>1. Init => ServerRight /\ PagesRight /\ HistoryRight /\ All
  <2> SUFFICES ASSUME Init PROVE ServerRight /\ PagesRight /\ HistoryRight /\ All
    OBVIOUS
  <2>1. ServerRight /\ PagesRight
    BY FeedInit
  <2>2. history = <<>> /\ DOMAIN history = {}
    BY DEF Init
  <2> QED
    BY <2>1, <2>2 DEF HistoryRight, Content
<1>2. ASSUME ServerRight, PagesRight, HistoryRight, All, [Next]_vars
      PROVE  (ServerRight /\ PagesRight /\ HistoryRight /\ All)'
  <2>1. ServerRight' /\ PagesRight'
    BY <1>2, FeedStep
  <2>2. CASE UNCHANGED vars
    <3>1. UNCHANGED <<history, handler, page, amid>>
      BY <2>2 DEF vars
    <3>2. HistoryRight'
      BY <1>2, <3>1 DEF HistoryRight, Clearing
    <3>3. \A p \in Pages : Content(page[p])'
      BY <1>2, <3>1 DEF Content, Owed, Pending
    <3> QED
      BY <2>1, <3>2, <3>3
  <2>3. CASE emit
    <3>1. HistoryRight' /\ \A p \in Pages : Content(page[p])'
      BY <1>2, <2>3, EmitContent
    <3> QED
      BY <2>1, <3>1
  <2>4. ASSUME NEW h \in Handlers,
               \/ Change(h) \/ Clear(h) \/ Announce(h)
               \/ Snapshot(h) \/ Dropped(h) \/ PublishState(h)
        PROVE  HistoryRight' /\ \A p \in Pages : Content(page[p])'
    BY <1>2, <2>4, HandlerContent, Zenon
  <2>5. ASSUME NEW q \in Pages, Connect(q) \/ Subscribe(q) \/ Receive(q) \/ Lose(q)
        PROVE  HistoryRight' /\ \A p \in Pages : Content(page[p])'
    BY <1>2, <2>1, <2>5, PageContent, Zenon
  <2> QED
    BY <1>2, <2>1, <2>2, <2>3, <2>4, <2>5 DEF Next
<1>3. All => LostOnlyAmidClears
  BY AllContent
<1> QED
  BY <1>1, <1>2, <1>3, PTL DEF Spec
=============================================================================
