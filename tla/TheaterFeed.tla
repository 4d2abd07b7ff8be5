---------------------------- MODULE TheaterFeed -----------------------------
(***************************************************************************)
(* What a page of the theater is told.  Every event is kept in `history'   *)
(* and sent on a broadcast channel in one step, under the history lock.    *)
(* A change of the shared state, and a reset of the stage, reach the page  *)
(* in several steps, and between any two of them other handlers, the tasks *)
(* of Alice and Bob, and pages that connect may take steps of their own.   *)
(***************************************************************************)
EXTENDS Integers, Sequences, SequencesExt

CONSTANTS
    Handlers,    \* request handlers that run at one time
    Pages,
    Capacity,    \* messages the channel keeps for a slow page (1024 in the code)
    Clears,      \* whether handlers that clear the stage run
    Drops,       \* whether a browser may leave while its handler awaits
    MaxVersion,  \* bound on the changes of the shared state
    MaxEvents    \* bound on the events

ASSUME FeedAssumption ==
    /\ Capacity \in Nat \ {0}
    /\ {Clears, Drops} \subseteq BOOLEAN
    /\ MaxVersion \in Nat \ {0} /\ MaxEvents \in Nat

VARIABLES
    version,  \* of Inner; a snapshot shows one
    events,   \* how many events there were
    history,  \* the events since the stage was cleared
    handler,  \* what each handler does next, and the snapshot it took
    page,     \* each page and its connection
    amid      \* history: the events between the two steps of a clear_history

vars == <<version, events, history, handler, page, amid>>

Event(n) == [type |-> "event", n |-> n]
State(v) == [type |-> "state", n |-> v]
ResetStage == [type |-> "reset", n |-> 0]

Away == [at |-> "off", snap |-> 0, backlog |-> <<>>, live |-> <<>>, stage |-> <<>>,
         shown |-> 0, behind |-> FALSE]

Init ==
    /\ version = 1
    /\ events = 0
    /\ history = <<>>
    /\ handler = [h \in Handlers |-> [next |-> "change", snap |-> 0]]
    /\ page = [p \in Pages |-> Away]
    /\ amid = {}

-----------------------------------------------------------------------------
(* The server                                                              *)

\* A page that is too slow loses the oldest messages, and is not told.
Queued(live, m) ==
    IF Len(live) < Capacity THEN Append(live, m) ELSE Append(Tail(live), m)

\* `behind' is history, too: the page lost a message of this connection.
Told(pg, m) ==
    [pg EXCEPT !.live = Queued(@, m), !.behind = @ \/ Len(pg.live) = Capacity]

publish(m) ==
    page' = [p \in Pages |-> IF page[p].at = "live" THEN Told(page[p], m) ELSE page[p]]

Clearing == \E h \in Handlers : handler[h].next = "announce"

emit ==
    /\ events < MaxEvents
    /\ events' = events + 1
    /\ history' = Append(history, Event(events + 1))
    /\ publish(Event(events + 1))
    /\ amid' = IF Clearing THEN amid \cup {events + 1} ELSE amid
    /\ UNCHANGED <<version, handler>>

\* A handler changes Inner and releases it.
Change(h) ==
    /\ handler[h].next = "change"
    /\ version < MaxVersion
    /\ version' = version + 1
    /\ \E next \in {"snapshot"} \cup (IF Clears THEN {"clear"} ELSE {}) :
         handler' = [handler EXCEPT ![h].next = next]
    /\ UNCHANGED <<events, history, page, amid>>

\* clear_history empties the history, releases it, and then says so.
Clear(h) ==
    /\ handler[h].next = "clear"
    /\ history' = <<>>
    /\ handler' = [handler EXCEPT ![h].next = "announce"]
    /\ UNCHANGED <<version, events, page, amid>>

Announce(h) ==
    /\ handler[h].next = "announce"
    /\ publish(ResetStage)
    /\ handler' = [handler EXCEPT ![h].next = "snapshot"]
    /\ UNCHANGED <<version, events, history, amid>>

\* broadcast_state
Snapshot(h) ==
    /\ handler[h].next = "snapshot"
    /\ handler' = [handler EXCEPT ![h] = [next |-> "publish", snap |-> version]]
    /\ UNCHANGED <<version, events, history, page, amid>>

\* The handler is dropped where it waits for Inner: the pages are not told.
Dropped(h) ==
    /\ Drops
    /\ handler[h].next = "snapshot"
    /\ handler' = [handler EXCEPT ![h].next = "change"]
    /\ UNCHANGED <<version, events, history, page, amid>>

PublishState(h) ==
    /\ handler[h].next = "publish"
    /\ publish(State(handler[h].snap))
    /\ handler' = [handler EXCEPT ![h] = [next |-> "change", snap |-> 0]]
    /\ UNCHANGED <<version, events, history, amid>>

-----------------------------------------------------------------------------
(* The page                                                                *)

\* stream_events: the snapshot first ...
Connect(p) ==
    /\ page[p].at = "off"
    /\ page' = [page EXCEPT ![p].at = "connecting", ![p].snap = version]
    /\ UNCHANGED <<version, events, history, handler, amid>>

\* Mutant of Subscribe: the copy is made before, and events may come in between.
SubscribeLate(p) ==
    /\ page[p].at = "connecting"
    /\ \E n \in 0 .. Len(history) :
         page' = [page EXCEPT ![p].at = "live", ![p].snap = 0, ![p].live = <<>>,
                    ![p].backlog = <<State(page[p].snap)>> \o SubSeq(history, 1, n)]
    /\ UNCHANGED <<version, events, history, handler, amid>>

\* ... then, under the history lock, the copy and the subscription.
Subscribe(p) ==
    /\ page[p].at = "connecting"
    /\ page' = [page EXCEPT ![p].at = "live", ![p].snap = 0, ![p].live = <<>>,
                            ![p].backlog = <<State(page[p].snap)>> \o history]
    /\ UNCHANGED <<version, events, history, handler, amid>>

\* handle: what the page makes of a message.
Handled(pg, m) ==
    CASE m.type = "event" -> [pg EXCEPT !.stage = Append(@, m)]
      [] m.type = "state" -> [pg EXCEPT !.shown = m.n]
      [] m.type = "reset" -> [pg EXCEPT !.stage = <<>>]

Receive(p) ==
    /\ page[p].at = "live"
    /\ \/ /\ page[p].backlog # <<>>
          /\ page' = [page EXCEPT ![p] = Handled([page[p] EXCEPT !.backlog = Tail(@)],
                                                 Head(page[p].backlog))]
       \/ /\ page[p].backlog = <<>>
          /\ page[p].live # <<>>
          /\ page' = [page EXCEPT ![p] = Handled([page[p] EXCEPT !.live = Tail(@)],
                                                 Head(page[p].live))]
    /\ UNCHANGED <<version, events, history, handler, amid>>

\* Mutant of Lose: the stage is not cleared.
LoseKeepsStage(p) ==
    /\ page[p].at # "off"
    /\ page' = [page EXCEPT ![p] = [Away EXCEPT !.shown = page[p].shown,
                                                !.stage = page[p].stage]]
    /\ UNCHANGED <<version, events, history, handler, amid>>

\* The connection is lost: the stage is cleared, and the page connects again.
Lose(p) ==
    /\ page[p].at # "off"
    /\ page' = [page EXCEPT ![p] = [Away EXCEPT !.shown = page[p].shown]]
    /\ UNCHANGED <<version, events, history, handler, amid>>

Next ==
    \/ emit
    \/ \E h \in Handlers : Change(h) \/ Clear(h) \/ Announce(h) \/ Snapshot(h)
                             \/ Dropped(h) \/ PublishState(h)
    \/ \E p \in Pages : Connect(p) \/ Subscribe(p) \/ Receive(p) \/ Lose(p)

Spec == Init /\ [][Next]_vars

-----------------------------------------------------------------------------
(* Properties                                                              *)

Messages == [type : {"event", "state", "reset"}, n : Nat]

PageState ==
    [at : {"off", "connecting", "live"}, snap : Nat, backlog : Seq(Messages),
     live : Seq(Messages), stage : Seq(Messages), shown : Nat, behind : BOOLEAN]

\* Every variable holds what the server and the page can put there.
TypeOK ==
    /\ version \in 1 .. MaxVersion
    /\ events \in 0 .. MaxEvents
    /\ history \in Seq(Messages)
    /\ handler \in [Handlers ->
         [next : {"change", "clear", "announce", "snapshot", "publish"}, snap : 0 .. version]]
    /\ page \in [Pages -> PageState]
    /\ \A p \in Pages : /\ page[p].snap <= version /\ page[p].shown <= version
                        /\ Len(page[p].live) <= Capacity
    /\ amid \subseteq 1 .. events

\* What the page has on stage, or will have when it has read what waits for it.
Pending(pg) == pg.stage \o pg.backlog \o pg.live

InOrder(s) ==
    \A i, j \in DOMAIN s :
        i < j /\ s[i].type = "event" /\ s[j].type = "event" => s[i].n < s[j].n

\* No page shows an event twice or out of order, however it connects while events
\* are emitted, loses its connection, falls behind or sees the stage cleared.
ShownOnce == \A p \in Pages : InOrder(Pending(page[p]))

\* The messages of s speak of e events and v versions at most.
UpTo(s, e, v) ==
    \A i \in DOMAIN s : /\ s[i].type = "event" => s[i].n <= e
                        /\ s[i].type = "state" => s[i].n <= v

\* The inductive invariant: what is kept for pages to come is in order, too, and a page
\* that connects begins with an empty stage.
IInv ==
    /\ TypeOK /\ ShownOnce
    /\ InOrder(history) /\ UpTo(history, events, version)
    /\ \A p \in Pages : /\ UpTo(Pending(page[p]), events, version)
                        /\ page[p].at # "live" => Pending(page[p]) = <<>>

\* The page shows message m, or will, and no reset of the stage is to follow.
Keeps(pg, m) ==
    \E i \in DOMAIN Pending(pg) :
        /\ Pending(pg)[i] = m
        /\ \A j \in i + 1 .. Len(Pending(pg)) : Pending(pg)[j].type # "reset"

\* Whenever it connects and however slow it reads, a page that did not fall behind is
\* told every event since the stage was cleared and keeps it on stage, but for events
\* that came between the two steps of clear_history.
LostOnlyAmidClears ==
    \A p \in Pages : page[p].at = "live" /\ ~page[p].behind =>
        \A i \in DOMAIN history : history[i].n \notin amid => Keeps(page[p], history[i])

\* A page that connected is told every event since the stage was cleared.
NothingLost ==
    \A p \in Pages : page[p].at = "live" =>
        ToSet(history) \subseteq ToSet(Pending(page[p]))

\* A page that has read everything shows the state the server is in.
PageShowsState ==
    \A p \in Pages :
        /\ page[p].at = "live"
        /\ page[p].backlog = <<>> /\ page[p].live = <<>>
        /\ \A h \in Handlers : handler[h].next = "change"
        => page[p].shown = version
=============================================================================
