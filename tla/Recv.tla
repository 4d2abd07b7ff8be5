-------------------------------- MODULE Recv --------------------------------
(***************************************************************************)
(* How NostrTransport::recv_detailed finds gift wraps: it fetches what the *)
(* relays have stored, reads it, and if nothing in it can be handed over   *)
(* takes the notification stream, subscribes and waits.  Relays store      *)
(* wraps at any moment, answer or do not, drop the connection, and refuse  *)
(* subscriptions; the party calls recv again and again, and may end at any *)
(* place and come back with another transport.                             *)
(* All wraps are in the lookback window (module ListenWindow).             *)
(***************************************************************************)
EXTENDS FiniteSets

CONSTANTS
    Relays,
    Wraps,      \* gift wraps for the key of the party
    Openable,   \* those that decrypt to an envelope of this protocol
    Configs,    \* the relay lists a run of the party may be given
    None

ASSUME RecvAssumption ==
    /\ Openable \subseteq Wraps
    /\ None \notin Wraps
    /\ Configs \subseteq SUBSET Relays

VARIABLES
    stored,     \* what each relay keeps
    at,         \* where the party is
    conn,       \* the relays the transport connected to
    live,       \* those it has a connection to now
    serving,    \* those that hold a subscription of it
    asked,      \* those that have yet to serve the subscription of this call
    found,      \* fetched wraps still to be read
    notices,    \* what the notification stream holds
    old,        \* wraps the client was sent when no one read them
    delivered,  \* the delivered set of the transport
    result,     \* what the last call returned, None for nothing or an error
    handed      \* every wrap ever handed over

callVars == <<asked, found, notices, old>>
vars == <<stored, at, conn, live, serving, callVars, delivered, result, handed>>

Init ==
    /\ stored = [r \in Relays |-> {}]
    /\ at = "down"
    /\ conn = {} /\ live = {} /\ serving = {}
    /\ asked = {} /\ found = {} /\ notices = {} /\ old = {}
    /\ delivered = {} /\ result = None /\ handed = {}

-----------------------------------------------------------------------------
(* The relays and the client that talks to them                            *)

\* The client need not report a wrap a second time.
Notified(S) == \E quiet \in SUBSET (S \cap old) : notices' = notices \cup (S \ quiet)

Listening == at \in {"streaming", "waiting"}

\* A relay stores a wrap, and sends it to a client that has subscribed.
Store(r, w) ==
    /\ w \notin stored[r]
    /\ stored' = [stored EXCEPT ![r] = @ \cup {w}]
    /\ IF r \in serving /\ Listening
         THEN Notified({w}) /\ UNCHANGED old
         ELSE /\ old' = IF r \in serving THEN old \cup {w} ELSE old
              /\ UNCHANGED notices
    /\ UNCHANGED <<at, conn, live, serving, asked, found, delivered, result, handed>>

\* It answers a subscription with what it has.
RelayServes(r) ==
    /\ at = "waiting"
    /\ r \in asked \cap live
    /\ asked' = asked \ {r}
    /\ serving' = serving \cup {r}
    /\ Notified(stored[r])
    /\ UNCHANGED <<stored, at, conn, live, found, old, delivered, result, handed>>

\* Relays cap how many subscriptions one connection may hold.
RelayRefuses(r) ==
    /\ at = "waiting"
    /\ r \in asked
    /\ asked' = asked \ {r}
    /\ UNCHANGED <<stored, at, conn, live, serving, found, notices, old, delivered,
                   result, handed>>

Drop(r) ==
    /\ r \in live
    /\ live' = live \ {r}
    /\ serving' = serving \ {r}
    /\ UNCHANGED <<stored, at, conn, callVars, delivered, result, handed>>

\* The client connects again, and subscribes again for a call that waits.
Redial(r) ==
    /\ r \in conn \ live
    /\ live' = live \cup {r}
    /\ asked' = IF at = "waiting" THEN asked \cup {r} ELSE asked
    /\ UNCHANGED <<stored, at, conn, serving, found, notices, old, delivered, result,
                   handed>>

-----------------------------------------------------------------------------
(* The transport                                                           *)

\* Mutant of Connect: only one relay of the list is used.
ConnectOne(R, C) ==
    /\ at = "down"
    /\ C # {}
    /\ C \subseteq {CHOOSE r \in R : TRUE}
    /\ at' = "idle"
    /\ conn' = C /\ live' = C
    /\ delivered' \in SUBSET handed
    /\ result' = None
    /\ UNCHANGED <<stored, serving, callVars, handed>>

\* with_keys: the relays of the list that come up.  mark_delivered: the theater tells
\* a new transport what Bob has handled, the programs tell it nothing.
Connect(R, C) ==
    /\ at = "down"
    /\ C # {} /\ C \subseteq R
    /\ at' = "idle"
    /\ conn' = C /\ live' = C
    /\ delivered' \in SUBSET handed
    /\ result' = None
    /\ UNCHANGED <<stored, serving, callVars, handed>>

\* shutdown, a call that select! drops, or the end of the process.
Leave ==
    /\ at # "down"
    /\ at' = "down"
    /\ conn' = {} /\ live' = {} /\ serving' = {}
    /\ asked' = {} /\ found' = {} /\ notices' = {} /\ old' = {}
    /\ delivered' = {} /\ result' = None
    /\ UNCHANGED <<stored, handed>>

-----------------------------------------------------------------------------
(* recv_detailed                                                           *)

\* Mutant of Fetch: a fetched wrap counts as delivered before it is read.
FetchClaims(A) ==
    /\ at = "idle"
    /\ A \subseteq live
    /\ at' = "reading"
    /\ found' = UNION {stored[r] : r \in A} \ delivered
    /\ delivered' = delivered \cup {w \in found' : \E v \in found' : v # w}
    /\ result' = None
    /\ UNCHANGED <<stored, conn, live, serving, asked, notices, old, handed>>

\* fetch_events: the relays that answer in time.
Fetch(A) ==
    /\ at = "idle"
    /\ A \subseteq live
    /\ at' = "reading"
    /\ found' = UNION {stored[r] : r \in A} \ delivered
    /\ result' = None
    /\ UNCHANGED <<stored, conn, live, serving, asked, notices, old, delivered, handed>>

FetchFails ==
    /\ at = "idle"
    /\ result # None
    /\ result' = None
    /\ UNCHANGED <<stored, at, conn, live, serving, callVars, delivered, handed>>

\* The call ends; what it leaves unread was still sent to the client.
Return ==
    /\ at' = "idle"
    /\ asked' = {} /\ found' = {} /\ notices' = {}
    /\ old' = old \cup found \cup notices
    /\ UNCHANGED <<stored, conn, live, serving>>

\* Mutant of Deliver: the wrap is not claimed.
DeliverAgain(w) ==
    /\ w \in Openable
    /\ result' = w
    /\ handed' = handed \cup {w}
    /\ UNCHANGED delivered
    /\ Return

\* deliver with take_if_new
Deliver(w) ==
    /\ w \in Openable \ delivered
    /\ delivered' = delivered \cup {w}
    /\ result' = w
    /\ handed' = handed \cup {w}
    /\ Return

HandStored(w) == at = "reading" /\ w \in found /\ Deliver(w)

SkipStored(w) ==
    /\ at = "reading"
    /\ w \in found
    /\ w \notin Openable \ delivered
    /\ found' = found \ {w}
    /\ UNCHANGED <<stored, at, conn, live, serving, asked, notices, old, delivered,
                   result, handed>>

\* Mutant of OpenStream: the stream is taken after the subscription.
OpenStreamLate ==
    /\ at = "reading"
    /\ found = {}
    /\ at' = "streaming"
    /\ serving' = serving \cup live
    /\ UNCHANGED <<stored, conn, live, callVars, delivered, result, handed>>

OpenStream ==
    /\ at = "reading"
    /\ found = {}
    /\ at' = "streaming"
    /\ UNCHANGED <<stored, conn, live, serving, callVars, delivered, result, handed>>

Subscribe ==
    /\ at = "streaming"
    /\ at' = "waiting"
    /\ asked' = live
    /\ UNCHANGED <<stored, conn, live, serving, found, notices, old, delivered, result,
                   handed>>

SubscribeFails ==
    /\ at = "streaming"
    /\ Return
    /\ UNCHANGED <<delivered, result, handed>>

HandNotice(w) == at = "waiting" /\ w \in notices /\ Deliver(w)

SkipNotice(w) ==
    /\ at = "waiting"
    /\ w \in notices
    /\ w \notin Openable \ delivered
    /\ notices' = notices \ {w}
    /\ UNCHANGED <<stored, at, conn, live, serving, asked, found, old, delivered, result,
                   handed>>

\* The deadline is over; select! may prefer it to a notice that is there.
TimeOut ==
    /\ at = "waiting"
    /\ Return
    /\ UNCHANGED <<delivered, result, handed>>

Call ==
    \/ \E w \in Wraps : HandStored(w) \/ SkipStored(w)
    \/ OpenStream
    \/ Subscribe
    \/ SubscribeFails
    \/ \E w \in Wraps : HandNotice(w) \/ SkipNotice(w)
    \/ TimeOut

Next ==
    \/ \E r \in Relays, w \in Wraps : Store(r, w)
    \/ \E r \in Relays : RelayServes(r) \/ RelayRefuses(r) \/ Drop(r) \/ Redial(r)
    \/ \E R \in Configs, C \in SUBSET Relays : Connect(R, C)
    \/ Leave
    \/ \E A \in SUBSET Relays : Fetch(A)
    \/ FetchFails
    \/ Call

Spec == Init /\ [][Next]_vars

-----------------------------------------------------------------------------
(* Properties                                                              *)

Places == {"down", "idle", "reading", "streaming", "waiting"}

\* Every variable holds what the transport and the relays can put there.
TypeOK ==
    /\ stored \in [Relays -> SUBSET Wraps]
    /\ at \in Places
    /\ live \subseteq conn /\ conn \subseteq Relays
    /\ serving \subseteq live /\ asked \subseteq conn
    /\ {found, notices, old, delivered, handed} \subseteq SUBSET Wraps
    /\ result \in Wraps \cup {None}

\* While a call waits, no wrap falls between fetch and subscription: what a
\* subscribed relay has stored is handed over, is in the stream, or was sent to the
\* client when no one read it (then the next call fetches it).
NoGap ==
    at = "waiting" =>
        \A r \in serving : stored[r] \cap Openable \subseteq delivered \cup notices \cup old

\* So at every moment the client was sent what a subscribed relay has stored.
Reached ==
    \A r \in serving :
        stored[r] \cap Openable \subseteq delivered \cup found \cup notices \cup old

\* A stream and a list of fetched wraps are there only while a call needs them.
Held ==
    /\ found # {} => at = "reading"
    /\ notices # {} => Listening
    /\ at = "down" => conn = {}

\* What the party and the client know of is stored.
Known == \A w \in found \cup notices \cup handed : \E r \in Relays : w \in stored[r]

IInv == TypeOK /\ Reached /\ Held /\ Known

M == INSTANCE Mailbox WITH there <- UNION {stored[r] : r \in Relays}, got <- result

\* recv hands over stored wraps that can be opened, each once per transport.
MailboxSpec == M!Spec

\* The party makes its calls and every call ends; again and again a connected relay
\* answers a fetch, is there again between two calls, and is reached by a run that has
\* it in its list; what is fetched is not always lost to the end of the process.
Fair ==
    /\ WF_vars(Call) /\ WF_vars(TimeOut)
    /\ \A w \in Openable : SF_vars(HandStored(w))
    /\ WF_vars(\E A \in SUBSET Relays : Fetch(A))
    /\ \A r \in Relays :
         /\ SF_vars(\E A \in SUBSET Relays : r \in A /\ Fetch(A))
         /\ SF_vars(\E R \in Configs, C \in SUBSET Relays : r \in C /\ Connect(R, C))
         /\ SF_vars(at = "idle" /\ Redial(r))

FairSpec == Spec /\ Fair

\* A wrap on a relay that the transport connected to is handed over, though fetches
\* time out, subscriptions are refused and connections drop.
HandedOver ==
    \A r \in Relays, w \in Openable :
        w \in stored[r] /\ r \in conn ~> w \in handed \/ r \notin conn

\* A party that starts over again and again is handed every wrap that some relay has.
FoundInTheEnd ==
    []<>(at = "down") =>
        \A w \in Openable : (\E r \in Relays : w \in stored[r]) ~> w \in handed
=============================================================================
