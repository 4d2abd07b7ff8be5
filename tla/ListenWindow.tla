---------------------------- MODULE ListenWindow ----------------------------
(***************************************************************************)
(* The relay lookback window.  NIP-59 back-dates every gift wrap by a      *)
(* random amount, so both sides ask relays only for wraps that are no      *)
(* older than a saved anchor minus a margin: the receiver's anchor is when *)
(* it created its URI, the sender's is when it published.  The clocks of   *)
(* the two sides differ by at most Slack.  Time is in hours.               *)
(***************************************************************************)
EXTENDS Integers

CONSTANTS
    Backdate,         \* how far NIP-59 may back-date a wrap (48 in the code)
    Slack,            \* the clock skew the margin allows for (1 in the code)
    Start, MaxTime,   \* the first hour, and the bound on the last
    MayDieUnrecorded  \* whether a sender may be killed between send and save

ASSUME WindowAssumption ==
    /\ Backdate \in Nat
    /\ Slack \in Nat
    /\ Start \in Nat /\ Start > Slack
    /\ MaxTime \in Nat
    /\ MayDieUnrecorded \in BOOLEAN

VARIABLES
    now,      \* the receiver's clock
    ahead,    \* how far the sender's clock is ahead of it
    created,  \* created_at in the receiver's session file, or 0
    saved,    \* published_at in the sender's session file, or 0
    at,       \* where the sender's process is
    anchor,   \* published_at in the sender's memory, or 0
    requests, \* created_at of the requests on the relays
    replies   \* created_at of the replies on the relays

vars == <<now, ahead, created, saved, at, anchor, requests, replies>>

\* Mutant of GIFT_WRAP_BACKDATE: no margin for clock skew.
BackdateOnly == Backdate

GIFT_WRAP_BACKDATE == Backdate + Slack

\* Timestamps do not go below zero.
Minus(t, d) == IF t >= d THEN t - d ELSE 0

backlog_since(listening_since) == Minus(listening_since, GIFT_WRAP_BACKDATE)

\* The created_at of a wrap published at `t': back-dated at random.
Stamps(t) == {Minus(t, d) : d \in 0..Backdate}

SenderClock == now + ahead

Init ==
    /\ now = Start
    /\ ahead \in -Slack..Slack
    /\ created = 0
    /\ saved = 0
    /\ at = "down"
    /\ anchor = 0
    /\ requests = {}
    /\ replies = {}

Tick ==
    /\ now < MaxTime
    /\ now' = now + 1
    /\ UNCHANGED <<ahead, created, saved, at, anchor, requests, replies>>

\* serve without a saved session.
CreateSession ==
    /\ created = 0
    /\ created' = now
    /\ UNCHANGED <<now, ahead, saved, at, anchor, requests, replies>>

\* run, with published_at still 0: the time is taken before publishing.
TakeTime ==
    /\ at = "down"
    /\ created # 0
    /\ saved = 0
    /\ anchor' = SenderClock
    /\ at' = "ready"
    /\ UNCHANGED <<now, ahead, created, saved, requests, replies>>

\* Mutant of Reopen: every run anchors its window at its own start.
ReopenNow ==
    /\ at = "down"
    /\ saved # 0
    /\ anchor' = SenderClock
    /\ at' = "listening"
    /\ UNCHANGED <<now, ahead, created, saved, requests, replies>>

\* run, with published_at already set.
Reopen ==
    /\ at = "down"
    /\ saved # 0
    /\ anchor' = saved
    /\ at' = "listening"
    /\ UNCHANGED <<now, ahead, created, saved, requests, replies>>

SendRequest ==
    /\ at = "ready"
    /\ \E s \in Stamps(SenderClock) : requests' = requests \cup {s}
    /\ at' = "sent"
    /\ UNCHANGED <<now, ahead, created, saved, anchor, replies>>

\* Mutant of Record: the time of saving is saved.
RecordNow ==
    /\ at = "sent"
    /\ saved' = SenderClock
    /\ at' = "listening"
    /\ UNCHANGED <<now, ahead, created, anchor, requests, replies>>

Record ==
    /\ at = "sent"
    /\ saved' = anchor
    /\ at' = "listening"
    /\ UNCHANGED <<now, ahead, created, anchor, requests, replies>>

\* The receiver finds a request in its window and answers it.
SendReply ==
    /\ \E r \in requests : r >= backlog_since(created)
    /\ \E s \in Stamps(now) : replies' = replies \cup {s}
    /\ UNCHANGED <<now, ahead, created, saved, at, anchor, requests>>

\* The sender's run ends, or is killed.
Stop ==
    /\ at # "down"
    /\ at = "sent" => MayDieUnrecorded
    /\ at' = "down"
    /\ anchor' = 0
    /\ UNCHANGED <<now, ahead, created, saved, requests, replies>>

Next ==
    \/ Tick
    \/ CreateSession
    \/ TakeTime
    \/ Reopen
    \/ SendRequest
    \/ Record
    \/ SendReply
    \/ Stop

Spec == Init /\ [][Next]_vars

-----------------------------------------------------------------------------

\* Timestamps are natural numbers and the clocks differ by at most Slack.
TypeOK ==
    /\ now \in Nat
    /\ ahead \in -Slack..Slack
    /\ created \in Nat
    /\ saved \in Nat
    /\ at \in {"down", "ready", "sent", "listening"}
    /\ anchor \in Nat
    /\ requests \subseteq Nat
    /\ replies \subseteq Nat

\* However late the receiver comes back, every request published to its URI is
\* in the window it asks the relays for.
RequestInWindow == \A r \in requests : r >= backlog_since(created)

\* Whenever the sender listens, every reply to its requests is in its window,
\* across restarts ("so the reply can never predate the window").
ReplyInWindow ==
    at = "listening" => \A r \in replies : r >= backlog_since(anchor)

-----------------------------------------------------------------------------
(* Why: the inductive invariant                                            *)

\* Nobody's saved time is in the future of the clock it was taken from.
ClocksAhead ==
    /\ now > Slack
    /\ created <= now
    /\ anchor <= SenderClock

\* Without a session nothing was sent; with one, requests are in its window.
RequestsAfterSession ==
    /\ created = 0 => requests = {} /\ at = "down" /\ saved = 0
    /\ RequestInWindow

\* A sender that does not die unrecorded has sent nothing before it records an
\* anchor, and replies come after the anchor of the request they answer.
RepliesAfterAnchor ==
    /\ requests = {} => replies = {}
    /\ ~MayDieUnrecorded /\ saved = 0 /\ at # "sent" => requests = {}
    /\ at = "listening" => saved # 0 /\ anchor = saved
    /\ at \in {"ready", "sent"} => saved = 0 /\ anchor # 0
    /\ saved <= SenderClock
    /\ ~MayDieUnrecorded /\ at = "sent" =>
         \A r \in replies : r >= backlog_since(anchor)
    /\ ~MayDieUnrecorded /\ saved # 0 =>
         \A r \in replies : r >= backlog_since(saved)

IInv == TypeOK /\ ClocksAhead /\ RequestsAfterSession /\ RepliesAfterAnchor
=============================================================================
